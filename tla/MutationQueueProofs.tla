------------------------ MODULE MutationQueueProofs ------------------------
(* Proofs about MutationQueue. *)
EXTENDS MutationQueue, FiniteSetTheorems, TLAPS

\* The initial state is well typed (mutation_queue.n registry_t, entry_t).
LEMMA TypeInit == Init => TypeOK
BY MutationQueueAssumption DEF MutationQueueAssumption, Init, TypeOK, PcSet, BodyPcs, Files
\* Every step of acquire, of release and of the tool bodies keeps the types.
LEMMA TypeStep == TypeOK /\ [Next]_vars => TypeOK'
<1> SUFFICES ASSUME TypeOK, [Next]_vars PROVE TypeOK'
  OBVIOUS
<1> USE DEF TypeOK, PcSet, BodyPcs
<1>1. CASE UNCHANGED vars
  BY <1>1 DEF vars, callVars, queueVars, fileVars
<1>2. ASSUME NEW c \in Procs, acquire(c) PROVE TypeOK'
  <2>1. ASSUME NEW t \in {"edit", "write"}, NEW p \in Paths, Begin(c, t, p)
        PROVE TypeOK'
    BY <2>1, MutationQueueAssumption
    DEF Begin, KeyOf, MutationQueueAssumption, queueVars, fileVars
  <2>2. CASE Spin(c, "acqSpin", "acqMark")
    BY <2>2 DEF Spin, callVars, queueVars, fileVars
  <2>3. CASE Mark(c, "acqMark", "acqPublish", "enter")
    BY <2>3 DEF Mark, fileVars
  <2>4. CASE Publish(c, "acqPublish", "enter")
    BY <2>4 DEF Publish, fileVars
  <2>5. CASE EnterRegistry(c)
    <3>1. PICK e \in Entries :
             /\ users' = [users EXCEPT ![e] = @ + 1]
                  \/ users' = [users EXCEPT ![e] = 1]
             /\ holder' = holder \/ holder' = [holder EXCEPT ![e] = None]
             /\ entries' = [entries EXCEPT ![reg[c]][key[c]] = e]
             /\ entry' = [entry EXCEPT ![c] = e]
      BY <2>5 DEF EnterRegistry
    <3>2. entries' \in [Registries -> [Paths -> Entries \cup {None}]]
      BY <3>1
    <3>3. users' \in [Entries -> Int] /\ holder' \in [Entries -> Procs \cup {None}]
      BY <3>1
    <3> QED BY <2>5, <3>1, <3>2, <3>3 DEF EnterRegistry, fileVars
  <2>6. CASE LockEntry(c)
    BY <2>6 DEF LockEntry, callVars, fileVars
  <2> QED BY <1>2, <2>1, <2>2, <2>3, <2>4, <2>5, <2>6 DEF acquire
<1>3. ASSUME NEW c \in Procs, body(c) PROVE TypeOK'
  <2>1. CASE ReadBase(c)
    BY <2>1 DEF ReadBase, File, Files, queueVars, fileVars
  <2>2. CASE OpenTruncate(c)
    BY <2>2, MutationQueueAssumption
    DEF OpenTruncate, File, Files, MutationQueueAssumption, callVars, queueVars
  <2>3. CASE Put(c)
    BY <2>3 DEF Put, File, Files, callVars, queueVars
  <2>4. CASE BodyThrows(c)
    BY <2>4 DEF BodyThrows, callVars, queueVars, fileVars
  <2> QED BY <1>3, <2>1, <2>2, <2>3, <2>4 DEF body
<1>4. ASSUME NEW c \in Procs, release(c) PROVE TypeOK'
  <2>1. CASE UnlockEntry(c)
    BY <2>1 DEF UnlockEntry, callVars, fileVars
  <2>2. CASE Spin(c, "relSpin", "relMark")
    BY <2>2 DEF Spin, callVars, queueVars, fileVars
  <2>3. CASE Mark(c, "relMark", "relPublish", "drop")
    BY <2>3 DEF Mark, fileVars
  <2>4. CASE Publish(c, "relPublish", "drop")
    BY <2>4 DEF Publish, fileVars
  <2>5. CASE DropUse(c)
    <3>1. entries' \in [Registries -> [Paths -> Entries \cup {None}]]
      BY <2>5 DEF DropUse, DropUseWhen
    <3>2. users' \in [Entries -> Int]
      <4>1. users' = [users EXCEPT ![entry[c]] = users[entry[c]] - 1]
        BY <2>5 DEF DropUse, DropUseWhen
      <4>2. CASE entry[c] \in Entries
        BY <4>1, <4>2
      <4>3. CASE entry[c] \notin Entries
        BY <4>1, <4>3
      <4> QED BY <4>2, <4>3
    <3> QED BY <2>5, <3>1, <3>2 DEF DropUse, DropUseWhen, fileVars
  <2> QED BY <1>4, <2>1, <2>2, <2>3, <2>4, <2>5 DEF release
<1> QED BY <1>1, <1>2, <1>3, <1>4 DEF Next

\* The variables keep their types, whether or not a registry was published
\* before the calls (mutation_queue.n acquire, release, get_registry).
THEOREM TypeCorrect == Spec => []TypeOK
BY TypeInit, TypeStep, PTL DEF Spec

\* The queue starts in QueueInv, with a registry or without.
LEMMA QueueInit == Init => QueueInv
<1> SUFFICES ASSUME Init PROVE QueueInv
  OBVIOUS
<1> USE MutationQueueAssumption DEF MutationQueueAssumption, Init
<1>1. TypeOK
  BY TypeInit
<1>2. RegistryShared /\ KeysResolved /\ EntriesFound /\ LocksOwned
  BY DEF RegistryShared, KeysResolved, EntriesFound, LocksOwned,
         HasEntry, InCritical, BodyPcs
<1>3. CountsExact
  <2> SUFFICES ASSUME NEW e \in Entries
               PROVE  users[e] = Cardinality({c \in Procs : entry[c] = e})
    BY DEF CountsExact
  <2>1. {c \in Procs : entry[c] = e} = {}
    OBVIOUS
  <2> QED BY <2>1, FS_EmptySet
<1>4. KeysApart
  <2> SUFFICES ASSUME global_registry # None PROVE KeysApart
    BY DEF KeysApart
  <2>1. global_registry \in Registries
    BY <1>1 DEF TypeOK
  <2> QED BY <2>1 DEF KeysApart
<1> QED BY <1>2, <1>3, <1>4 DEF QueueInv

\* c goes to q, with its entry and in its body as before, and perhaps with the
\* registry it has just looked up; the maps, counts and locks stay.
Moves(c, q) ==
    /\ q \in PcSet \ {"idle", "relPublish"} /\ pc[c] # "idle"
    /\ pc' = [pc EXCEPT ![c] = q]
    /\ UNCHANGED <<global_registry, published, entries, users, holder, entry, key, path>>
    /\ UNCHANGED reg \/ reg' = [reg EXCEPT ![c] = global_registry]
    /\ q = "enter" => global_registry # None /\ reg' = [reg EXCEPT ![c] = global_registry]
    /\ q \in BodyPcs => pc[c] \in BodyPcs
    /\ q \in BodyPcs \cup {"lock", "relSpin", "relMark", "drop"} <=> HasEntry(c)

\* Such a step keeps QueueInv.
LEMMA QueueFrame ==
    ASSUME QueueInv, TypeOK, TypeOK', NEW c \in Procs, NEW q, Moves(c, q)
    PROVE  QueueInv'
<1> USE DEF Moves, PcSet
<1>1. RegistryShared'
  BY DEF QueueInv, RegistryShared, HasEntry, TypeOK, BodyPcs
<1>2. KeysResolved'
  BY DEF QueueInv, KeysResolved, TypeOK
<1>3. EntriesFound'
  BY DEF QueueInv, EntriesFound, HasEntry, TypeOK, BodyPcs
<1>4. LocksOwned'
  BY DEF QueueInv, LocksOwned, InCritical, TypeOK, BodyPcs
<1>5. CountsExact' /\ KeysApart'
  BY DEF QueueInv, CountsExact, KeysApart
<1> QED BY <1>1, <1>2, <1>3, <1>4, <1>5 DEF QueueInv

\* acquire's registry section: the key's entry is found, or a fresh one that
\* no other key and no other coroutine refers to is inserted, and the caller
\* is counted (mutation_queue.n acquire).
LEMMA QueueEnter ==
    ASSUME QueueInv, TypeOK, TypeOK', NEW c \in Procs, EnterRegistry(c)
    PROVE  QueueInv'
<1> DEFINE g == global_registry
<1>1. pc[c] = "enter" /\ reg[c] = g /\ g \in Registries /\ g # None /\ key[c] \in Paths
      /\ entry[c] = None
  BY DEF QueueInv, TypeOK, RegistryShared, EntriesFound, HasEntry, BodyPcs, EnterRegistry
<1>2. PICK e \in Entries :
        /\ \/ /\ entries[g][key[c]] = e
              /\ users' = [users EXCEPT ![e] = @ + 1]
              /\ holder' = holder
           \/ /\ entries[g][key[c]] = None
              /\ FreshEntry(e)
              /\ users' = [users EXCEPT ![e] = 1]
              /\ holder' = [holder EXCEPT ![e] = None]
        /\ entries' = [entries EXCEPT ![g][key[c]] = e]
        /\ entry' = [entry EXCEPT ![c] = e]
  BY <1>1 DEF EnterRegistry
<1>3. /\ pc' = [pc EXCEPT ![c] = "lock"]
      /\ UNCHANGED <<global_registry, published, key, path, reg>>
  BY DEF EnterRegistry
<1>4. e # None
  BY MutationQueueAssumption DEF MutationQueueAssumption
<1>5. RegistryShared'
  BY <1>1, <1>3 DEF QueueInv, RegistryShared, HasEntry, TypeOK, BodyPcs
<1>6. KeysResolved'
  BY <1>1, <1>3 DEF QueueInv, KeysResolved, TypeOK
<1>7. ASSUME NEW d \in Procs, d # c, HasEntry(d)
      PROVE  entry[d] \in Entries /\ entries[g][key[d]] = entry[d] /\ key[d] \in Paths
  BY <1>7 DEF QueueInv, EntriesFound, TypeOK, HasEntry, BodyPcs
<1>8. EntriesFound'
  <2> SUFFICES ASSUME NEW d \in Procs
               PROVE  IF HasEntry(d)'
                        THEN entry'[d] # None /\ entries'[g][key[d]] = entry'[d]
                        ELSE entry'[d] = None
    BY <1>3 DEF EntriesFound
  <2>1. CASE d = c
    BY <2>1, <1>1, <1>2, <1>3, <1>4 DEF HasEntry, BodyPcs, QueueInv, TypeOK
  <2>2. CASE d # c
    <3>1. entry'[d] = entry[d] /\ HasEntry(d)' = HasEntry(d)
      BY <2>2, <1>2, <1>3 DEF HasEntry, QueueInv, TypeOK
    <3>2. CASE HasEntry(d)
      <4>1. entries'[g][key[d]] = entries[g][key[d]]
        <5>1. CASE key[d] = key[c]
          BY <5>1, <1>1, <1>2, <1>7, <3>2, <2>2, MutationQueueAssumption
          DEF QueueInv, TypeOK, MutationQueueAssumption
        <5>2. CASE key[d] # key[c]
          BY <5>2, <1>1, <1>2, <1>7, <3>2, <2>2 DEF QueueInv, TypeOK
        <5> QED BY <5>1, <5>2
      <4> QED BY <3>1, <3>2, <4>1 DEF QueueInv, EntriesFound
    <3>3. CASE ~HasEntry(d)
      BY <3>1, <3>3 DEF QueueInv, EntriesFound
    <3> QED BY <3>2, <3>3
  <2> QED BY <2>1, <2>2
<1>9. LocksOwned'
  <2> SUFFICES ASSUME NEW d \in Procs, InCritical(d)'
               PROVE  holder'[entry'[d]] = d
    BY DEF LocksOwned
  <2>1. d # c /\ InCritical(d) /\ entry'[d] = entry[d]
    BY <1>1, <1>2, <1>3 DEF InCritical, BodyPcs, QueueInv, TypeOK
  <2>2. holder[entry[d]] = d /\ entry[d] \in Entries
    BY <2>1, <1>7 DEF QueueInv, LocksOwned, HasEntry, InCritical
  <2>3. CASE FreshEntry(e)
    BY <2>1, <2>2, <2>3, <1>2 DEF FreshEntry, QueueInv, TypeOK
  <2>4. CASE holder' = holder
    BY <2>1, <2>2, <2>4
  <2> QED BY <2>3, <2>4, <1>2
<1>10. CountsExact'
  <2> SUFFICES ASSUME NEW x \in Entries
               PROVE  users'[x] = Cardinality({d \in Procs : entry'[d] = x})
    BY DEF CountsExact
  <2> DEFINE S == {d \in Procs : entry[d] = x}
  <2>0. IsFiniteSet(S) /\ users[x] = Cardinality(S)
    BY FS_Subset, MutationQueueAssumption DEF MutationQueueAssumption, QueueInv, CountsExact
  <2>1. CASE x # e
    <3>1. {d \in Procs : entry'[d] = x} = S
      BY <2>1, <1>1, <1>2, MutationQueueAssumption
      DEF QueueInv, TypeOK, MutationQueueAssumption
    <3> QED BY <3>1, <2>0, <2>1, <1>2 DEF QueueInv, TypeOK
  <2>2. CASE x = e
    <3>1. {d \in Procs : entry'[d] = x} = S \cup {c} /\ c \notin S
      BY <2>2, <1>1, <1>2, <1>4 DEF QueueInv, TypeOK
    <3>2. Cardinality(S \cup {c}) = Cardinality(S) + 1
      BY <3>1, <2>0, FS_AddElement
    <3>3. CASE FreshEntry(e) /\ users' = [users EXCEPT ![e] = 1]
      <4>1. S = {}
        BY <3>3, <2>2 DEF FreshEntry
      <4>2. Cardinality(S) = 0
        BY <4>1, FS_EmptySet
      <4>3. users'[x] = 1
        BY <3>3, <2>2 DEF QueueInv, TypeOK
      <4> QED BY <4>2, <4>3, <3>1, <3>2
    <3>4. CASE users' = [users EXCEPT ![e] = @ + 1]
      BY <3>1, <3>2, <3>4, <2>0, <2>2 DEF QueueInv, TypeOK
    <3> QED BY <1>2, <3>3, <3>4
  <2> QED BY <2>1, <2>2
<1>11. KeysApart'
  <2> SUFFICES ASSUME NEW k \in Paths, NEW l \in Paths,
                      entries'[g][k] = entries'[g][l], k # l
               PROVE  entries'[g][k] = None
    BY <1>3 DEF KeysApart
  <2>1. \A m \in Paths : entries'[g][m] = IF m = key[c] THEN e ELSE entries[g][m]
    BY <1>1, <1>2 DEF QueueInv, TypeOK
  <2>2. \A m \in Paths : m # key[c] => entries[g][m] # e
    BY <1>1, <1>2, <1>4 DEF QueueInv, KeysApart, FreshEntry
  <2> QED BY <2>1, <2>2, <1>1 DEF QueueInv, KeysApart
<1> QED BY <1>5, <1>6, <1>8, <1>9, <1>10, <1>11 DEF QueueInv

\* release's registry section: the entry goes only with its last user, so a
\* coroutine that waits for its lock or owns it never loses its entry
\* (mutation_queue.n release).
LEMMA QueueDrop ==
    ASSUME QueueInv, TypeOK, TypeOK', NEW c \in Procs, DropUse(c)
    PROVE  QueueInv'
<1> DEFINE g == global_registry
           e == entry[c]
<1>1. /\ pc[c] = "drop" /\ reg[c] = g /\ g \in Registries /\ g # None /\ key[c] \in Paths
      /\ e \in Entries /\ e # None /\ entries[g][key[c]] = e
  BY DEF QueueInv, TypeOK, RegistryShared, EntriesFound, HasEntry, BodyPcs, DropUse,
     DropUseWhen
<1>2. /\ pc' = [pc EXCEPT ![c] = "idle"]
      /\ entry' = [entry EXCEPT ![c] = None]
      /\ key' = [key EXCEPT ![c] = None]
      /\ path' = [path EXCEPT ![c] = None]
      /\ reg' = [reg EXCEPT ![c] = None]
      /\ users' = [users EXCEPT ![e] = users[e] - 1]
      /\ UNCHANGED <<global_registry, published, holder>>
  BY DEF DropUse, DropUseWhen
<1>3. entries' = IF users[e] = 1 THEN [entries EXCEPT ![g][key[c]] = None] ELSE entries
  BY <1>1 DEF DropUse, DropUseWhen
<1>4. ASSUME NEW x \in Entries
      PROVE  LET S == {d \in Procs : entry[d] = x}
             IN  IsFiniteSet(S) /\ users[x] = Cardinality(S)
  BY FS_Subset, MutationQueueAssumption DEF MutationQueueAssumption, QueueInv, CountsExact
<1>5. users[e] = 1 => \A d \in Procs : entry[d] = e => d = c
  <2> SUFFICES ASSUME users[e] = 1, NEW d \in Procs, entry[d] = e PROVE d = c
    OBVIOUS
  <2> DEFINE S == {b \in Procs : entry[b] = e}
  <2>1. IsFiniteSet(S) /\ Cardinality(S) = 1
    BY <1>1, <1>4
  <2>2. \E x : S = {x}
    BY <2>1, FS_Singleton
  <2> QED BY <2>2
<1>6. RegistryShared'
  BY <1>1, <1>2 DEF QueueInv, RegistryShared, HasEntry, TypeOK, BodyPcs
<1>7. KeysResolved'
  BY <1>1, <1>2 DEF QueueInv, KeysResolved, TypeOK
<1>8. EntriesFound'
  <2> SUFFICES ASSUME NEW d \in Procs
               PROVE  IF HasEntry(d)'
                        THEN entry'[d] # None /\ entries'[g][key'[d]] = entry'[d]
                        ELSE entry'[d] = None
    BY <1>2 DEF EntriesFound
  <2>1. CASE d = c
    BY <2>1, <1>2 DEF HasEntry, BodyPcs, QueueInv, TypeOK
  <2>2. CASE d # c
    <3>1. entry'[d] = entry[d] /\ key'[d] = key[d] /\ HasEntry(d)' = HasEntry(d)
      BY <2>2, <1>2 DEF HasEntry, QueueInv, TypeOK
    <3>2. CASE HasEntry(d)
      <4>1. entry[d] # None /\ entries[g][key[d]] = entry[d] /\ key[d] \in Paths
        BY <3>2 DEF QueueInv, EntriesFound, TypeOK, HasEntry, BodyPcs
      <4>2. users[e] = 1 => key[d] # key[c]
        BY <4>1, <1>1, <1>5, <2>2
      <4>3. entries'[g][key[d]] = entries[g][key[d]]
        BY <4>1, <4>2, <1>1, <1>3 DEF QueueInv, TypeOK
      <4> QED BY <3>1, <3>2, <4>1, <4>3
    <3>3. CASE ~HasEntry(d)
      BY <3>1, <3>3 DEF QueueInv, EntriesFound
    <3> QED BY <3>2, <3>3
  <2> QED BY <2>1, <2>2
<1>9. LocksOwned'
  BY <1>1, <1>2 DEF QueueInv, LocksOwned, InCritical, BodyPcs, TypeOK
<1>10. CountsExact'
  <2> SUFFICES ASSUME NEW x \in Entries
               PROVE  users'[x] = Cardinality({d \in Procs : entry'[d] = x})
    BY DEF CountsExact
  <2> DEFINE S == {d \in Procs : entry[d] = x}
  <2>0. IsFiniteSet(S) /\ users[x] = Cardinality(S)
    BY <1>4
  <2>1. x # None
    BY MutationQueueAssumption DEF MutationQueueAssumption
  <2>2. CASE x # e
    <3>1. {d \in Procs : entry'[d] = x} = S
      BY <2>1, <2>2, <1>1, <1>2 DEF QueueInv, TypeOK
    <3> QED BY <3>1, <2>0, <2>2, <1>2 DEF QueueInv, TypeOK
  <2>3. CASE x = e
    <3>1. {d \in Procs : entry'[d] = x} = S \ {c} /\ c \in S
      BY <2>1, <2>3, <1>1, <1>2 DEF QueueInv, TypeOK
    <3>2. Cardinality(S \ {c}) = Cardinality(S) - 1
      BY <3>1, <2>0, FS_RemoveElement
    <3>3. users'[x] = users[x] - 1
      BY <2>3, <1>2 DEF QueueInv, TypeOK
    <3> QED BY <3>1, <3>2, <3>3, <2>0
  <2> QED BY <2>2, <2>3
<1>11. KeysApart'
  <2>1. \A m \in Paths : entries'[g][m] = entries[g][m] \/ entries'[g][m] = None
    BY <1>1, <1>3 DEF QueueInv, TypeOK
  <2> QED BY <2>1, <1>1, <1>2 DEF QueueInv, KeysApart
<1> QED BY <1>6, <1>7, <1>8, <1>9, <1>10, <1>11 DEF QueueInv

\* The first registry: nobody is past get_registry before it is published, and
\* a second one would make two (mutation_queue.n get_registry).
LEMMA QueuePublish ==
    ASSUME QueueInv, TypeOK, OneRegistry', NEW c \in Procs,
           Publish(c, "acqPublish", "enter")
    PROVE  QueueInv'
<1>1. PICK r \in Registries :
        /\ r # global_registry /\ global_registry' = r /\ published' = published \cup {r}
        /\ reg' = [reg EXCEPT ![c] = r]
        /\ entries' = [entries EXCEPT ![r] = [k \in Paths |-> None]]
  BY DEF Publish, FreshRegistry
<1>2. /\ pc[c] = "acqPublish" /\ pc' = [pc EXCEPT ![c] = "enter"]
      /\ UNCHANGED <<key, path, entry, users, holder>>
  BY DEF Publish
<1>3. r # None
  BY MutationQueueAssumption DEF MutationQueueAssumption
<1>4. global_registry = None /\ published = {}
  BY <1>1 DEF QueueInv, RegistryShared, OneRegistry
<1>5. \A d \in Procs : ~ HasEntry(d) /\ pc[d] # "enter" /\ pc[d] # "relPublish"
  BY <1>4 DEF QueueInv, RegistryShared
<1>6. \A d \in Procs : ~ HasEntry(d)' /\ ~ InCritical(d)'
  BY <1>2, <1>5 DEF HasEntry, InCritical, BodyPcs, TypeOK
<1>7. RegistryShared'
  BY <1>1, <1>2, <1>3, <1>4, <1>5, <1>6 DEF RegistryShared, TypeOK
<1>8. KeysResolved'
  BY <1>2 DEF QueueInv, KeysResolved, TypeOK
<1>9. EntriesFound' /\ LocksOwned'
  BY <1>2, <1>5, <1>6 DEF QueueInv, EntriesFound, LocksOwned
<1>10. CountsExact'
  BY <1>2 DEF QueueInv, CountsExact
<1>11. KeysApart'
  BY <1>1 DEF KeysApart, TypeOK
<1> QED BY <1>7, <1>8, <1>9, <1>10, <1>11 DEF QueueInv

\* The set of registries made global only grows.
LEMMA OneRegistryBefore ==
    ASSUME [Next]_vars, OneRegistry' PROVE OneRegistry
<1>1. published \subseteq published'
  BY DEF Next, acquire, body, release, vars, queueVars, Begin, Spin, Mark, Publish,
     EnterRegistry, LockEntry, ReadBase, OpenTruncate, Put, BodyThrows, UnlockEntry,
     DropUse, DropUseWhen
<1> QED BY <1>1 DEF OneRegistry

\* QueueInv is inductive as long as one registry is published at most.
LEMMA QueueStep ==
    ASSUME QueueInv, TypeOK, [Next]_vars, OneRegistry' PROVE QueueInv'
<1>0. TypeOK'
  BY TypeStep
<1>1. CASE UNCHANGED vars
  BY <1>1 DEF vars, callVars, queueVars, fileVars, QueueInv, TypeOK, RegistryShared,
     KeysResolved, EntriesFound, LocksOwned, CountsExact, KeysApart, HasEntry, InCritical
<1>2. ASSUME NEW c \in Procs, acquire(c) PROVE QueueInv'
  <2>1. ASSUME NEW t \in {"edit", "write"}, NEW p \in Paths, Begin(c, t, p)
        PROVE QueueInv'
    <3> USE <1>0, <2>1 DEF Begin, queueVars, QueueInv, TypeOK
    <3>1. RegistryShared'
      BY DEF RegistryShared, HasEntry, BodyPcs
    <3>2. KeysResolved'
      BY DEF KeysResolved, KeyOf
    <3>3. EntriesFound'
      BY DEF EntriesFound, HasEntry, BodyPcs
    <3>4. LocksOwned'
      BY DEF LocksOwned, InCritical, BodyPcs
    <3>5. CountsExact' /\ KeysApart'
      BY DEF CountsExact, KeysApart
    <3> QED BY <3>1, <3>2, <3>3, <3>4, <3>5
  <2>2. CASE Spin(c, "acqSpin", "acqMark")
    <3>1. Moves(c, "acqMark")
      BY <2>2 DEF Spin, callVars, queueVars, Moves, PcSet, BodyPcs, HasEntry
    <3> QED BY <1>0, <3>1, QueueFrame
  <2>3. CASE Mark(c, "acqMark", "acqPublish", "enter")
    <3>1. CASE global_registry # None
      <4>1. Moves(c, "enter")
        BY <2>3, <3>1 DEF Mark, Moves, PcSet, BodyPcs, HasEntry
      <4> QED BY <1>0, <4>1, QueueFrame
    <3>2. CASE global_registry = None
      <4>1. Moves(c, "acqPublish")
        BY <2>3, <3>2 DEF Mark, Moves, PcSet, BodyPcs, HasEntry
      <4> QED BY <1>0, <4>1, QueueFrame
    <3> QED BY <3>1, <3>2
  <2>4. CASE Publish(c, "acqPublish", "enter")
    BY <2>4, QueuePublish
  <2>5. CASE EnterRegistry(c)
    BY <1>0, <2>5, QueueEnter
  <2>6. CASE LockEntry(c)
    <3> USE <1>0, <2>6 DEF LockEntry, callVars, QueueInv, TypeOK
    <3>1. RegistryShared'
      BY DEF RegistryShared, HasEntry, BodyPcs
    <3>2. KeysResolved'
      BY DEF KeysResolved
    <3>3. EntriesFound'
      BY DEF EntriesFound, HasEntry, BodyPcs
    <3>4. LocksOwned'
      <4>1. entry[c] \in Entries /\ holder[entry[c]] = None
        BY DEF EntriesFound, HasEntry, BodyPcs
      <4>2. \A d \in Procs : d # None
        BY MutationQueueAssumption DEF MutationQueueAssumption
      <4> QED BY <4>1, <4>2 DEF LocksOwned, InCritical, BodyPcs
    <3>5. CountsExact' /\ KeysApart'
      BY DEF CountsExact, KeysApart
    <3> QED BY <3>1, <3>2, <3>3, <3>4, <3>5
  <2> QED BY <1>2, <2>1, <2>2, <2>3, <2>4, <2>5, <2>6 DEF acquire
<1>3. ASSUME NEW c \in Procs, body(c) PROVE QueueInv'
  <2>1. CASE ReadBase(c)
    <3>1. Moves(c, "open")
      BY <2>1 DEF ReadBase, callVars, queueVars, Moves, PcSet, BodyPcs, HasEntry
    <3> QED BY <1>0, <3>1, QueueFrame
  <2>2. CASE OpenTruncate(c)
    <3>1. Moves(c, "put")
      BY <2>2 DEF OpenTruncate, callVars, queueVars, Moves, PcSet, BodyPcs, HasEntry
    <3> QED BY <1>0, <3>1, QueueFrame
  <2>3. CASE Put(c)
    <3>1. Moves(c, "unlock")
      BY <2>3 DEF Put, callVars, queueVars, Moves, PcSet, BodyPcs, HasEntry
    <3> QED BY <1>0, <3>1, QueueFrame
  <2>4. CASE BodyThrows(c)
    <3>1. Moves(c, "unlock")
      BY <2>4 DEF BodyThrows, callVars, queueVars, Moves, PcSet, BodyPcs, HasEntry
    <3> QED BY <1>0, <3>1, QueueFrame
  <2> QED BY <1>3, <2>1, <2>2, <2>3, <2>4 DEF body
<1>4. ASSUME NEW c \in Procs, release(c) PROVE QueueInv'
  <2>1. CASE UnlockEntry(c)
    <3> USE <1>0, <2>1 DEF UnlockEntry, callVars, QueueInv, TypeOK
    <3>1. RegistryShared'
      BY DEF RegistryShared, HasEntry, BodyPcs
    <3>2. KeysResolved'
      BY DEF KeysResolved
    <3>3. EntriesFound'
      BY DEF EntriesFound, HasEntry, BodyPcs
    <3>4. LocksOwned'
      BY DEF LocksOwned, EntriesFound, HasEntry, InCritical, BodyPcs
    <3>5. CountsExact' /\ KeysApart'
      BY DEF CountsExact, KeysApart
    <3> QED BY <3>1, <3>2, <3>3, <3>4, <3>5
  <2>2. CASE Spin(c, "relSpin", "relMark")
    <3>1. Moves(c, "relMark")
      BY <2>2 DEF Spin, callVars, queueVars, Moves, PcSet, BodyPcs, HasEntry
    <3> QED BY <1>0, <3>1, QueueFrame
  <2>3. CASE Mark(c, "relMark", "relPublish", "drop")
    <3>1. CASE global_registry # None
      <4>1. Moves(c, "drop")
        BY <2>3, <3>1 DEF Mark, Moves, PcSet, BodyPcs, HasEntry
      <4> QED BY <1>0, <4>1, QueueFrame
    <3>2. CASE global_registry = None
      BY <2>3, <3>2 DEF Mark, QueueInv, RegistryShared, HasEntry
    <3> QED BY <3>1, <3>2
  <2>4. CASE Publish(c, "relPublish", "drop")
    BY <2>4 DEF Publish, QueueInv, RegistryShared
  <2>5. CASE DropUse(c)
    BY <1>0, <2>5, QueueDrop
  <2> QED BY <1>4, <2>1, <2>2, <2>3, <2>4, <2>5 DEF release
<1> QED BY <1>1, <1>2, <1>3, <1>4 DEF Next

\* Whether a registry is published before the calls or by the first of them:
\* as long as only one is, every key has one entry and its users are known.
THEOREM QueueInvHolds == Spec => [](OneRegistry => QueueInv)
<1> DEFINE IInv == TypeOK /\ (OneRegistry => QueueInv)
<1>1. Init => IInv
  BY TypeInit, QueueInit
<1>2. IInv /\ [Next]_vars => IInv'
  BY TypeStep, QueueStep, OneRegistryBefore
<1>3. IInv => (OneRegistry => QueueInv)
  OBVIOUS
<1> QED BY <1>1, <1>2, <1>3, PTL DEF Spec

\* For any number of coroutines and paths: two tool bodies never run under
\* the same key at once, if one registry was published (mutation_queue.n
\* acquire, release).
THEOREM KeyExclusionHolds == Spec => []KeyExclusion
<1>1. (OneRegistry => QueueInv) => KeyExclusion
  BY DEF QueueInv, KeyExclusion, LocksOwned, EntriesFound, HasEntry, InCritical
<1> QED BY <1>1, QueueInvHolds, PTL

\* The registry's counts are exact and its entries in use, so it does not
\* leak one entry per file ever written (mutation_queue.n release).
THEOREM CountsExactHolds == Spec => [](OneRegistry => CountsExact)
<1>1. (OneRegistry => QueueInv) => (OneRegistry => CountsExact)
  BY DEF QueueInv
<1> QED BY <1>1, QueueInvHolds, PTL

LEMMA KeysAreFiles ==
    ASSUME \A p \in Paths : Canon[p] = p, TypeOK, QueueInv PROVE FileExclusion
BY DEF QueueInv, TypeOK, KeysResolved, FileExclusion, LocksOwned, EntriesFound,
       HasEntry, InCritical, BodyPcs, File

\* Where no path goes through a symbolic link, one key is one file: no two
\* tool bodies are ever on the same file (write.n and shell_tools.n execute).
THEOREM FileExclusionHolds ==
    ASSUME \A p \in Paths : Canon[p] = p
    PROVE  Spec => [](OneRegistry => FileExclusion)
<1>1. TypeOK /\ (OneRegistry => QueueInv) => (OneRegistry => FileExclusion)
  BY KeysAreFiles
<1> QED BY <1>1, TypeCorrect, QueueInvHolds, PTL

\* There an edit never writes over a change made since it read the file
\* (the comment in shell_tools.n edit_executor_t.execute).
THEOREM NoLostUpdateHolds ==
    ASSUME \A p \in Paths : Canon[p] = p
    PROVE  Spec => []NoLostUpdate
<1>2. Init => NoLostUpdate
  BY DEF Init, EditsCurrent, NoLostUpdate
<1>3. FileExclusion /\ TypeOK /\ EditsCurrent /\ [Next]_vars => EditsCurrent'
  <2> SUFFICES ASSUME FileExclusion, TypeOK, EditsCurrent, [Next]_vars
               PROVE  EditsCurrent'
    OBVIOUS
  <2> USE DEF EditsCurrent, TypeOK, File
  <2>1. CASE UNCHANGED vars
    BY <2>1 DEF vars, callVars, fileVars
  <2>2. ASSUME NEW c \in Procs, acquire(c) PROVE EditsCurrent'
    <3>1. ASSUME NEW t \in {"edit", "write"}, NEW p \in Paths, Begin(c, t, p)
          PROVE EditsCurrent'
      BY <3>1 DEF Begin, fileVars
    <3>2. CASE Spin(c, "acqSpin", "acqMark")
      BY <3>2 DEF Spin, callVars, fileVars
    <3>3. CASE Mark(c, "acqMark", "acqPublish", "enter")
      BY <3>3 DEF Mark, fileVars
    <3>4. CASE Publish(c, "acqPublish", "enter")
      BY <3>4 DEF Publish, fileVars
    <3>5. CASE EnterRegistry(c)
      BY <3>5 DEF EnterRegistry, fileVars
    <3>6. CASE LockEntry(c)
      BY <3>6 DEF LockEntry, callVars, fileVars
    <3> QED BY <2>2, <3>1, <3>2, <3>3, <3>4, <3>5, <3>6 DEF acquire
  <2>3. ASSUME NEW c \in Procs, body(c) PROVE EditsCurrent'
    <3>1. CASE ReadBase(c)
      BY <3>1 DEF ReadBase, fileVars
    <3>2. CASE OpenTruncate(c)
      BY <3>2 DEF OpenTruncate, callVars, FileExclusion, InCritical, BodyPcs
    <3>3. CASE Put(c)
      BY <3>3 DEF Put, callVars, FileExclusion, InCritical, BodyPcs
    <3>4. CASE BodyThrows(c)
      BY <3>4 DEF BodyThrows, callVars, fileVars
    <3> QED BY <2>3, <3>1, <3>2, <3>3, <3>4 DEF body
  <2>4. ASSUME NEW c \in Procs, release(c) PROVE EditsCurrent'
    <3>1. CASE UnlockEntry(c)
      BY <3>1 DEF UnlockEntry, callVars, fileVars
    <3>2. CASE Spin(c, "relSpin", "relMark")
      BY <3>2 DEF Spin, callVars, fileVars
    <3>3. CASE Mark(c, "relMark", "relPublish", "drop")
      BY <3>3 DEF Mark, fileVars
    <3>4. CASE Publish(c, "relPublish", "drop")
      BY <3>4 DEF Publish, fileVars
    <3>5. CASE DropUse(c)
      BY <3>5 DEF DropUse, DropUseWhen, fileVars
    <3> QED BY <2>4, <3>1, <3>2, <3>3, <3>4, <3>5 DEF release
  <2> QED BY <2>1, <2>2, <2>3, <2>4 DEF Next
<1>4. ASSUME OneRegistry => FileExclusion, TypeOK, NoLostUpdate, [Next]_vars
      PROVE  NoLostUpdate'
  <2> SUFFICES ASSUME OneRegistry' PROVE EditsCurrent'
    BY DEF NoLostUpdate
  <2>1. OneRegistry
    BY <1>4, OneRegistryBefore
  <2> QED BY <1>3, <1>4, <2>1 DEF NoLostUpdate
<1> QED BY <1>2, <1>4, TypeCorrect, FileExclusionHolds, PTL DEF Spec
=============================================================================
