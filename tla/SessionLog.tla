----------------------------- MODULE SessionLog -----------------------------
(***************************************************************************)
(* A session's JSONL file and the repository manager that writes it        *)
(* (src/session/repository.n, src/session/jsonl.n): the entries form a     *)
(* tree by their parents, `leaf` is the entry the next one is appended to. *)
(*                                                                         *)
(* The manager holds its lock for a whole append, so an append is one step *)
(* that succeeds, throws, or ends with the process, in the last two cases  *)
(* with any prefix of its bytes written.  A file is a sequence of lines; a *)
(* torn line, and two records on one line, do not parse.                   *)
(***************************************************************************)
EXTENDS Naturals, Sequences, SequencesExt, FiniteSets, FiniteSetsExt, Selection

CONSTANTS
    Kinds,          \* records without a reference that the model appends
    MaxEntries,     \* bound: records ever made
    MaxFaults,      \* bound: writes that fail or are cut off by a crash
    MaxForks        \* bound: forks

\* "other" stands for model, thinking, tool, name and custom records.
PlainKinds == {"user", "assistant", "toolResult", "other"}

ASSUME SessionLogAssumption ==
    /\ Kinds \subseteq PlainKinds
    /\ MaxEntries \in Nat /\ MaxFaults \in Nat /\ MaxForks \in Nat

VARIABLES
    entries,            \* manager_t.entries
    leaf,               \* manager_t.leaf_id, 0 when has_leaf is false
    labels,             \* the keys of manager_t.labels_by_id
    session_flushed,    \* the file was created by this manager or loaded
    pending_lines,      \* records held back until the first answer
    needs_separator,
    exists,             \* the file exists
    file,               \* its lines
    terminated,         \* the file is empty or ends in a newline
    alive,              \* a process has the session open
    torn,               \* history: whether an append threw and left a torn line,
                        \* "now" for this manager, "before" for an earlier one
    next, faults, forks

memory == <<entries, leaf, labels, session_flushed, pending_lines>>
disk == <<exists, file, terminated>>
bounds == <<faults, forks>>
logVars == <<memory, needs_separator, disk, alive, torn, next, bounds>>

----------------------------------------------------------------------------
(* Records *)

\* An id is the number of its record: short_id never repeats one.
Line(k, p, r) == [id |-> next, kind |-> k, parent |-> p, ref |-> r]
HEADER == [id |-> 0, kind |-> "header", parent |-> 0, ref |-> 0]
GARBAGE == [id |-> 0, kind |-> "garbage", parent |-> 0, ref |-> 0]

Ids(es) == {es[i].id : i \in DOMAIN es}
ById(es, i) == CHOOSE e \in ToSet(es) : e.id = i

\* load: lines that do not parse are skipped.
Records(lines) == Select(lines, {i \in DOMAIN lines : lines[i].kind \notin {"header", "garbage"}})

\* path_to and active_entries: up to an entry without a parent or one whose
\* parent is not there.  A parent is older than its child, so the ids of a
\* path are also its order.
path_to(es, i) ==
    LET up[j \in 0 .. MaxEntries] ==
          IF j \notin Ids(es) THEN {} ELSE {j} \cup up[ById(es, j).parent]
    IN  up[i]

OfKind(es, ks) == {e.id : e \in {x \in ToSet(es) : x.kind \in ks}}
LabelKinds == {"label", "unlabel"}

\* The labels rebuild_index finds: the last label record of a target counts.
LabelsOf(es) ==
    {t \in {e.ref : e \in ToSet(es)} :
        \E i \in DOMAIN es :
            /\ es[i].kind = "label" /\ es[i].ref = t
            /\ \A j \in i + 1 .. Len(es) : ~(es[j].kind = "unlabel" /\ es[j].ref = t)}

----------------------------------------------------------------------------
(* build_context *)

Compactions(es, i) == path_to(es, i) \cap OfKind(es, {"compaction"})

\* The last compaction of the branch keeps an entry of the branch before it;
\* otherwise build_context throws.
ContextBuilds(es, i) ==
    LET cs == Compactions(es, i)
    IN  cs # {} => LET c == ById(es, Max(cs))
                   IN  c.ref \in path_to(es, i) /\ c.ref < c.id

----------------------------------------------------------------------------
(* prepare and cut_point.find, over the sequence of entries they are given *)

HasMessage(e) == e.kind \in {"user", "assistant", "toolResult", "summary"}
MayCut(e) == HasMessage(e) /\ e.kind # "toolResult"

IndexOf(es, i) == CHOOSE n \in DOMAIN es : es[n].id = i

BoundaryStart(es) ==
    LET cs == {n \in DOMAIN es : es[n].kind = "compaction"}
    IN  IF cs = {} THEN 1
        ELSE IF es[Max(cs)].ref \in Ids(es) THEN IndexOf(es, es[Max(cs)].ref)
        ELSE Max(cs) + 1

\* The cut moves back over entries without a message.
WalkBack(es, start, n) ==
    Max({start} \cup {m \in start + 1 .. n :
                        es[m - 1].kind = "compaction" \/ HasMessage(es[m - 1])})

\* firstKeptEntryId: any cut may be the one that keep_recent_tokens selects.
\* Nothing is compacted when the last entry is a compaction or when there is
\* no message before the cut.
firstKept(es) ==
    LET start == BoundaryStart(es)
        cuts == {n \in start .. Len(es) : MayCut(es[n])}
        kept == {WalkBack(es, start, n) : n \in cuts}
    IN  {es[n].id : n \in {k \in kept : \E m \in start .. k - 1 : HasMessage(es[m])}}

Compactable == entries # <<>> /\ Last(entries).kind # "compaction"

----------------------------------------------------------------------------
(* The file *)

LogInit ==
    /\ entries = <<>> /\ leaf = 0 /\ labels = {}
    /\ session_flushed = FALSE /\ pending_lines = <<>> /\ needs_separator = FALSE
    /\ exists = FALSE /\ file = <<>> /\ terminated = TRUE
    /\ alive = TRUE /\ torn = "no"
    /\ next = 1 /\ faults = 0 /\ forks = 0

\* write_all of whole lines and of the bytes of one more, `rest`, without its
\* newline.  A line that follows an unterminated one is part of it.
Write(lines, rest) ==
    LET all == lines \o rest
        closed == terminated \/ needs_separator
    IN  /\ exists' = TRUE
        /\ file' = IF closed \/ all = <<>> THEN file \o all
                   ELSE Front(file) \o <<GARBAGE>> \o Tail(all)
        /\ terminated' = (rest = <<>> /\ (closed \/ all # <<>>))
        /\ needs_separator' = FALSE

\* What persist_line writes: the first answer creates the file.
Batch(l) == IF session_flushed THEN <<l>> ELSE <<HEADER>> \o pending_lines \o <<l>>

Held(l) == ~session_flushed /\ l.kind # "assistant"
CanOpen(l) == session_flushed \/ ~exists

\* What can follow n whole lines when the writing of b stops: nothing, a part
\* of the next line, or that line without its newline.
Cut(b, n) == IF n = Len(b) THEN {<<>>} ELSE {<<>>, <<GARBAGE>>, <<b[n + 1]>>}

\* Any part of the batch, up to all of it when fsync fails.
WritePart(l) ==
    LET b == Batch(l)
    IN  \E n \in 0 .. Len(b) : \E rest \in Cut(b, n) : Write(SubSeq(b, 1, n), rest)

\* append_object_locked after persist_line, and the label index.
Remember(l) ==
    /\ entries' = Append(entries, l)
    /\ leaf' = l.id
    /\ labels' = IF l.kind = "label" THEN labels \cup {l.ref}
                 ELSE IF l.kind = "unlabel" THEN labels \ {l.ref} ELSE labels

Hold(l) ==
    /\ Held(l)
    /\ pending_lines' = Append(pending_lines, l)
    /\ Remember(l)
    /\ UNCHANGED <<session_flushed, needs_separator, disk, alive, torn, faults>>

Store(l) ==
    /\ ~Held(l) /\ CanOpen(l)
    /\ Write(Batch(l), <<>>)
    /\ session_flushed' = TRUE /\ pending_lines' = <<>>
    /\ Remember(l)
    /\ UNCHANGED <<alive, torn, faults>>

\* A write or fsync fails: the append throws and the entry is not remembered.
\* A leaf that was moved for the append stays where it is.
Refuse(l) ==
    /\ ~Held(l) /\ CanOpen(l) /\ faults < MaxFaults
    /\ WritePart(l)
    /\ leaf' = l.parent
    /\ torn' = IF session_flushed /\ ~terminated' THEN "now" ELSE torn
    /\ faults' = faults + 1
    /\ UNCHANGED <<entries, labels, session_flushed, pending_lines, alive>>

\* The process dies in the append.
Die(l) ==
    /\ ~Held(l) /\ CanOpen(l) /\ faults < MaxFaults
    /\ WritePart(l)
    /\ alive' = FALSE
    /\ faults' = faults + 1
    /\ UNCHANGED <<memory, torn>>

Attempt(l) ==
    /\ alive /\ next <= MaxEntries
    /\ Hold(l) \/ Store(l) \/ Refuse(l) \/ Die(l)
    /\ next' = next + 1
    /\ UNCHANGED forks

----------------------------------------------------------------------------
(* Operations of the manager *)

append_message(k) == Attempt(Line(k, leaf, 0))

append_label_change(t, k) == Attempt(Line(k, leaf, t))

\* run_compaction of src/agent/session.n over get_entries().
append_compaction(kept) ==
    /\ ContextBuilds(entries, leaf)
    /\ Compactable
    /\ kept \in firstKept(entries)
    /\ Attempt(Line("compaction", leaf, kept))

\* inspect_tree_target: a user message is taken back into the editor.
NewLeaf(t) == LET e == ById(entries, t) IN IF e.kind = "user" THEN e.parent ELSE t

\* Nothing is left behind when the old leaf is on the way to the target.
LeavesBranch(t) == leaf # 0 /\ leaf \notin path_to(entries, t)

\* set_leaf, path_to and append_label_change throw for an entry that was lost.
Known(i) == i \in Ids(entries) \cup {0}

\* navigate_tree, and navigate_tree_with_summary with nothing to summarise.
set_leaf(t) ==
    /\ alive /\ t # leaf /\ Known(NewLeaf(t))
    /\ leaf' = NewLeaf(t)
    /\ UNCHANGED <<entries, labels, session_flushed, pending_lines,
                   needs_separator, disk, alive, torn, next, bounds>>

\* run_tree_navigation_inner: set_leaf, and the summary of what is left.
append_branch_summary(t) ==
    /\ t # leaf /\ LeavesBranch(t) /\ Known(NewLeaf(t))
    /\ Attempt(Line("summary", NewLeaf(t), NewLeaf(t)))

----------------------------------------------------------------------------
(* Opening and forking *)

Loadable(lines) == \E i \in DOMAIN lines : lines[i].kind = "header"

\* Mutant: nobody notices that the file ends in the middle of a line.
LoadNoSeparator(lines, closed) ==
    LET es == Records(lines)
    IN  /\ entries' = es
        /\ leaf' = IF es = <<>> THEN 0 ELSE Last(es).id
        /\ labels' = LabelsOf(es)
        /\ session_flushed' = TRUE /\ pending_lines' = <<>>
        /\ needs_separator' = FALSE
        /\ torn' = (IF torn = "no" THEN "no" ELSE "before") /\ alive' = TRUE

\* open: the manager of a loaded file.
Load(lines, closed) ==
    LET es == Records(lines)
    IN  /\ entries' = es
        /\ leaf' = IF es = <<>> THEN 0 ELSE Last(es).id
        /\ labels' = LabelsOf(es)
        /\ session_flushed' = TRUE /\ pending_lines' = <<>>
        /\ needs_separator' = ~closed
        /\ torn' = (IF torn = "no" THEN "no" ELSE "before") /\ alive' = TRUE

open ==
    /\ ~alive /\ Loadable(file)
    /\ Load(file, terminated)
    /\ UNCHANGED <<disk, next, bounds>>

\* A session without a file, or with one that has no header, is given up for
\* a new one.
create ==
    /\ ~alive /\ ~Loadable(file)
    /\ entries' = <<>> /\ leaf' = 0 /\ labels' = {}
    /\ session_flushed' = FALSE /\ pending_lines' = <<>> /\ needs_separator' = FALSE
    /\ exists' = FALSE /\ file' = <<>> /\ terminated' = TRUE
    /\ alive' = TRUE /\ torn' = "no"
    /\ UNCHANGED <<next, bounds>>

\* The process ends while nothing is written.
Exit ==
    /\ alive
    /\ alive' = FALSE
    /\ UNCHANGED <<memory, needs_separator, disk, torn, next, bounds>>

\* Mutant: the label records are dropped and not made anew.
RechainForgetsLabels(ids) ==
    LET base == Ascending(ids \ OfKind(entries, LabelKinds))
    IN  [n \in DOMAIN base |->
            [ById(entries, base[n]) EXCEPT !.parent = IF n = 1 THEN 0 ELSE base[n - 1]]]

\* rechain_with_labels: the records of a path without its label records, each
\* the child of the one before, and a new label record for each label.
rechain_with_labels(ids) ==
    LET base == Ascending(ids \ OfKind(entries, LabelKinds))
        labelled == Ascending(ToSet(base) \cap labels)
    IN  [n \in DOMAIN base |->
            [ById(entries, base[n]) EXCEPT !.parent = IF n = 1 THEN 0 ELSE base[n - 1]]]
        \o [n \in DOMAIN labelled |->
              [id |-> next + n - 1, kind |-> "label", ref |-> labelled[n],
               parent |-> IF n = 1 THEN Last(base) ELSE next + n - 2]]

\* A new file for es, whose new label records have new ids.
Copy(es) ==
    /\ alive /\ forks < MaxForks
    /\ next' = next + Cardinality(Ids(es) \ Ids(entries)) /\ next' <= MaxEntries + 1
    /\ forks' = forks + 1

\* write_new_file and open.
Fork(es) ==
    /\ Copy(es)
    /\ exists' = TRUE /\ file' = <<HEADER>> \o es /\ terminated' = TRUE
    /\ Load(<<HEADER>> \o es, TRUE)
    /\ UNCHANGED faults

\* write_new_file throws in write or fsync, or the process dies in it, and any
\* part of the copy stays among the sessions.  The session that was copied is
\* as before; what is followed here is the copy, until it is opened.
ForkStops(es) ==
    /\ Copy(es) /\ faults < MaxFaults
    /\ LET b == <<HEADER>> \o es
       IN  \E n \in 0 .. Len(b) : \E rest \in Cut(b, n) :
             /\ exists' = TRUE /\ file' = SubSeq(b, 1, n) \o rest /\ terminated' = (rest = <<>>)
    /\ alive' = FALSE
    /\ entries' = <<>> /\ leaf' = 0 /\ labels' = {}
    /\ session_flushed' = FALSE /\ pending_lines' = <<>> /\ needs_separator' = FALSE
    /\ torn' = IF torn = "no" THEN "no" ELSE "before"
    /\ faults' = faults + 1

clone_path_to(i) == Known(i) /\ Fork(rechain_with_labels(path_to(entries, i)))

clone_active == leaf # 0 /\ clone_path_to(leaf)

fork_before(t) ==
    /\ ById(entries, t).kind = "user"
    /\ clone_path_to(ById(entries, t).parent)

\* --fork copies every record that was loaded.
fork_to == Fork(entries)

\* What a fork or a clone may be made of.
Branches == {leaf} \cup {ById(entries, t).parent : t \in OfKind(entries, {"user"})}

copy_stops ==
    \/ ForkStops(entries)
    \/ \E i \in Branches : Known(i) /\ ForkStops(rechain_with_labels(path_to(entries, i)))

----------------------------------------------------------------------------
LogNext ==
    \/ \E k \in Kinds : append_message(k)
    \/ \E t \in Ids(entries) :
         \/ \E k \in LabelKinds : append_label_change(t, k)
         \/ append_compaction(t) \/ set_leaf(t) \/ append_branch_summary(t)
         \/ fork_before(t)
    \/ open \/ create \/ Exit \/ clone_active \/ fork_to \/ copy_stops

LogSpec == LogInit /\ [][LogNext]_logVars

----------------------------------------------------------------------------
(* Properties *)

Record ==
    [id : 0 .. MaxEntries, kind : PlainKinds \cup LabelKinds
       \cup {"compaction", "summary", "header", "garbage"},
     parent : 0 .. MaxEntries, ref : 0 .. MaxEntries + 1]

\* The shapes of memory and file, and the manager's own index: the leaf is an
\* entry it has, no entry is there twice, a parent is older than its child, and
\* the labels append_label_change keeps are those rebuild_index would find.
LogTypeOK ==
    /\ ToSet(entries) \cup ToSet(pending_lines) \cup ToSet(file) \subseteq Record
    /\ leaf \in Ids(entries) \cup {0} /\ labels = LabelsOf(entries)
    /\ Cardinality(Ids(entries)) = Len(entries)
    /\ \A e \in ToSet(entries) : e.parent < e.id
    /\ {session_flushed, needs_separator, exists, terminated, alive} \subseteq BOOLEAN
    /\ torn \in {"no", "now", "before"}
    /\ next \in 1 .. MaxEntries + 1 /\ faults \in 0 .. MaxFaults /\ forks \in 0 .. MaxForks

\* Every entry whose append returned is found by the next load, with the whole
\* branch that leads to it, however the process ended and also after appends
\* that threw, as long as none of those left a torn line behind
\* (persist_line, load).
PathsSurvive ==
    session_flushed /\ torn # "now" =>
        \A i \in Ids(entries) : path_to(Records(file), i) = path_to(entries, i)

\* A load finds the parent of every record it finds, records of appends that
\* threw or were cut off by a crash included: no crash leaves half a branch
\* (persist_line, load).
NoOrphans ==
    torn = "no" =>
        LET es == Records(file)
        IN  \A e \in ToSet(es) : e.parent \in Ids(es) \cup {0}

\* What a load finds is complete: every entry that was acknowledged with its
\* branch, and no entry without its parent.
LogSurvives == PathsSurvive /\ NoOrphans

NotLabels(es, i) == path_to(es, i) \ OfKind(es, LabelKinds)

\* A fork or a clone has the branch it was made of and the labels of that
\* branch, and ends in it (clone_path_to, rechain_with_labels).
ForkKeepsPath ==
    [][\A i \in Ids(entries) :
          clone_path_to(i) => /\ NotLabels(entries', leaf') = NotLabels(entries, i)
                              /\ labels' = labels \cap NotLabels(entries, i)]_logVars

\* The context of the session can be built, whatever was compacted on
\* whichever branch: after a compaction it is the summary and what follows
\* firstKeptEntryId.
AlwaysBuilds == alive => ContextBuilds(entries, leaf)
=============================================================================
