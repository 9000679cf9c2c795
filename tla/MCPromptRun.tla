---------------------------- MODULE MCPromptRun ----------------------------
(* Instances of PromptRun for TLC. *)
EXTENDS PromptRun

Entries(kinds) == [i \in DOMAIN kinds |-> Entry(kinds[i])]
CompactionOf(i) == [kind |-> "compaction", kept |-> i]

\* An empty session; one whose last turn ended in each way the next prompt
\* tells apart; one that was compacted as its last step; one that went on
\* after a compaction.
MCHistories ==
    {<<>>}
    \cup {Entries(<<"user", k>>) : k \in Final \ {"fatal", "aborted"}}
    \cup {Append(Entries(<<"user", "call", "tool", "ok">>), CompactionOf(2)),
          Append(Entries(<<"user", "over">>), CompactionOf(2))
              \o Entries(<<"user", "ok">>)}
=============================================================================
