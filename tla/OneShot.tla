------------------------------ MODULE OneShot ------------------------------
(***************************************************************************)
(* What a stream promises of its outcome: it is decided once, as completed *)
(* or as failed, and every reader that returns reports that decision.      *)
(***************************************************************************)
CONSTANT Readers     \* coroutines that call result()
VARIABLES status,   \* "open", "completed" or "failed"
          report    \* report[r]: what reader r was told last

vars == <<status, report>>

Init == status = "open" /\ report = [r \in Readers |-> "none"]

Decide ==
    /\ status = "open"
    /\ status' \in {"completed", "failed"}
    /\ UNCHANGED report

Report(r) ==
    /\ status # "open"
    /\ report' = [report EXCEPT ![r] =
                    IF status = "completed" THEN "context" ELSE "error"]
    /\ UNCHANGED status

Next == Decide \/ \E r \in Readers : Report(r)

Spec == Init /\ [][Next]_vars
=============================================================================
