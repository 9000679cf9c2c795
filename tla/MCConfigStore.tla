--------------------------- MODULE MCConfigStore ---------------------------
(* Two processes.  The first refreshes a token and, in other coroutines,   *)
(* changes another entry; the second refreshes the same token and removes  *)
(* the other entry.                                                        *)
EXTENDS ConfigStore
CONSTANTS p1, p2, r1, l1, s1, r2, x2, token, other
McProc == [t \in Tasks |-> IF t \in {r1, l1, s1} THEN p1 ELSE p2]
McKind == [t \in Tasks |->
    CASE t \in {r1, r2} -> "refresh" [] t = l1 -> "late" [] t = s1 -> "save" [] t = x2 -> "remove"]
McKey == [t \in Tasks |-> IF t \in {r1, r2} THEN token ELSE other]
=============================================================================
