--------------------------- MODULE MCAuthSession ---------------------------
(* Instances of AuthSession for TLC.                                       *)
EXTENDS AuthSession

CONSTANTS a, b

TwoTabs == {a, b}

\* Without the lock the tabs interleave more and one act less is affordable.
ActBound == [locked \in BOOLEAN |-> IF locked THEN 3 ELSE 2]
=============================================================================
