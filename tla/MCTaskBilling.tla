--------------------------- MODULE MCTaskBilling ---------------------------
(* Instances of TaskBilling for TLC.  Tasks share only the bounds, so one  *)
(* task and two workers show every race for its row.                       *)
EXTENDS TaskBilling

CONSTANTS t1, w1, w2

OneTask == {t1}
TwoWorkers == {w1, w2}
=============================================================================
