--------------------------- MODULE MCQuotaLedger ---------------------------
(* Instances of QuotaLedger for TLC.                                       *)
EXTENDS QuotaLedger, TLC

CONSTANTS o1, o2, o3

MCOps == {o1, o2, o3}
Symmetry == Permutations(MCOps)

Mode(r, b) == [redis |-> r, batch |-> b]
AllModes == {Mode(TRUE, TRUE), Mode(TRUE, FALSE), Mode(FALSE, TRUE),
             Mode(FALSE, FALSE)}
BatchMode == {Mode(TRUE, TRUE)}
=============================================================================
