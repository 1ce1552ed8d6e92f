------------------------------ MODULE MCExport ------------------------------
(* Finite instances of Export for TLC.                                     *)
EXTENDS Export

CONSTANTS t1, t2, r1, r2, p0

MCTrainers == {t1, t2}
MCRequests == {r1, r2}
=============================================================================
