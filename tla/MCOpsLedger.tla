----------------------------- MODULE MCOpsLedger -----------------------------
(* Three threads, two of them in one process, on one contended entry. *)
EXTENDS OpsLedger, TLC

CONSTANTS t1, t2, t3, p1, p2

MCThreads == {t1, t2, t3}
MCProcs == {p1, p2}
MCProcOf == t1 :> p1 @@ t2 :> p1 @@ t3 :> p2

\* The two threads of one process are interchangeable.
MCSymmetry == Permutations({t1, t2})
===============================================================================
