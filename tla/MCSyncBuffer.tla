------------------------------ MODULE MCSyncBuffer ------------------------------
(* A thread on node A and one on node B contend for one lock file. *)
EXTENDS SyncBuffer, TLC

CONSTANTS a1, b1, ha1, ha2, hb1, nA, nB

MCNodeOf == [x \in Clients \cup Beats |-> IF x \in {b1, hb1} THEN nB ELSE nA]
===============================================================================
