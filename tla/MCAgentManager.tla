---------------------------- MODULE MCAgentManager ----------------------------
(* Two threads of process p and one of process q share one agent. *)
EXTENDS AgentManager, TLC

CONSTANTS p1, p2, q1, P, Q, t1, t2, s1, x1, x2

MCProcessOf == [c \in Callers |-> IF c = q1 THEN Q ELSE P]
MCSymmetry == Permutations({t1, t2}) \cup Permutations({x1, x2}) \cup Permutations({p1, p2})
===============================================================================
