------------------------- MODULE MCConfigShieldRedis -------------------------
(* Two threads on node A and one on node B contend for one resource. *)
EXTENDS ConfigShieldRedis, TLC

CONSTANTS a1, a2, b1, ha1, ha2, hb1, hb2, nA, nB

MCNodeOf == [x \in Clients \cup Beats |->
               IF x \in {b1, hb1, hb2} THEN nB ELSE nA]

MCSymmetry == Permutations({ha1, ha2}) \cup Permutations({hb1, hb2})
===============================================================================
