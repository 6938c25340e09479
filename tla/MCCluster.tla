------------------------------ MODULE MCCluster ------------------------------
(* Worker w may crash and come back; f and g watch it and fail it over. *)
EXTENDS Cluster, TLC

CONSTANTS w, f, g, k1, k2

MCSymmetry == Permutations({f, g}) \cup Permutations({k1, k2})
===============================================================================
