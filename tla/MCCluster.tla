----------------------------- MODULE MCCluster -----------------------------
(* Cluster for TLC: one CLI process, any number in a row.                  *)
EXTENDS Cluster
=============================================================================
