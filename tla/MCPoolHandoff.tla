--------------------------- MODULE MCPoolHandoff ---------------------------
(***************************************************************************)
(* Small instances of PoolHandoff: two gateways whose clocks both run      *)
(* behind by the whole margin, the worst case for a lease left to expire.  *)
(***************************************************************************)
EXTENDS PoolHandoff

MCLag == [n \in Nodes |-> Skew]
=============================================================================
