-------------------------- MODULE MCLeaderElection --------------------------
(***************************************************************************)
(* Two replicas whose pools have two connections and one connection.        *)
(***************************************************************************)
EXTENDS LeaderElection

CONSTANTS r1, r2, a1, a2, b1

MCHome == [c \in {a1, a2, b1} |-> IF c \in {a1, a2} THEN r1 ELSE r2]
=============================================================================
