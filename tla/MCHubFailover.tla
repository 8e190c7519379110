--------------------------- MODULE MCHubFailover ---------------------------
(* Two or three gateways, two of them pinned at the start.                 *)
EXTENDS HubFailover
CONSTANTS r1, r2, h1
=============================================================================
