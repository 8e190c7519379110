-------------------------- MODULE MCOwnershipLease --------------------------
(***************************************************************************)
(* Small instances of OwnershipLease: two leases, the second a renewal or  *)
(* a successor of the first with a later expiry.                           *)
(***************************************************************************)
EXTENDS OwnershipLease, TLC

CONSTANTS g1, g2

MCExpiry == (g1 :> 2) @@ (g2 :> 3)
=============================================================================
