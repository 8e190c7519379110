-------------------------- MODULE MCBaseAuthority --------------------------
(* Values of the constants of BaseAuthority.                               *)
EXTENDS BaseAuthority, TLC

CONSTANTS p1, s1, s2

OwnerOne == [p \in {p1} |-> 1]
ServiceSymmetry == Permutations({s1, s2})

\* A drain whose members have acknowledged the arm authority, at revision 1, and
\* the maintain authority of the drain, at revision 2, as Init leads to it: the
\* owner served and its lease ran out, and a tick of the leader has ended.
Acknowledged(kind, r) ==
  [Issued(kind, {p1}, base.fields, r, [content |-> base, ver |-> 1]) EXCEPT !.receipt = "fresh"]
Saved == [NoFences EXCEPT ![p1] = Merge(None, base.fields[p1], base, 1)]

DrainInit ==
  /\ base = [fields |-> [p \in Pools |-> {s1}], rest |-> 0]
  /\ ver = 1 /\ spent = [x \in {"edits", "troubles"} |-> 0]
  /\ enabled = TRUE
  /\ pool = [p \in Pools |-> [req |-> "legacy", act |-> "drain_pending", rev |-> 2]]
  /\ lease = [p \in Pools |-> [st |-> "none", cls |-> {}]]
  /\ draft = NoDraft
  /\ deliveries = [n \in Nodes |-> <<Acknowledged("arm", 1), Acknowledged("maintain", 2)>>]
  /\ auth = [n \in Nodes |-> 2]
  /\ file = [n \in Nodes |-> Saved]
  /\ mem = [n \in Nodes |-> Saved]
  /\ proj = [n \in Nodes |-> [content |-> base, ver |-> 1]]
  /\ serving = [n \in Nodes |-> None]
  /\ hand = [n \in Nodes |-> Idle]

DrainSpec == DrainInit /\ [][Next]_vars
=============================================================================
