---------------------------- MODULE PoolHandoff ----------------------------
(***************************************************************************)
(* Who serves a Kubernetes connector pool.  The control plane's leader     *)
(* renews the owner's serving lease and moves ownership to a standby       *)
(* through a durable, phased operation                                     *)
(* (apps/api/internal/k8s/handoff_orchestration.go, handoff_coordinator.go,*)
(* ownership_lease.go, p2_handoff_adapter.go;  apps/api/internal/nodes/    *)
(* handoff_*.go, fresh_handoff_plan_builder.go, pool_vip_ownership_*.go);  *)
(* the member gateways fetch deliveries, apply them and acknowledge        *)
(* (apps/node/internal/control/pool_vip_ownership_attestation_v3.go).      *)
(*                                                                         *)
(* One pool.  A database transaction is one action; the delivery phases    *)
(* span three transactions of the leader, with everybody else in between.  *)
(* Deliveries and acknowledgements may be delayed for ever (lost) and come *)
(* late; gateways and leaders crash between any two steps.                 *)
(* The control plane's clock is now; gateway n's clock reads now - Lag[n]. *)
(*                                                                         *)
(* A lease here is what OwnershipLease keeps on one gateway: installed     *)
(* until withdrawn, replaced or past its expiry on the gateway's clock.    *)
(* Manifests, digests and identities are abstracted to the row they belong *)
(* to; the health thresholds that start an operation, and the base-state   *)
(* receipts that gate a renewal, to a free choice of when.                 *)
(***************************************************************************)
EXTENDS Integers, Sequences, FiniteSets

CONSTANTS
  Nodes,       \* the pool's members
  FirstOwner,  \* the active member when the pool is armed
  Lag,         \* Lag[n]: how far n's clock runs behind the control plane's
  TTL,         \* freshHandoffLeaseTTL, and the renewal bucket
  Skew,        \* ClockSkewMargin
  MaxAckAge,   \* MaxAckAge
  Budget,      \* freshHandoffPostCASBudget
  MaxTime,     \* bound on the clock
  MaxOps,      \* bound on the operations claimed
  MaxRenewals  \* bound on the renewals of a member in one generation

ASSUME HandoffAssumption ==
  /\ FirstOwner \in Nodes
  /\ TTL \in Nat \ {0} /\ Skew \in Nat \ {0} /\ MaxAckAge \in Nat \ {0}
  /\ Budget \in Nat /\ MaxTime \in Nat /\ MaxOps \in Nat
  /\ MaxRenewals \in Nat
  /\ Lag \in [Nodes -> 0 .. Skew]

Never == -1                    \* a NULL timestamp
Stamp == Nat \cup {Never}

Phases   == {"prepare_candidate", "await_prepared_ack", "await_withdrawal",
             "cas_active", "enable_serving", "await_serving_ack", "finalize",
             "complete", "failed"}
PreCAS   == {"prepare_candidate", "await_prepared_ack", "await_withdrawal", "cas_active"}
PostCAS  == {"enable_serving", "await_serving_ack", "finalize", "complete"}
Terminal == {"complete", "failed"}

\* A row of pool_vip_ownership_deliveries with its receipt.  op is 0 for a
\* renewal, the operation's place in ops otherwise.
Delivery ==
  [role : {"prepared", "withdrawal", "serving"}, gen : Nat, rev : Nat,
   epoch : Nat, exp : Nat, op : Nat, receipt : Stamp]

\* A row of k8s_connector_handoff_operations.  gen is the target generation.
Operation ==
  [old : Nodes, new : Nodes, gen : Nat, oldExp : Nat, exp : Nat, epoch : Nat,
   oldRev : Nat, newRev : Nat, phase : Phases,
   prepAt : Stamp, wdAt : Stamp, expAt : Stamp, servAt : Stamp]

Fence == [gen : Nat, rev : Nat, epoch : Nat]

\* What the leader remembers between two transactions of one delivery.
Deferral == [stage : {"none", "issue", "advance"}, phase : Phases, prep : Stamp]

VARIABLES
  now,         \* the control plane's clock
  active,      \* k8s_connector_pools.active_node_id
  gen,         \* k8s_connector_pools.generation
  armed,       \* the HA transition still matches the membership epoch
  ops,         \* the operations, oldest first; only the last may be under way
  deferred,    \* the leader's delivery between two of its transactions
  deliveries,  \* deliveries[n]: the rows targeting n, in order of creation
  ackState,    \* ackState[n]: pool_vip_ownership_delivery_states
  applied,     \* applied[n]: the row in n's attestation store, 0 for none
  lease,       \* lease[n]: the serving row n's lease lifecycle holds, 0 for none
  hand         \* hand[n]: the row n fetched and has not applied yet, 0 for none

poolVars == <<active, gen, armed, ops, deferred>>
rowVars  == <<deliveries, ackState>>
nodeVars == <<applied, lease, hand>>
vars     == <<now, poolVars, rowVars, nodeVars>>

NoDelivery == [stage |-> "none", phase |-> "failed", prep |-> Never]

TypeOK ==
  /\ now \in 0 .. MaxTime
  /\ active \in Nodes /\ gen \in Nat /\ armed \in BOOLEAN
  /\ ops \in Seq(Operation)
  /\ deferred \in Deferral
  /\ deliveries \in [Nodes -> Seq(Delivery)]
  /\ ackState \in [Nodes -> Fence]
  /\ applied \in [Nodes -> Nat] /\ lease \in [Nodes -> Nat] /\ hand \in [Nodes -> Nat]
  /\ \A n \in Nodes : {applied[n], lease[n], hand[n]} \subseteq 0 .. Len(deliveries[n])

\* The pool has just been armed: the first bucket's serving row to the owner
\* and prepared rows to the others are applied and acknowledged.
Init ==
  /\ now = 0 /\ active = FirstOwner /\ gen = 1 /\ armed = TRUE
  /\ ops = << >> /\ deferred = NoDelivery
  /\ deliveries = [n \in Nodes |->
       << [role |-> IF n = FirstOwner THEN "serving" ELSE "prepared",
           gen |-> 1, rev |-> 1, epoch |-> 1, exp |-> 2 * TTL, op |-> 0,
           receipt |-> 0] >>]
  /\ ackState = [n \in Nodes |-> [gen |-> 1, rev |-> 1, epoch |-> 1]]
  /\ applied = [n \in Nodes |-> 1]
  /\ lease = [n \in Nodes |-> IF n = FirstOwner THEN 1 ELSE 0]
  /\ hand = [n \in Nodes |-> 0]

-----------------------------------------------------------------------------
(* Reading the tables.                                                     *)

Rows(n) == DOMAIN deliveries[n]
Row(n, i) == deliveries[n][i]

Quiet == \A k \in DOMAIN ops : ops[k].phase \in Terminal
Op    == ops[Len(ops)]

\* Faulty variant: the bucket's end is taken off instead of added.
BucketBehind == now - (now % TTL) - 2 * TTL

\* now.Truncate(TTL).Add(2 * TTL)
Bucket == now - (now % TTL) + 2 * TTL

\* The receipt of the current operation's delivery, Never when there is none.
AckOf(n, role) ==
  IF \E i \in Rows(n) : Row(n, i).op = Len(ops) /\ Row(n, i).role = role
  THEN Row(n, CHOOSE i \in Rows(n) :
                 Row(n, i).op = Len(ops) /\ Row(n, i).role = role).receipt
  ELSE Never

\* nowReceiptFresh
Fresh(receipt) == receipt # Never /\ now - receipt < MaxAckAge

\* leaseUsable, of the operation's target lease
Usable == Op.exp > now + Skew

\* An attestation the adapter accepts: a stale or expired one is an error that
\* ends the tick, not a missing acknowledgement.
Attested(receipt) == Fresh(receipt) /\ Op.exp > now

PreCASPoolMatches  == active = Op.old /\ gen = Op.gen - 1
PostCASPoolMatches == active = Op.new /\ gen = Op.gen

\* Faulty variant: the expiry fallback forgets the clock margin.
OldLeaseExpiredNoMargin == Op.oldExp <= now

\* leaseExpiredWithMargin, of the old owner's lease as the operation knows it
OldLeaseExpired == Op.oldExp + Skew <= now

\* EvaluateServingOwnership given the withdrawal receipt, or Never for none:
\* a withdrawal that is present decides, fresh or not.
ServingDecision(withdrawal) ==
  /\ Usable /\ Fresh(Op.prepAt)
  /\ IF withdrawal = Never THEN OldLeaseExpired ELSE Fresh(withdrawal)

-----------------------------------------------------------------------------
(* Renewal.                                                                *)

\* Faulty variant: the owner is taken from the plan the pool was armed with.
RenewalRoleStale(n) == IF n = FirstOwner THEN "serving" ELSE "prepared"

RenewalRole(n) == IF n = active THEN "serving" ELSE "prepared"

\* The bucket's row for n exists already: its delivery ID is the same.
Renewed(n) ==
  \E i \in Rows(n) : /\ Row(n, i).op = 0 /\ Row(n, i).gen = gen
                     /\ Row(n, i).role = RenewalRole(n) /\ Row(n, i).exp = Bucket

\* Revision and lease epoch follow the last acknowledged ones.
Renewal(n) ==
  [role |-> RenewalRole(n), gen |-> gen, rev |-> ackState[n].rev + 1,
   epoch |-> ackState[n].epoch + 1, exp |-> Bucket, op |-> 0, receipt |-> Never]

\* Faulty variant: only acknowledged serving leases are waited for.
RetiredOwnerAcked(n) ==
  /\ n # active
  /\ \E k \in DOMAIN ops :
       ops[k].phase = "complete" /\ ops[k].gen = gen /\ ops[k].old = n
  /\ \A i \in Rows(n) :
       Row(n, i).role = "serving" /\ Row(n, i).receipt # Never => Row(n, i).exp + Skew <= now

\* The previous owner may be left out once every serving lease ever issued to
\* it, acknowledged or not, is past its expiry and the margin.
RetiredOwner(n) ==
  /\ n # active
  /\ \E k \in DOMAIN ops :
       ops[k].phase = "complete" /\ ops[k].gen = gen /\ ops[k].old = n
  /\ \A i \in Rows(n) : Row(n, i).role = "serving" => Row(n, i).exp + Skew <= now

\* One maintenance transaction: a prepared row for every standby and a serving
\* row for the owner.  A row older than its target's acknowledged generation
\* is refused, and with it the whole transaction.
Renew(skipped) ==
  LET issued == {n \in Nodes \ skipped : ~Renewed(n)} IN
  /\ armed /\ Quiet /\ deferred = NoDelivery
  /\ \A n \in skipped : RetiredOwner(n)
  /\ \A n \in Nodes \ skipped : gen >= ackState[n].gen
  /\ issued # {}
  /\ \A n \in issued :
       Cardinality({i \in Rows(n) : Row(n, i).op = 0 /\ Row(n, i).gen = gen}) < MaxRenewals
  /\ deliveries' = [n \in Nodes |-> IF n \in issued
                                    THEN Append(deliveries[n], Renewal(n))
                                    ELSE deliveries[n]]
  /\ UNCHANGED <<now, poolVars, ackState, nodeVars>>

-----------------------------------------------------------------------------
(* The operation.                                                          *)

\* n holds an acknowledged, unexpired row of this role and generation.
Capable(n, role) ==
  {i \in Rows(n) : /\ Row(n, i).role = role /\ Row(n, i).gen = gen
                   /\ Row(n, i).receipt # Never /\ Row(n, i).exp > now}

\* The old owner's lease: the newest of its acknowledged serving rows.
OldServing ==
  CHOOSE i \in Capable(active, "serving") :
    \A j \in Capable(active, "serving") : Row(active, j).rev <= Row(active, i).rev

Larger(a, b) == IF a < b THEN b ELSE a

\* BuildAndClaimFreshHandoffPlan: the four artifacts become immutable.
Claim(candidate) ==
  /\ Quiet /\ deferred = NoDelivery /\ Len(ops) < MaxOps
  /\ candidate # active
  /\ Capable(active, "serving") # {} /\ Capable(candidate, "prepared") # {}
  /\ \A n \in Nodes : ackState[n].rev > 0
  /\ LET oldExp == Row(active, OldServing).exp IN
     ops' = Append(ops,
       [old |-> active, new |-> candidate, gen |-> gen + 1,
        oldExp |-> oldExp, exp |-> Larger(Bucket, oldExp + Budget),
        epoch |-> Larger(ackState[active].epoch, ackState[candidate].epoch) + 1,
        oldRev |-> ackState[active].rev + 1, newRev |-> ackState[candidate].rev + 1,
        phase |-> "prepare_candidate",
        prepAt |-> Never, wdAt |-> Never, expAt |-> Never, servAt |-> Never])
  /\ UNCHANGED <<now, active, gen, armed, deferred, rowVars, nodeVars>>

\* The leader's next tick may act on the last operation.
Ticking(phase) == ops # << >> /\ deferred = NoDelivery /\ Op.phase = phase

\* The last operation moves to a phase.
Advance(phase) == ops' = [ops EXCEPT ![Len(ops)].phase = phase]

\* Decide on a delivery; nothing but the leader's memory changes.
Defer(prep) ==
  /\ deferred' = [stage |-> "issue", phase |-> Op.phase, prep |-> prep]
  /\ UNCHANGED <<now, active, gen, armed, ops, rowVars, nodeVars>>

PrepareCandidate ==
  /\ Ticking("prepare_candidate") /\ PreCASPoolMatches
  /\ Defer(Never)

\* EvaluatePreparedOwnership accepts the candidate's receipt.
WithdrawOld ==
  /\ Ticking("await_prepared_ack") /\ PreCASPoolMatches
  /\ Attested(AckOf(Op.new, "prepared")) /\ Usable
  /\ Defer(AckOf(Op.new, "prepared"))

EnableNew ==
  /\ Ticking("enable_serving") /\ PostCASPoolMatches
  /\ ServingDecision(Op.wdAt)
  /\ Defer(Never)

\* The artifact of the phase the decision was taken in.
Artifact ==
  CASE deferred.phase = "prepare_candidate" ->
         [node |-> Op.new, role |-> "prepared", rev |-> Op.newRev]
    [] deferred.phase = "await_prepared_ack" ->
         [node |-> Op.old, role |-> "withdrawal", rev |-> Op.oldRev]
    [] OTHER ->
         [node |-> Op.new, role |-> "serving", rev |-> Op.newRev + 1]

\* Faulty variant: a retry does not look for the row a dead leader inserted.
IssueAgain ==
  LET a == Artifact IN
  /\ deferred.stage = "issue"
  /\ Op.exp > now /\ Op.gen >= ackState[a.node].gen
  /\ deliveries' = [deliveries EXCEPT ![a.node] = Append(@,
       [role |-> a.role, gen |-> Op.gen, rev |-> a.rev, epoch |-> Op.epoch,
        exp |-> Op.exp, op |-> Len(ops), receipt |-> Never])]
  /\ deferred' = [deferred EXCEPT !.stage = "advance"]
  /\ UNCHANGED <<now, active, gen, armed, ops, ackState, nodeVars>>

\* The second transaction: the row is inserted unless a retry finds it.  The
\* issuer checks the lease and the row's generation, not the operation's phase.
Issue ==
  LET a == Artifact
      row == [role |-> a.role, gen |-> Op.gen, rev |-> a.rev, epoch |-> Op.epoch,
              exp |-> Op.exp, op |-> Len(ops), receipt |-> Never]
      known == \E i \in Rows(a.node) :
                 Row(a.node, i).op = Len(ops) /\ Row(a.node, i).role = a.role
  IN
  /\ deferred.stage = "issue"
  /\ Op.exp > now /\ Op.gen >= ackState[a.node].gen
  /\ deliveries' = IF known THEN deliveries
                   ELSE [deliveries EXCEPT ![a.node] = Append(@, row)]
  /\ deferred' = [deferred EXCEPT !.stage = "advance"]
  /\ UNCHANGED <<now, active, gen, armed, ops, ackState, nodeVars>>

NextPhase ==
  CASE deferred.phase = "prepare_candidate"  -> "await_prepared_ack"
    [] deferred.phase = "await_prepared_ack" -> "await_withdrawal"
    [] OTHER                                 -> "await_serving_ack"

DeferredPoolMatches ==
  IF deferred.phase = "enable_serving" THEN PostCASPoolMatches ELSE PreCASPoolMatches

\* The third: the phase moves on, with the receipt the decision consumed, if
\* operation and pool are still as they were; otherwise a conflict, no change.
AdvanceDeferred ==
  /\ deferred.stage = "advance"
  /\ IF Op.phase = deferred.phase /\ DeferredPoolMatches
     THEN ops' = [ops EXCEPT ![Len(ops)].phase = NextPhase,
                             ![Len(ops)].prepAt = Larger(@, deferred.prep)]
     ELSE UNCHANGED ops
  /\ deferred' = NoDelivery
  /\ UNCHANGED <<now, active, gen, armed, rowVars, nodeVars>>

\* The leader dies, loses its session or fails to issue; its successor starts
\* from the tables.
LeaderCrash ==
  /\ deferred # NoDelivery
  /\ deferred' = NoDelivery
  /\ UNCHANGED <<now, active, gen, armed, ops, rowVars, nodeVars>>

\* What a tick in await_withdrawal or cas_active learns of the withdrawal.
Withdrawal ==
  IF Op.wdAt # Never THEN Op.wdAt ELSE AckOf(Op.old, "withdrawal")

WithdrawalReadable ==
  AckOf(Op.old, "withdrawal") # Never => Attested(AckOf(Op.old, "withdrawal"))

\* The old owner withdrew, or its lease is past expiry and margin.
RecordCASReady ==
  /\ Ticking("await_withdrawal") /\ PreCASPoolMatches
  /\ WithdrawalReadable /\ ServingDecision(Withdrawal)
  /\ ops' = IF Withdrawal = Never
            THEN [ops EXCEPT ![Len(ops)].phase = "cas_active", ![Len(ops)].expAt = now]
            ELSE [ops EXCEPT ![Len(ops)].phase = "cas_active", ![Len(ops)].wdAt = Withdrawal]
  /\ UNCHANGED <<now, active, gen, armed, deferred, rowVars, nodeVars>>

\* CommitK8sConnectorHandoffCAS: owner, generation and phase in one statement.
CommitCAS ==
  /\ Ticking("cas_active") /\ PreCASPoolMatches
  /\ WithdrawalReadable /\ ServingDecision(Withdrawal)
  /\ active' = Op.new /\ gen' = Op.gen
  /\ Advance("enable_serving")
  /\ UNCHANGED <<now, armed, deferred, rowVars, nodeVars>>

FinalizeSuccess ==
  /\ Ticking("await_serving_ack") /\ PostCASPoolMatches
  /\ Attested(AckOf(Op.new, "serving"))
  /\ ops' = [ops EXCEPT ![Len(ops)].phase = "finalize",
                        ![Len(ops)].servAt = AckOf(Op.new, "serving")]
  /\ UNCHANGED <<now, active, gen, armed, deferred, rowVars, nodeVars>>

Complete ==
  /\ Ticking("finalize") /\ PostCASPoolMatches
  /\ Fresh(Op.servAt)
  /\ Advance("complete")
  /\ UNCHANGED <<now, active, gen, armed, deferred, rowVars, nodeVars>>

\* A member joins or leaves: the trigger fails an operation that has not
\* reached its CAS.  Renewals wait until an administrator arms the pool again.
MembershipChanges ==
  /\ armed /\ armed' = FALSE
  /\ IF ~Quiet /\ Op.phase \in PreCAS THEN Advance("failed") ELSE UNCHANGED ops
  /\ UNCHANGED <<now, active, gen, deferred, rowVars, nodeVars>>

-----------------------------------------------------------------------------
(* The gateways.                                                           *)

Clock(n) == now - Lag[n]

\* The row the control plane offers n: unacknowledged, unexpired, highest
\* revision, then youngest.
Issued(n) == {i \in Rows(n) : Row(n, i).receipt = Never /\ Row(n, i).exp > now}
Offered(n, i) ==
  /\ i \in Issued(n)
  /\ \A j \in Issued(n) : \/ Row(n, j).rev < Row(n, i).rev
                          \/ Row(n, j).rev = Row(n, i).rev /\ j <= i

Fetch(n) ==
  /\ hand[n] = 0
  /\ \E i \in Rows(n) : Offered(n, i) /\ hand' = [hand EXCEPT ![n] = i]
  /\ UNCHANGED <<now, poolVars, rowVars, applied, lease>>

\* Faulty variant: only the lease epoch orders two rows.
NewerEpochOnly(n, d) ==
  applied[n] # 0 => d.epoch >= Row(n, applied[n]).epoch

\* The attestor admits a row that is newer than the one it applied last.
Newer(n, d) ==
  applied[n] # 0 =>
    LET prior == Row(n, applied[n]) IN
      d.gen >= prior.gen /\ d.rev > prior.rev /\ d.epoch >= prior.epoch

\* The lease n is left with after a row.
Installed(i, d) == IF d.role = "serving" THEN i ELSE 0

\* PreparePoolVIPOwnershipDeliveryAckV3: apply, read back, record; the
\* acknowledgement is on its way from here on.  The row recorded last is only
\* acknowledged again, which changes nothing.
Apply(n) ==
  LET i == hand[n]
      d == Row(n, i)
  IN
  /\ i # 0 /\ Clock(n) < d.exp /\ Newer(n, d)
  /\ lease' = [lease EXCEPT ![n] = Installed(i, d)]
  /\ applied' = [applied EXCEPT ![n] = i]
  /\ hand' = [hand EXCEPT ![n] = 0]
  /\ UNCHANGED <<now, poolVars, rowVars>>

\* The lease lifecycle acted, in whole or not at all, or withdrew after an
\* error, and the attestation was not recorded.
ApplyUnrecorded(n) ==
  LET i == hand[n] IN
  /\ i # 0 /\ Clock(n) < Row(n, i).exp /\ Newer(n, Row(n, i))
  /\ \E l \in {Installed(i, Row(n, i)), 0} : lease' = [lease EXCEPT ![n] = l]
  /\ hand' = [hand EXCEPT ![n] = 0]
  /\ UNCHANGED <<now, poolVars, rowVars, applied>>

\* The row is refused (expired, or not newer), was recorded already, or the
\* gateway restarts.
Drop(n) ==
  /\ hand[n] # 0
  /\ hand' = [hand EXCEPT ![n] = 0]
  /\ UNCHANGED <<now, poolVars, rowVars, applied, lease>>

\* The lease lifecycle withdraws on its own: expiry, a clock set back, a start
\* that could not resume the lease (module OwnershipLease).
LoseLease(n) ==
  /\ lease[n] # 0
  /\ lease' = [lease EXCEPT ![n] = 0]
  /\ UNCHANGED <<now, poolVars, rowVars, applied, hand>>

\* UpdatePoolVIPOwnershipAckV3: n's acknowledgement of the row it recorded last
\* arrives, late perhaps.  That of an earlier row has a revision no higher than
\* the acknowledged one; like a duplicate or an expired one it changes nothing.
ReceiveAck(n) ==
  LET i == applied[n]
      d == Row(n, i)
  IN
  /\ i # 0
  /\ d.receipt = Never /\ now < d.exp
  /\ d.rev > ackState[n].rev /\ d.epoch >= ackState[n].epoch /\ d.gen >= ackState[n].gen
  /\ deliveries' = [deliveries EXCEPT ![n][i].receipt = now]
  /\ ackState' = [ackState EXCEPT ![n] = [gen |-> d.gen, rev |-> d.rev, epoch |-> d.epoch]]
  /\ UNCHANGED <<now, poolVars, nodeVars>>

TimePasses ==
  /\ now < MaxTime /\ now' = now + 1
  /\ UNCHANGED <<poolVars, rowVars, nodeVars>>

-----------------------------------------------------------------------------
Next ==
  \/ \E skipped \in SUBSET Nodes : Renew(skipped)
  \/ \E n \in Nodes : Claim(n)
  \/ PrepareCandidate \/ WithdrawOld \/ EnableNew
  \/ Issue \/ AdvanceDeferred \/ LeaderCrash
  \/ RecordCASReady \/ CommitCAS \/ FinalizeSuccess \/ Complete
  \/ MembershipChanges \/ TimePasses
  \/ \E n \in Nodes : Fetch(n) \/ Apply(n) \/ ApplyUnrecorded(n) \/ Drop(n)
                    \/ LoseLease(n) \/ ReceiveAck(n)

Spec == Init /\ [][Next]_vars

-----------------------------------------------------------------------------
(* Properties.                                                             *)

\* n's lease is installed and unexpired on n's clock.
Serving(n) == lease[n] # 0 /\ Clock(n) < Row(n, lease[n]).exp

\* The lease an operation waits for covers every serving row of its old owner.
Covered(o) ==
  \A i \in Rows(o.old) :
    Row(o.old, i).role = "serving" /\ Row(o.old, i).gen < o.gen =>
      Row(o.old, i).exp <= o.oldExp

ExpiriesCovered ==
  \A k \in DOMAIN ops : ops[k].expAt # Never => Covered(ops[k])

\* Break before make, on the gateways: a gateway carries the pool's traffic only
\* while the database names it the owner, under the current generation.  Where
\* expiry stood in for a withdrawal this takes a claim whose old lease covers
\* every serving row of the old owner.
OnlyOwnerServes ==
  ExpiriesCovered =>
    \A n \in Nodes : Serving(n) => n = active /\ Row(n, lease[n]).gen = gen

\* D4 of docs/S20.3a-decisions.md without that condition: no path "changes
\* database ownership before" the withdrawal or the expiry of the old lease.
BreakBeforeMake == \A n \in Nodes : Serving(n) => n = active

\* A generation has one owner: serving rows of one generation all target one
\* gateway, those of the current one the active member, and none is ahead.
OneOwnerPerGeneration ==
  \A m \in Nodes : \A i \in Rows(m) : Row(m, i).role = "serving" =>
    /\ Row(m, i).gen <= gen
    /\ Row(m, i).gen = gen => m = active
    /\ \A n \in Nodes \ {m} : \A j \in Rows(n) :
         Row(n, j).role = "serving" => Row(m, i).gen # Row(n, j).gen

\* What an acknowledged withdrawal or preparation attests stays true: the
\* gateway never again holds a lease of an older row, whatever it had fetched
\* before, failed to record or is offered again.
ReleaseHolds ==
  \A n \in Nodes : \A i \in Rows(n) :
    Row(n, i).role # "serving" /\ Row(n, i).receipt # Never /\ lease[n] # 0 =>
      Row(n, lease[n]).rev > Row(n, i).rev

\* A retired owner left out of renewals carries no traffic, even if its last
\* lease was never acknowledged.
RetiredOwnerSilent == \A n \in Nodes : RetiredOwner(n) => ~Serving(n)

\* A leader that died between two of its transactions is retried without a
\* second row: one row per artifact, and no phase awaits a row never issued.
RetriesIdempotent ==
  /\ \A n \in Nodes : \A i \in Rows(n) : Row(n, i).op # 0 =>
       \A j \in Rows(n) :
         Row(n, i).op = Row(n, j).op /\ Row(n, i).role = Row(n, j).role => i = j
  /\ \A k \in DOMAIN ops :
       /\ ops[k].phase \in {"await_prepared_ack", "await_withdrawal", "cas_active"} \cup PostCAS
            => \E i \in Rows(ops[k].new) :
                 Row(ops[k].new, i).op = k /\ Row(ops[k].new, i).role = "prepared"
       /\ ops[k].phase \in {"await_serving_ack", "finalize", "complete"}
            => \E i \in Rows(ops[k].new) :
                 Row(ops[k].new, i).op = k /\ Row(ops[k].new, i).role = "serving"
=============================================================================
