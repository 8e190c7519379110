# Tunnex: a TLA+ verification of its coordination core

Tunnex is a self-hosted VPN and zero-trust platform: a control plane
(`apps/api`, Go over Postgres and Redis), a gateway agent (`apps/node`), a CLI,
a Kubernetes operator, an application proxy and a web console. This project
models the parts of it whose failure nobody would see in a unit test: which
gateway carries the traffic of a Kubernetes connector pool, how that right is
leased, and how it moves; which replica of the control plane may decide it;
which gateway is an organization's transit hub; and the command lane and push
path through which a gateway hears of all this.

## 1. Inventory

| Component | State it keeps | Operations | What makes it correct |
|---|---|---|---|
| Lease lifecycle of a gateway (`apps/node/internal/ownershiplease/lifecycle.go`, `file_store.go`) | the lease in memory, the "withdrawal owed" flag, the checkpoint file | start, install, withdraw, watchdog check | nothing stays installed that is neither held nor owed; the file never misleads a restart; expiry ends traffic |
| Coordinator, projector and fences (`coordinator.go`, `projector.go`, `fence*.go`, `base_authority*.go`) | overlay, durable fences, base authority counters | apply and read back, compensate, reconcile, arm a fence, accept a base | a fenced pool's addresses never come back through the ordinary base |
| Handoff operation (`apps/api/internal/k8s/handoff_*.go`, `ownership_lease.go`, `p2_handoff_adapter.go`) | a durable row with phase and receipts | claim, decide, issue, advance, CAS, finalize | break before make; one owner per generation; safe retries |
| Delivery ledger (`apps/api/internal/nodes/pool_vip_ownership_delivery*_v3.go`) | deliveries, receipts, the last acknowledged revision | insert, offer, acknowledge | an acknowledgement stays true; stale rows are refused |
| Claim and renewal (`nodes/fresh_handoff_plan_builder.go`, `handoff_bootstrap_plan_source.go`, `handoff_base_authority_maintenance.go`, `handoff_retired_owner_renewal.go`, `handoff_ha_runtime.go`) | none of their own | build the four artifacts; renew all leases of a pool in one transaction | a renewal is newer than what it renews; only the owner is renewed as serving |
| Attestor of a gateway (`apps/node/internal/control/pool_vip_ownership_attestation_v3.go`) | the row applied last | fetch, apply, record, acknowledge | never an older row over a newer one |
| Command lane and push path (`apps/node/cmd/agent/dataplane_lane.go`, `main.go`; `apps/api/internal/nodepush/hub.go`, `http/agentchannel.go`) | two queues with slots, a wake-up, the version fetched last; the hub's version and subscriptions | enqueue, pop, execute, hand over at the lease's deadline; notify, fetch, long poll | no lost wake-up, no deadlock; a lease's withdrawal gets through; a poll waits only on current data |
| HA transition (`nodes/handoff_ha_transition.go`, `handoff_bootstrap_reconciler.go`, `handoff_base_authority_maintenance.go`, `k8s/ha_activation.go`) | requested and actual mode, transition revision | request, opt out, arm, confirm, maintain, drain | fenced is recorded only with every member's evidence; released only behind a barrier |
| Base authority ledger (`nodes/k8s_base_authority_store.go`, `http/k8s_base_authority.go`) | authorities per gateway, their receipts | issue or replay, deliver with the base, acknowledge | a receipt is about one exact base; an authority is never changed in place |
| Leader election (`apps/api/internal/leader`) | one advisory lock, held by a session; flag, pid and connection of the `Elector` | campaign, confirm, run in session, unlock | "fails toward NO LEADER, never toward two"; a leader comes back |
| Hub failover (`nodes/failover.go`, `nodes/service.go`) | `org_hub_set` with two writers; hysteresis counters in memory | elect, reconcile, one tick | no demotion or restoration without its run of ticks; a dead hub is passed |
| Connector health (`k8s/failover.go`) | hysteresis counters | one tick | no flapping; deterministic choice |
| Others (address allocation, device login, sessions, IPsec controller, relay, policy compiler, HTTP API, products) | see `PROJECT.json` | | not modelled |

Interaction. An operator's request moves a pool's mode; the leader's tick then
arms the pool's fences by base authorities, which travel with the ordinary
desired state, and hands the owner its first lease. The leader's scheduler ticks
in a database session that holds the advisory lock; every write of a tick is a
transaction in that session. A gateway learns of a decision only by polling for
the delivery the ledger offers it, applies it on its command lane through the
lease lifecycle, records it in its attestation file and posts an
acknowledgement, which the ledger stamps with the control plane's clock. Nothing
else connects the two: the control plane knows of a gateway what was
acknowledged, and the gateway of the control plane what it fetched and when its
lease ends. The failover of the transit hubs rides on the same leadership,
though not on its session: its tick confirms the lock and then writes through
the pool.

Hard behaviours. Three transactions per delivery with everybody else between
them; leader and gateway crashes at each step; acknowledgements lost or late;
clocks that differ by up to the configured margin, and a gateway's clock set
back; data-plane operations and file writes that fail half way; a lock that
belongs to a connection which two goroutines share; counters in a memory that
leadership leaves and comes back to; producers, a lane and a long poll that all
wait for each other. `PROJECT.json` lists each hazard at its line.

## 2. Modules

### OwnershipLease

One gateway's lease lifecycle. The Go mutex makes its methods exclusive, not
atomic: each clock reading, apply, file write and removal is an action, and the
clock may move either way, or the process die, between any two. `pc` is where
the method stands, `op` which one it is, `cand` the `State` it installs, `obs`
its last clock reading; `current` and `pending` are the two fields of
`Lifecycle`; `disk` is the checkpoint file.

* The data plane is the set of grants of which *anything* is installed. A
  failed apply leaves any subset, since the stages (routes, WireGuard, VIP map,
  DNS) are applied one after another and any of them may fail.
* A grant stands for the effective ownership and its expiry. The canonical form
  and the JSON encoding are left out; a file that does not decode, has a bad
  checksum or is not canonical is `Torn`.
* `Save` loses the error of the write itself (section 4), so its success leaves
  the new checkpoint or a torn file.
* `Return` ends the process when `StartupReconcile` fails, as `main.go` does.

### PoolHandoff

One pool, its member gateways and the control plane's leader. One action per
database transaction: `Claim`, the decision (`PrepareCandidate`, `WithdrawOld`,
`EnableNew`), `Issue`, `AdvanceDeferred`, `RecordCASReady`, `CommitCAS`,
`FinalizeSuccess`, `Complete`, `Renew`, `ReceiveAck`, and `MembershipChanges`
for the trigger of migration 0083. `deferred` is what the leader keeps in
memory between the decision and the advance; `LeaderCrash` empties it, which is
also what a failed issue or a lost session does. The gateways' actions are
`Fetch`, `Apply` (apply, read back, record), `ApplyUnrecorded` (the lifecycle
acted, the record failed), `Drop` and `LoseLease`. The last stands for every way
in which OwnershipLease gives a lease up.

Abstractions, and why they are sound for the properties:

* An acknowledgement is in flight from the moment its row is recorded and may
  arrive at any later time or never. One of a row that is no longer the recorded
  one changes nothing, since the ledger wants a higher revision.
* The leader is one process: each of its transactions checks that it runs in the
  session holding the advisory lock, so a deposed leader's transaction fails,
  which is `LeaderCrash`. `LeaderElection` shows that this holds.
* The health counters choose when an operation starts and the base-state
  receipts when a renewal may: both are free choices here, which only adds
  behaviours.
* The pool starts as the HA transition (`BaseAuthority`) leaves it: armed, first
  leases applied and acknowledged. Arming it again after membership churn is not
  in this module; renewals then stop, as in the code.
* Manifests, digests and Service UIDs are abstracted to the row they belong to:
  they are compared for equality only.

### BaseAuthority

How a pool enters and leaves fenced HA. On the gateway an action is one durable
write or one message: `Fetch` (desired state and pending authority), `Accept`
(the checks of `UpdateBase` and the authority file), `Install` or `InstallFails`
(the fence file, then the projector), `Post` (the receipt), `Serve` or
`ServeFails` (`armFence` and the overlay), `Withdraw`, `Crash`. `file`, `auth`
are the two files; `mem` the coordinator's fences; `proj` the base on show.

On the control plane an action is one transaction of the leader's tick, and
`draft` what it carries to the next: `ArmPlan`, `ReadBase` per node, `ArmIssue`,
`ArmReady`, `ArmLease`, `ArmConfirm`; `MaintainPlan`, `MaintainIssue`;
`DrainPlan`, `DrainIssue` and `DrainUnfence` per node, `DrainReady`,
`DrainFinish`. `Abandon` is every way a tick ends early, a dead leader included.
`Request`, `OptOut`, `OptIn` are the operator; `Edit` any other writer; `Notify`
the push hub; `NextBucket`, `GoStale`, `LeaseLapse` are time.

* A pool's fields are a set of services, the rest of the base one value, and a
  hash the content it is of: the code compares hashes for equality only.
* Every node is a member of every pool and sees the same content. Membership,
  generation and handoffs do not change here; the prepared receipts of standbys
  and the retired-owner exemption, which depend on them, are left out.
* An authority expires two `AuthorityTTL` buckets after the start of its bucket;
  `age` counts the buckets. A receipt is fresh, then stale. The leases of a pool
  are one record: whether one is live, and whether one is acknowledged.
* Which node's receipt is the latest, which decides the fields of a drain, is
  left open; the pending-receipt record only keeps the receipt's date, and is
  left out.
* `SaveFences` loses the error of its write, as `FileStateStore.Save` does: it
  may leave a torn file, which the properties about the file except. It may also
  fail after its rename, and then the file is ahead of memory.
* `UpdateBase` saves the fences only when they differ from the ones in memory
  (`reflect.DeepEqual`). A fence carries the content and the version of the base
  that it was last merged with (`Merge`), so equal fences are the code's.

### LeaderElection and SingleWriter

The replicas, their connections and the database's sessions. A campaign is a
sequence of database calls and each is an action (`Acquire`, `TryLock`, `Probe`
for the pooling probe and the pid, `Publish`, `Lead`, `PingFails`, `Drop`,
`ClearPID`, `Unlock`, `Wake`); a fenced scheduler is `ConfirmLeaderEpoch`,
`EnterSession` (the mutex and the fields), `QuerySession`, `FencedWrite`,
`LeaveSession`.

* A connection has a server's end (`alive`) and a client's end (`cli`). A call
  that fails leaves the connection closed by the driver, or intact; a lost
  answer of `pg_try_advisory_lock` may leave the lock taken. `kept` records the
  connections whose unlock call itself failed.
* Session locks stack, so `depth` counts; sessions are numbered by their
  connection and a name is used again once nothing refers to it.
* A context that ends during a query closes the connection (a fault); one that
  ended before the query began leaves it intact (`expiries`).

`SingleWriter` is what leadership promises, without sessions, flags or pools:
one holder at a time, and only the holder writes. `FencedWrites` is that
specification with the session that has the lock as the holder, so the run
checks that every step of the election is a step of it or a stutter.

### HubFailover

The row `org_hub_set`, the gateways it is elected from, the requests that
change them (`Edit`, then `ReconcileRead` and `ReconcileWrite`, or
`ReconcileFail`) and the tick of the leading replica (`Tick` up to its
transaction, then `TickWrite` or `TickFail`) with the `FailoverController` of
each process. `LoseLeadership` and `GainLeadership` move the lock between
replicas; `Restart` forgets the counters.

* A verdict (fresh, stale, none) is chosen freely for each member and tick: it
  stands for the youngest handshake reported of it. The reads of one tick are
  one step. The generation and the audit rows are left out.
* Counts stop at their thresholds, past which the code only compares them.
* `Ordered` is the sort of the election and the loop that collects the demoted
  members: the one sequence of a set that follows an order. It is stated by what
  it returns, since the provers know nothing of `SelectSeq` and `SortSeq`.
* `runs`, `convicted` and `cleared` are history: what the ticks of *all*
  replicas saw. The properties compare the row with them, and the code's own
  counters appear in no property. A demotion that a restarted process takes over
  from the row counts as a conviction.

### AgentLane

The command lane of one agent with its producers, and the push path. A producer
takes a slot, appends under the mutex, signals and waits (`TakeSlot`,
`AppendCommand`, `Signal`, `Return`); the lane pops, runs, hands over at the
deadline of the lease or sleeps (`LanePop`, `LaneEnd`, `LaneCheck`,
`LaneFindsNothing`, `LaneSleep`, `LaneWake`). The desired-state producer fetches
the version and then the data, and polls (`FetchVersion`, `FetchData`,
`WatchBegin`); the handler subscribes, compares, parks (`WatchCompare`,
`WatchAnswer`). `Commit` and `Notify` are two steps with a restart of the
control plane (`Reboot`) possible between them. `stage` is the startup of
`main.go`, whose failures stop the agent.

* A desired state is the number of commits it was read after; a lease is
  absent, held or expired. What a command does to the data plane is
  OwnershipLease's and BaseAuthority's.
* The watchdog is the urgent producer; of the normal ones the desired state and
  the ownership deliveries are modelled, the other tickers submit likewise.
* One hub: `nodepush` is documented as in-process and single-instance. Several
  replicas would each have a version of their own: a poll at another replica
  answers at once, and a change notified at another waits for the poll's hold.

MC modules give the constants their values: `MCOwnershipLease` two grants with
different expiries, `MCPoolHandoff` clocks that lag by the whole margin,
`MCBaseAuthority` the owner of a pool and, for one run, a start half way through
a drain, `MCLeaderElection` the pools of two replicas. Each component module but
`SingleWriter` has a module of proofs beside it (section 5).

## 3. Runs

| Run | Instance | Result |
|---|---|---|
| `OwnershipLease` | 2 grants, clock in 0..3 | passes: `ResidueAccounted`, `CheckpointCovers`, `ClearOnlyWithdrawn`, `ClockFloorKept`, and `ExpiredLeaseWithdrawn` under `Fairness`; 54,696 states |
| `OwnershipLeaseTorn` | the same | violates `CheckpointReadable` |
| `PoolHandoff` | 2 gateways, time 0..4, 1 operation, 2 rows of renewal each | passes: `OnlyOwnerServes`, `RetiredOwnerSilent`, `ReleaseHolds`, `OneOwnerPerGeneration`, `RetriesIdempotent`; 1,677,984 states |
| `PoolHandoffUnacked` | as `PoolHandoff` | violates `BreakBeforeMake` |
| `BaseAuthority` | 2 gateways, 1 pool; 2 revisions, 3 authorities per gateway, 1 trouble | passes: `AcceptedIsDurable`, `FencedEverywhere`, `ReleaseAfterBarrier`; 1,130,916 states |
| `BaseAuthorityEdits` | 2 services (symmetric), 1 change of the base, 2 versions, 2 authorities, 1 revision | passes: `AcceptedIsHidden`, `FenceBoundToBase`; 978,367 states |
| `BaseAuthorityRelease` | 2 gateways, from a drain whose barrier is complete (`DrainInit`) | violates `AcknowledgedStaysArmed` |
| `LeaderElection` | 2 replicas, 3 connections, 1 scheduler each, 2 faults, 1 expired context | passes: `FlagLagsOnlyDeath`, `NoParkedLock`, the refinement `FencedWrites`, and `LeadershipReturns` under `Fairness`; 223,353 states |
| `LeaderStranded` | the same, no fault | violates `GapIsBounded` |
| `HubFailover` | 1 replica, 2 gateways, thresholds 2 and 3, 2 troubles | passes: `NoSpuriousDemotion`, `RestoreWitnessed`, and `DeadHubIsPassed`, `StaleSetHeals` under the tick's fairness; 144,628 states |
| `HubFailoverMoved` | 2 replicas | violates `NoSpuriousDemotion` |
| `AgentLane` | 3 producers, 1 slot per class, 1 commit, 1 lease, 1 trouble | passes: `NoLostWake`, `SlotsCoverQueues`, `ParkedIsCurrent`, `DeadlineHandsOver`, and `LaneNeverStuck` under fairness; 1,155,704 states |

Bounds. Two grants are a lease and its renewal or successor; a third would only
repeat the pair. Clock values 0..3 with expiries 2 and 3 give readings before,
at and after each expiry, and room to step back. In `PoolHandoff` a unit of
time is the renewal bucket: the lease TTL and the margin are 1, the age limit of
acknowledgements 2, the post-CAS budget 3 (in the code 30 s, 1 s, 60 s and
90 s: the margin is stretched to a whole unit, the smallest the model can tell
apart). Time 4 lets a lease issued at time 0 or 1 run out, with margin, on a
lagging clock and the operation finish. One renewal beyond the initial row is
what an unacknowledged lease needs. A second operation, a retry after a failure
or a failback, does not fit a run of five minutes next to this one; its
invariants are proved for any number of operations (section 5). Deadlock is not
checked for `PoolHandoff`: the clock's bound and the bound on operations end
behaviours that in the system go on.

In `BaseAuthority` two gateways are an owner and a standby, enough for one to be
ahead of the other. The revisions are the request and one more: the drain's, or
a retry's. Three authorities per gateway are arm, maintain and release, so the
first run reaches the end of a drain. A trouble is a crash, a failed or torn
write, an expiry or a stale receipt: one of them, at any moment, in the first
run, one change of the base in the second. The combinations of two, and two
pools, are beyond a run of five minutes; the theorems cover them.
`BaseAuthorityRelease` starts from the state in which every member has
acknowledged the arm and the maintain authority, which the first run reaches
some thirty steps deep: its counterexample needs twenty more. Deadlock is not
checked: the bounds on revisions and authorities end behaviours, and an
acknowledged pool with nothing to do rests.

In `LeaderElection` two faults are a leader's loss and one more in its
successor's way; the replica with two connections can meet its own parked lock.
In `HubFailover` the thresholds are the smallest with the code's order (3 and 5
there), so that a run of ticks can be interrupted half way; two gateways are a
hub and its standby. A trouble there is a restart, a lost leadership, a failed
transaction or an edit; the run has every pair of them. A third gateway makes a
difference to one property (section 5), and the theorems are about any number.
In `AgentLane` one slot
for two normal producers is the saturated queue (8 slots there).

Fairness of the lease lifecycle (`OwnershipLease`). The service manager restarts
the agent (weak fairness of `Start`); the watchdog ticks every second on the
urgent queue and a method that holds the mutex goes on. Crashes and failures may
recur for ever, so start-up, the watchdog, the withdrawal and the removal of the
file are strongly fair: tried again and again, they are not refused every time.
Nothing is assumed of installs or of the control plane.

Fairness of the others. `LeaderElection`: the campaign loop goes on without a
fault, a callback returns ("callers must keep it bounded"), a process that ended
is started again, the server notices a closed connection and the pool ends an
idle one's lifetime (`MaxConnLifetime` of pgxpool). `HubFailover`: the leader's
ticker fires every 30 s and a tick ends, and some replica leads in the end,
which is `LeadershipReturns`. Nothing is assumed of the verdicts. `AgentLane`:
the lane's goroutine runs and its commands end, a producer whose wait is over
goes on, a fetch returns, the watchdog's ticker fires. Nothing is assumed of
commits, notifications, polls or other tickers.

`OnlyOwnerServes` carries a condition, `ExpiriesCovered`: where an operation
used the expiry of the old lease in place of a withdrawal, the lease it waited
for must be the last one issued. `BreakBeforeMake` is the same claim without the
condition and fails; the two runs together say exactly what is missing.

## 4. Disagreements with the code's own statements

1. `PoolHandoffUnacked`. The claim looks for the old owner's lease among
   acknowledged deliveries only. A renewal that is issued, and applied without
   its acknowledgement arriving, expires a bucket later. The operation waits for
   the earlier expiry, and the CAS moves ownership while the old gateway serves,
   against decision D4. The retired-owner exemption in the same package counts
   unacknowledged leases.
2. `OwnershipLeaseTorn`. `FileStateStore.Save` shadows `err`, so a failed write
   is reported as done and a torn file replaces the checkpoint.
   `FileFenceStore.SaveFences` has the same shadowing.
3. `LeaderStranded`. `WithLeaderSession` drops the flag on any error of its
   query. A caller whose context ran out while it waited for the mutex gets such
   an error from a session that is well. The campaign goes on pinging and keeps
   the lock, so the flag stays down and no other replica can lead, until the
   process ends.
4. `HubFailoverMoved`. Nothing resets a replica's counters when it loses
   leadership. Leading again, it counts on from its old stale run, and demotes a
   member after fewer consecutive stale ticks than `failoverDemoteTicks`. The
   passing run has one replica for this reason. The comment in
   `cmd/server/main.go` that the loss of the lock cancels the walk does not hold
   either: `electorCtx` ends at shutdown only.

5. `BaseAuthorityRelease`. `SaveFences` can fail after its rename, when the
   directory cannot be synced. A release is then on the disk while memory keeps
   the armed fence. If the pool moves to another revision before the release is
   tried again, the next classification yields the very fences in memory, so
   `UpdateBase` saves nothing, and the gateway acknowledges it. After a restart
   the fence is released, against "Once armed, the exact fields adopted by v3
   stay suppressed after withdrawal and restart" (`fence.go:25-27`).
   `AcceptedIsDurable`, `AcceptedIsHidden` and `FencedEverywhere` carry the
   condition `ReleasesSettled`: no release is without its receipt.

More are visible in the models and have no run of their own:

* `Issue` after `MembershipChanges`: an operation failed between its decision
  and its issue still has its artifact inserted, against the trigger's comment
  (`0083_k8s_connector_pool_health_history.up.sql:137-139`).
* `InstallServingLease` with a withdrawal owed and no lease in memory does not
  consult the wall time in the file and may lower it; `ClockFloorKept` says so
  by its condition.
* `ArmIssue` and `DrainIssue` name one pool, against "one scope-complete
  classification for every armed pool" (`docs/S20.3b-decisions.md:157`); if the
  base changed under another pool's fence, the gateway must refuse it.
* `ArmIssue` does not compare the plan's fields with the bases read after it, so
  a service that appears between them is unclassified (decision D5,
  `docs/S20.3b-decisions.md:181`).
* `Renewal` numbers from the acknowledged revision. If an acknowledgement is
  lost, the next bucket's row has the same revision; it is the one offered, the
  attestor refuses it as stale, and the earlier row stays hidden behind it
  (`handoff_bootstrap_plan_source.go:362`).
* `DrainUnfence` takes the pool's revision plus one without reserving it. An
  opt-out during the drain, or a retry after a stale maintain receipt, puts the
  pool on that revision, where the maintain authority conflicts with the release
  for ever (`handoff_ha_transition.go:509`).
* `DrainFinish` does not wait for a lease that was issued and not acknowledged.
  Applied after the owner's release, it arms the fence again (`Serve`), and
  legacy is recorded over it (`handoff_ha_transition.go:451`).
* A late `ReconcileWrite` of a one-member set is out of the tick's reach, since
  `ListFailoverOrgs` skips it, against "a racing stale write self-heals the next
  tick" (`failover.go:195`); `StaleSetHeals` excepts it. A set that shrinks to
  one member drops its demotion and audits it as "recovered";
  `RestoreWitnessed` excepts that.
* A demoted member that leaves the set and comes back between the read and the
  transaction of a tick loses its persisted demotion until the next tick, though
  the set never got smaller than two: the tick writes the demotion of the set it
  elected and not the configured field, which it found unchanged
  (`failover.go:296-306`). It needs three gateways; `RestoreWitnessed` is about
  the set the tick elected.
* `ApplyDesiredState` records the version before it applies, so after a failed
  apply the next poll parks: the retry waits for the poll's hold or the
  reconcile interval.

## 5. Proofs

Every safety property that a passing run checks is proved for every value of the
constants: any number of gateways, pools, services, replicas, connections,
producers, operations and renewals, and any bound on time and on failures. TLC
checked each inductive invariant before it was proved.

| Module | Theorems | Assumptions on the constants |
|---|---|---|
| `OwnershipLeaseProofs` | `TypeCorrect`, `ResidueTheorem`, `CheckpointTheorem`, `ClearTheorem`, `ClockFloorTheorem` | expiries and the bound are natural numbers; `None` and `Torn` are no leases |
| `PoolHandoffProofs` | `TypeCorrect`, `OneOwnerTheorem`, `RetryTheorem`, `ReleaseTheorem`, `RetiredTheorem`, `OwnerTheorem` | TTL, margin and age limit are positive; no clock lags more than the margin |
| `BaseAuthorityProofs` | `TypeCorrect`, `DurableTheorem`, `HiddenTheorem`, `BoundTheorem`, `FencedTheorem`, `BarrierTheorem` | at least two gateways, finitely many; `None` and `Torn` are no values of the model |
| `LeaderElectionProofs` | `TypeCorrect`, `FlagTheorem`, `ParkedTheorem`, `ElectionRefines` | a connection belongs to one replica; `Nobody` is none |
| `HubFailoverProofs` | `TypeCorrect`, `DemotionTheorem`, `RestoreTheorem` | gateways are finitely many natural numbers; a restoration takes more ticks than a demotion |
| `AgentLaneProofs` | `TypeCorrect`, `WakeTheorem`, `SlotTheorem`, `ParkedTheorem`, `DeadlineTheorem` | a queue has a slot |

Each module has an inductive invariant `IInv`, a proof that `Init` satisfies it,
a proof that every step preserves it with one case per action, and the theorems
from there. The properties themselves are not inductive, because they speak of
moments at which nothing is half done. What `IInv` adds:

### OwnershipLease

* `ProcInv`: a process that is not serving methods has an empty memory, and
  which steps belong to which method;
* `StepInv`: a method on its withdrawal path has raised the flag; one that is
  about to remove the file has read back an empty data plane; one that saves or
  confirms has exactly its candidate installed;
* `RestInv`: between methods, with no withdrawal owed, only the held lease is
  installed and its wall time is before its expiry;
* `DiskInv`: how the file relates to memory while no withdrawal is owed.

### PoolHandoff

* `DeferInv`: what the leader decided in one transaction still fits the pool in
  the next two, and the third finds the second's row;
* `RowInv`, `OpInv`: a row of an operation carries its generation, and an
  operation past its CAS rests on an expiry with margin or on an acknowledged
  withdrawal;
* `PassedInv`: a serving lease of an earlier generation is that of the old owner
  of an operation past its CAS;
* `GatewayInv`: the row a gateway recorded and the lease it serves, in
  generation and revision. The lease may be ahead of the record, since the
  record is written last;
* `OnceInv`, `AwaitInv`: an artifact has one row, and a phase that waits for a
  row has it.

`OwnerTheorem` combines them: a lease of an older generation is one the old
owner held at the CAS; the CAS rests on a withdrawal, which `GatewayInv` says is
still recorded, or on an expiry, which `ExpiriesCovered` says was the last.

### BaseAuthority

* `KeepInv`, `FileInv`: a gateway keeps what it acknowledged in memory and on
  disk, and what is armed in memory is on the disk unless a release is without
  receipt. The second is what an unsaved classification relies on;
* `LaneInv`, `PassInv`, `BoundInv`: a gateway works on an authority it recorded
  and has not acknowledged, on a base that passed `UpdateBase`'s tests, and an
  armed fence is bound to the base on show;
* `DrainInv`, `ArmInv`, `FencedInv`: a drain under way is of a pool that is not
  fenced, no release follows an arm authority of the current revision while the
  pool is being armed, and every member of a fenced pool acknowledged so after
  its last release. With `ReleaseAfterBarrier` they say which authorities can
  meet in one sequence when a tick that began under one mode ends under another;
* `GotInv`: a drain releases on a base that it has read.

### LeaderElection

* `CampaignInv`, `SessionInv`: the fields of an `Elector` follow the step of its
  campaign, and a scheduler inside its callback keeps the connection published;
* `LockInv`, `HolderInv`: a lock has a live session, and a campaign past its try
  has the lock while its session lives;
* `ParkedInv`: a lock on a connection that went back to the pool, was acquired
  again or stacked on is one whose unlock call failed.

`ElectionRefines` is the refinement: every step of the election is a step of
`SingleWriter` or leaves the holder and the writes alone.

### HubFailover

* `ControllerInv`: a controller demotes nobody who was not convicted, and has
  counted no more than all ticks saw;
* `SeedInv`: a member that the row demotes and the controller does not any more
  is cleared, and the controller has missed no stale verdict of it. That is the
  state a failed transaction leaves;
* `WriteInv`: the row under way demotes whom its controller demotes.

`DemotionTheorem` and `RestoreTheorem` are about one replica (`OneReplica`): the
run `HubFailoverMoved` shows that two break the first. Type correctness is about
any number, and rests on `OrderedIs`: a finite set with a strict total order has
exactly one place for each element, the number of elements before it.

### AgentLane

* `SlotInv`, `CommandInv`: a token is a queued command or one about to be
  queued, and a producer has one command, in one place;
* `WakeInv`: from the moment the lane found its queues empty, a command without
  a wake-up is one whose producer is about to signal;
* `GuardInv`: a normal command begun past the deadline has its context done, or
  a check comes next;
* `WatchInv`, `FreshInv`: a parked poll asks for the hub's version, and a
  version that is the hub's own goes with the last commit unless a `Notify` is
  to come.

### What the attempts showed

* `AcceptedIsDurable` is not inductive without `FileInv`, and `FileInv` is false
  after a release that was saved and reported as failed. TLC then found the
  behaviour of `BaseAuthorityRelease`, and three properties got the condition
  `ReleasesSettled`.
* `NoSpuriousDemotion` was false of its own history with four troubles: a
  process restarted before it wrote a restoration, so the next one took the old
  demotion over from the row. `convicted` now counts that, as the comment of
  `seedDemoted` means it.
* `RestoreWitnessed` was false with three gateways (section 4, last list), where
  the run has two.

### Only model-checked

Liveness under fairness is out of the prover's reach: `ExpiredLeaseWithdrawn`,
`LeadershipReturns`, `DeadHubIsPassed`, `StaleSetHeals` and `LaneNeverStuck`.
The order in which `Active` puts the members is used by one of them only.

## 6. Plan

1. Composition of `PoolHandoff` with the transition: drains with handoffs,
   changes of membership, and operations stuck behind aged receipts (liveness).
2. Proofs of the conditions under which the disagreements of section 4 cannot
   happen: `BreakBeforeMake` where every renewal is acknowledged before a claim,
   `NoSpuriousDemotion` for replicas that each lead once,
   `AcknowledgedStaysArmed` where no save fails after its rename.

## 7. Not modelled

* The choice of a candidate by connector health (`k8s/failover.go`): a pure
  decision with table tests of its own; `PoolHandoff` lets it choose freely.
* The convergence of a gateway's data plane to its desired state (peers, routes,
  policy, OpenVPN), the IPsec controller, relay and ICE: sequential applies and
  packet I/O behind the command lane.
* The policy compiler and address allocation: large data transformations without
  concurrency of their own, too large for TLC at a useful size.
* The HTTP API, tenancy, RBAC, sessions, device login, the AI gateway, sandboxes
  and application access: a breadth of separate request handlers over single
  database transactions.
* The web console, the CLI, the operator and the application proxy, and
  generated code (`api.gen.go`, `db/sqlc`), which is most of the repository's
  lines: where a generated query matters, its source in `db/queries` or
  `db/migrations` is what the map names.
