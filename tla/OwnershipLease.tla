--------------------------- MODULE OwnershipLease ---------------------------
(***************************************************************************)
(* The node agent's pool-VIP ownership lease lifecycle                     *)
(* (apps/node/internal/ownershiplease/lifecycle.go) on one gateway, with   *)
(* the checkpoint file it keeps (file_store.go), the projector overlay and *)
(* the data plane it drives (coordinator.go), and the process around it    *)
(* (apps/node/cmd/agent/main.go).                                          *)
(*                                                                         *)
(* Lifecycle's mutex makes its methods mutually exclusive, but one method  *)
(* takes several steps: it reads the wall clock, applies to the data       *)
(* plane, reads the clock again, writes the checkpoint file, and reads the *)
(* clock a third time.  Between those steps the clock moves, in either     *)
(* direction, and the process may die.  Every step is an action here.      *)
(*                                                                         *)
(* A grant is one serving lease: the effective ownership and its expiry.   *)
(* What the data plane holds is abstracted to the set of grants of which   *)
(* some part (a route, a peer's allowed IPs, a VIP mapping, a DNS zone) is *)
(* installed: an apply that fails half way leaves any subset.              *)
(***************************************************************************)
EXTENDS Integers

CONSTANTS Grants,     \* the serving leases the control plane may deliver
          Expiry,     \* Expiry[g]: Grant.LeaseExpiresAt
          MaxTime,    \* bound on the wall clock
          None,       \* "no lease", "no checkpoint": a nil pointer, a missing file
          Torn        \* a checkpoint file that does not read back

ASSUME TimeAssumption == MaxTime \in Nat /\ Expiry \in [Grants -> Nat]

Time == 0 .. MaxTime

\* lifecycle.State: the checkpoint, in memory and on disk.
Checkpoint == [grant : Grants, last : Time]

ASSUME NoneAssumption ==
  None \notin Grants \cup Checkpoint /\ Torn \notin Checkpoint \cup {None}

VARIABLES
  clock,     \* the node's wall clock
  proc,      \* "down", "starting" (up to the end of StartupReconcile), "running"
  pc,        \* where the lifecycle method that holds the mutex stands
  op,        \* which method it is
  cand,      \* the State it is installing
  obs,       \* its last clock reading
  failed,    \* it is going to return an error
  current,   \* Lifecycle.current
  pending,   \* Lifecycle.withdrawPending
  disk,      \* the checkpoint file
  active,    \* Projector.active: the overlay the next reconcile applies
  dataplane  \* the grants of which anything is installed

procVars == <<proc, pc, op, cand, obs, failed>>
memVars  == <<current, pending>>
vars     == <<clock, procVars, memVars, disk, active, dataplane>>

TypeOK ==
  /\ clock \in Time
  /\ proc \in {"down", "starting", "running"}
  /\ pc \in {"idle", "apply", "save", "confirm", "withdraw", "clear"}
  /\ op \in {"startup", "install", "withdraw", "check"}
  /\ cand \in Checkpoint \cup {None}
  /\ obs \in Time
  /\ failed \in BOOLEAN
  /\ current \in Checkpoint \cup {None}
  /\ pending \in BOOLEAN
  /\ disk \in Checkpoint \cup {None, Torn}
  /\ active \in Grants \cup {None}
  /\ dataplane \subseteq Grants

Init ==
  /\ clock \in Time
  /\ proc = "down" /\ pc = "idle" /\ op = "startup"
  /\ cand = None /\ obs = 0 /\ failed = FALSE
  /\ current = None /\ pending = FALSE
  /\ disk = None /\ active = None /\ dataplane = {}

\* The checkpoint file is there and passes Load's checks.
Readable == disk \notin {None, Torn}

\* Projector.active, as the reconciler lays it over the base.
Overlay == IF active = None THEN {} ELSE {active}

-----------------------------------------------------------------------------
(* Steps shared by the methods.                                            *)

\* Faulty variant: withdrawPending is not raised before the attempt.
BeginWithdrawUnflagged(err) ==
  pc' = "withdraw" /\ failed' = err /\ pending' = FALSE /\ cand' = None

\* withdrawLocked is entered: the flag is raised before anything is tried.
BeginWithdraw(err) ==
  /\ pc' = "withdraw"
  /\ failed' = err
  /\ pending' = TRUE
  /\ cand' = None

\* The method returns.  main.go ends the process when StartupReconcile fails;
\* the watchdog and the delivery loop carry on after an error.
Return(err) ==
  /\ pc' = "idle"
  /\ failed' = FALSE
  /\ cand' = None
  /\ proc' = IF proc = "starting" THEN (IF err THEN "down" ELSE "running") ELSE proc

\* A process that ends loses its memory; the overlay lives in it too.
Forget == current' = None /\ pending' = FALSE /\ active' = None
Keep   == UNCHANGED <<current, pending, active>>

\* Faulty variant: a renewal forgets the wall time of the lease it renews.
LastWallTimeForgotten == 0

\* Lifecycle.current.LastWallTime, which bounds nothing when there is no lease.
LastWallTime == IF current = None THEN 0 ELSE current.last

\* The wall time below which an installation gives up: the one recorded for
\* the lease it continues or replaces.
Floor == IF op = "startup" THEN cand.last ELSE LastWallTime

-----------------------------------------------------------------------------
(* The process: start, die.                                                *)

\* The agent starts and applies the ordinary base.  The live data plane still
\* holds whatever the previous process left, or less.
Start ==
  /\ proc = "down"
  /\ proc' = "starting" /\ op' = "startup"
  /\ dataplane' \in SUBSET dataplane
  /\ UNCHANGED <<clock, pc, cand, obs, failed, memVars, disk, active>>

\* The process dies, or the host does.  The step in flight may have happened,
\* in whole or in part: an apply any part, a file rename or remove all or none.
Crash ==
  /\ proc # "down"
  /\ proc' = "down" /\ pc' = "idle" /\ op' = "startup"
  /\ cand' = None /\ obs' = 0 /\ failed' = FALSE
  /\ Forget
  /\ dataplane' \in SUBSET (dataplane \cup IF pc = "apply" THEN {cand.grant} ELSE {})
  /\ disk' \in {disk} \cup (IF pc = "save"  THEN {cand, Torn} ELSE {})
                      \cup (IF pc = "clear" THEN {None} ELSE {})
  /\ UNCHANGED clock

\* The wall clock steps: forward as time passes, backward when it is set.
ClockMoves ==
  /\ clock' \in Time \ {clock}
  /\ UNCHANGED <<procVars, memVars, disk, active, dataplane>>

-----------------------------------------------------------------------------
(* The methods.                                                            *)

\* StartupReconcile up to its apply.  Load may fail (unreadable, bad checksum,
\* not canonical); it never trusts what the data plane holds.
StartupLoad ==
  /\ proc = "starting" /\ pc = "idle"
  /\ obs' = clock
  /\ UNCHANGED <<clock, proc, op, disk, active, dataplane>>
  /\ \/ /\ disk # None                       \* Load returns an error
        /\ BeginWithdraw(TRUE) /\ UNCHANGED current
     \/ /\ disk = None                       \* no checkpoint
        /\ BeginWithdraw(FALSE) /\ UNCHANGED current
     \/ /\ Readable                          \* ErrClockMovedBackward
        /\ clock < disk.last
        /\ current' = disk /\ BeginWithdraw(TRUE)
     \/ /\ Readable                          \* expired: an orderly withdrawal
        /\ clock >= disk.last /\ clock >= Expiry[disk.grant]
        /\ current' = disk /\ BeginWithdraw(FALSE)
     \/ /\ Readable
        /\ clock >= disk.last /\ clock < Expiry[disk.grant]
        /\ pc' = "apply" /\ cand' = disk
        /\ UNCHANGED <<failed, memVars>>

\* InstallServingLease up to its apply, for a delivery in the serving role.
InstallServingLease(g) ==
  /\ proc = "running" /\ pc = "idle"
  /\ op' = "install" /\ obs' = clock
  /\ UNCHANGED <<clock, proc, current, disk, active, dataplane>>
  /\ \/ /\ clock >= Expiry[g] \/ clock < LastWallTime
        /\ BeginWithdraw(TRUE)
     \/ /\ clock < Expiry[g] /\ clock >= LastWallTime
        /\ pc' = "apply" /\ cand' = [grant |-> g, last |-> clock]
        /\ UNCHANGED <<failed, pending>>

\* Withdraw: a prepared or a withdrawal delivery.  A serving delivery whose
\* grant is not canonical takes the same path inside InstallServingLease.
Withdraw ==
  /\ proc = "running" /\ pc = "idle"
  /\ op' = "withdraw"
  /\ BeginWithdraw(FALSE)
  /\ UNCHANGED <<clock, proc, obs, current, disk, active, dataplane>>

\* Faulty variant: the watchdog only looks at leases, not at owed withdrawals.
CheckLeaseOnly ==
  /\ proc = "running" /\ pc = "idle" /\ current # None /\ ~pending
  /\ op' = "check" /\ obs' = clock
  /\ UNCHANGED <<clock, proc, disk, active, dataplane>>
  /\ \/ /\ clock < current.last \/ clock >= Expiry[current.grant]
        /\ BeginWithdraw(FALSE) /\ UNCHANGED current
     \/ /\ clock >= current.last /\ clock < Expiry[current.grant]
        /\ current' = [current EXCEPT !.last = clock]
        /\ pc' = "save" /\ cand' = [current EXCEPT !.last = clock]
        /\ UNCHANGED <<failed, pending>>

\* Check: one watchdog tick (it returns at once when there is no lease).
Check ==
  /\ proc = "running" /\ pc = "idle"
  /\ pending \/ current # None
  /\ op' = "check" /\ obs' = clock
  /\ UNCHANGED <<clock, proc, disk, active, dataplane>>
  /\ \/ /\ pending
        /\ BeginWithdraw(FALSE) /\ UNCHANGED current
     \/ /\ ~pending /\ clock < current.last
        /\ BeginWithdraw(TRUE) /\ UNCHANGED current
     \/ /\ ~pending /\ clock >= current.last /\ clock >= Expiry[current.grant]
        /\ BeginWithdraw(FALSE) /\ UNCHANGED current
     \/ /\ ~pending
        /\ clock >= current.last /\ clock < Expiry[current.grant]
        /\ current' = [current EXCEPT !.last = clock]
        /\ pc' = "save" /\ cand' = [current EXCEPT !.last = clock]
        /\ UNCHANGED <<failed, pending>>

-----------------------------------------------------------------------------
(* The steps a method goes through.                                        *)

\* What the failure of an installation leaves in Lifecycle.current: startup
\* records the checkpoint it was replaying, an install keeps the old lease.
OnFailure(state) ==
  current' = IF op = "startup" THEN state ELSE current

\* applyExactBefore succeeds: the overlay is installed and was read back
\* exactly.  The second clock reading follows.
ApplySucceeds ==
  /\ pc = "apply"
  /\ dataplane' = {cand.grant} /\ active' = cand.grant
  /\ obs' = clock
  /\ UNCHANGED <<clock, proc, op, disk>>
  /\ \/ /\ \/ clock < obs \/ clock < Floor
           \/ clock >= Expiry[cand.grant]
        /\ OnFailure(cand) /\ BeginWithdraw(TRUE)
     \/ /\ clock >= obs /\ clock >= Floor
        /\ clock < Expiry[cand.grant]
        /\ pc' = "save" /\ cand' = [cand EXCEPT !.last = clock]
        /\ UNCHANGED <<failed, memVars>>

\* It fails: any part may be installed, the projector keeps its overlay when
\* the candidate was refused and is cleared when the coordinator compensated,
\* or still carries the candidate.  A missing base is forgiven at startup.
ApplyFails ==
  /\ pc = "apply"
  /\ dataplane' \in SUBSET (dataplane \cup {cand.grant})
  /\ active' \in {active, None, cand.grant}
  /\ OnFailure(cand)
  /\ \E err \in BOOLEAN : (op = "startup" \/ err) /\ BeginWithdraw(err)
  /\ UNCHANGED <<clock, proc, op, obs, disk>>

\* Store.Save: temporary file, fsync, rename, directory fsync.  The error of
\* the write itself is assigned to a variable of its own scope and lost: Save
\* returns nil and a torn file has replaced the checkpoint.
SaveSucceeds ==
  /\ pc = "save"
  /\ disk' \in {cand, Torn}
  /\ \/ op = "check" /\ Return(FALSE) /\ UNCHANGED <<op, obs>>
     \/ op # "check" /\ pc' = "confirm" /\ UNCHANGED <<proc, op, cand, obs, failed>>
  /\ UNCHANGED <<clock, memVars, active, dataplane>>

\* Faulty variant: an install goes on although its checkpoint was not written.
SaveFailsIgnored ==
  /\ pc = "save" /\ op # "check"
  /\ disk' \in {disk, cand, Torn}
  /\ pc' = "confirm"
  /\ UNCHANGED <<clock, proc, op, cand, obs, failed, memVars, active, dataplane>>

\* Faulty variant: a failed write removes the checkpoint before the withdrawal.
SaveFailsRemoves ==
  /\ pc = "save"
  /\ disk' = None
  /\ OnFailure(cand) /\ BeginWithdraw(TRUE)
  /\ UNCHANGED <<clock, proc, op, obs, active, dataplane>>

\* It fails before or after the rename.
SaveFails ==
  /\ pc = "save"
  /\ disk' \in {disk, cand, Torn}
  /\ OnFailure(cand) /\ BeginWithdraw(TRUE)
  /\ UNCHANGED <<clock, proc, op, obs, active, dataplane>>

\* The last clock reading of an installation, and its success.
Confirm ==
  /\ pc = "confirm"
  /\ UNCHANGED <<clock, op, obs, disk, active, dataplane>>
  /\ \/ /\ clock < obs \/ clock >= Expiry[cand.grant]
        /\ OnFailure(cand) /\ BeginWithdraw(TRUE) /\ UNCHANGED proc
     \/ /\ clock >= obs /\ clock < Expiry[cand.grant]
        /\ current' = [cand EXCEPT !.last = clock]
        /\ pending' = FALSE
        /\ Return(FALSE)

\* withdrawLocked: the zero overlay is applied and read back exactly.
WithdrawSucceeds ==
  /\ pc = "withdraw"
  /\ dataplane' = {} /\ active' = None
  /\ pc' = "clear"
  /\ UNCHANGED <<clock, proc, op, cand, obs, failed, memVars, disk>>

\* It fails and withdrawLocked returns with the flag still up.
WithdrawFails ==
  /\ pc = "withdraw"
  /\ dataplane' \in SUBSET dataplane
  /\ Return(TRUE)
  /\ IF proc = "starting" THEN Forget
     ELSE active' \in {active, None} /\ UNCHANGED memVars
  /\ UNCHANGED <<clock, op, obs, disk>>

\* Store.Clear: remove the file, fsync the directory.
ClearSucceeds ==
  /\ pc = "clear"
  /\ disk' = None
  /\ current' = None /\ pending' = FALSE
  /\ Return(failed)
  /\ UNCHANGED <<clock, op, obs, active, dataplane>>

ClearFails ==
  /\ pc = "clear"
  /\ disk' \in {disk, None}
  /\ Return(TRUE)
  /\ IF proc = "starting" THEN Forget ELSE Keep
  /\ UNCHANGED <<clock, op, obs, dataplane>>

\* Faulty variant: the overlay is applied without the check for nil.
ReconcileCurrentUnchecked ==
  /\ proc = "running" /\ pc = "idle"
  /\ dataplane' \in SUBSET (dataplane \cup {active})
  /\ active' \in {active, None}
  /\ UNCHANGED <<clock, procVars, memVars, disk>>

\* An ordinary desired-state command between lifecycle methods: the reconciler
\* applies base and overlay; a failure is compensated by clearing the overlay,
\* and either way only parts of what was there, or of the overlay, remain.
ReconcileCurrent ==
  /\ proc = "running" /\ pc = "idle"
  /\ dataplane' \in SUBSET (dataplane \cup Overlay)
  /\ active' \in {active, None}
  /\ UNCHANGED <<clock, procVars, memVars, disk>>

-----------------------------------------------------------------------------
Next ==
  \/ Start \/ Crash \/ ClockMoves
  \/ StartupLoad \/ Withdraw \/ Check
  \/ \E g \in Grants : InstallServingLease(g)
  \/ ApplySucceeds \/ ApplyFails
  \/ SaveSucceeds \/ SaveFails \/ Confirm
  \/ WithdrawSucceeds \/ WithdrawFails
  \/ ClearSucceeds \/ ClearFails
  \/ ReconcileCurrent

Spec == Init /\ [][Next]_vars

(* Fairness.  The service manager restarts the agent; the watchdog ticks     *)
(* every second on the urgent lane, so Check runs again and again; a method  *)
(* that holds the mutex goes on.  Crashes and failures may recur for ever,   *)
(* hence strong fairness: a withdrawal that is tried again and again is not  *)
(* refused by the kernel every time.                                         *)
Fairness ==
  /\ WF_vars(Start)
  /\ SF_vars(StartupLoad)
  /\ SF_vars(Check)
  /\ WF_vars(ApplySucceeds \/ ApplyFails)
  /\ WF_vars(SaveSucceeds \/ SaveFails)
  /\ WF_vars(Confirm)
  /\ SF_vars(WithdrawSucceeds)
  /\ SF_vars(ClearSucceeds)

FairSpec == Spec /\ Fairness

-----------------------------------------------------------------------------
(* Properties.                                                             *)

Idle == proc = "running" /\ pc = "idle"
Held == Idle /\ current # None /\ ~pending

\* Nothing of a lease stays installed, nor in the overlay a later reconcile
\* would install again, unless the lifecycle knows the lease or still owes its
\* withdrawal: whatever step an install failed at, whatever the crash left.
ResidueAccounted ==
  Idle /\ ~pending =>
     dataplane \cup Overlay \subseteq IF current = None THEN {} ELSE {current.grant}

\* The file of a lease the lifecycle holds is never another lease's: it is
\* torn, or the same grant with a wall time no later than the one in memory,
\* and no wall time at or past the expiry was ever recorded.  A restart
\* resumes the lease or none.
CheckpointCovers ==
  Held => /\ disk # None
          /\ Readable => disk.grant = current.grant /\ disk.last <= current.last
          /\ current.last < Expiry[current.grant]

\* InstallServingLease: "durable checkpoint failure triggers immediate overlay
\* withdrawal before returning".  A lease is never held over a torn file.
CheckpointReadable == Held => disk # Torn

\* StateStore: "Clear is called only after the pool-scoped overlay withdrawal
\* has been read back exactly": a checkpoint disappears from disk only in a
\* state whose data plane holds nothing.
ClearOnlyWithdrawn ==
  [][disk # None /\ disk' = None => dataplane = {} /\ active = None]_vars

\* State: "LastWallTime is security state".  The wall time of the checkpoint
\* on disk never goes back while no withdrawal is owed.
ClockFloorKept ==
  [][Readable /\ Readable' /\ ~pending => disk'.last >= disk.last]_vars

\* Once the clock stays past every expiry, nothing stays installed: whatever
\* failed or died on the way, the watchdog or the next start withdraws it.
ExpiredLeaseWithdrawn ==
  (<>[](\A g \in Grants : clock >= Expiry[g])) => <>[](dataplane = {})
=============================================================================
