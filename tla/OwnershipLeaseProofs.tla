------------------------ MODULE OwnershipLeaseProofs ------------------------
(***************************************************************************)
(* Proofs about OwnershipLease for every set of grants, every expiry and   *)
(* every bound on the clock.  The clock moves freely, the process may die  *)
(* at every step, so nothing below depends on timing.                      *)
(***************************************************************************)
EXTENDS OwnershipLease, TLAPS

HeldGrant == IF current = None THEN {} ELSE {current.grant}

\* A process that is not serving methods keeps no lease in memory.
ProcInv ==
  /\ proc # "running" /\ pc = "idle" =>
        current = None /\ ~pending /\ active = None
  /\ proc = "down" => pc = "idle"
  /\ proc = "starting" => op = "startup"
  /\ proc = "running" /\ pc # "idle" => op # "startup"
  /\ op = "check" /\ pc # "idle" => pc \in {"save", "withdraw", "clear"}

\* What each step of a method has established.
StepInv ==
  /\ pc \in {"withdraw", "clear"} => pending
  /\ pc = "clear" => dataplane = {} /\ active = None
  /\ pc \in {"apply", "save", "confirm"} => cand # None
  /\ pc \in {"save", "confirm"} => cand.last < Expiry[cand.grant]
  /\ pc \in {"save", "confirm"} /\ op # "check" =>
        dataplane = {cand.grant} /\ active = cand.grant /\ cand.last = obs
  /\ pc = "confirm" => disk \in {cand, Torn}
  /\ pc = "save" /\ op = "check" =>
        current = cand /\ ~pending /\ dataplane \cup Overlay \subseteq {cand.grant}

\* Between methods of a running process: what is installed is accounted for.
AtRest == proc = "running" /\ pc = "idle" /\ ~pending

RestInv ==
  /\ AtRest => dataplane \cup Overlay \subseteq HeldGrant
  /\ AtRest /\ current # None => current.last < Expiry[current.grant]

\* The checkpoint while no withdrawal is owed: none without a lease; with one
\* a torn file, or the same lease and no later wall time.
DiskInv ==
  /\ proc = "running" /\ ~pending /\ pc \in {"idle", "apply", "save"} =>
        IF current = None THEN disk = None
        ELSE disk # None /\ (Readable => disk.last <= current.last)
  /\ proc = "running" /\ ~pending /\ (pc = "idle" \/ op = "check") /\ current # None =>
        disk # None /\ (Readable => disk.grant = current.grant)
  /\ pc = "save" /\ ~pending /\ Readable => disk.last <= cand.last
  /\ pc = "apply" /\ op = "startup" => disk = cand
  /\ op = "startup" /\ pc \in {"apply", "save"} => ~pending /\ Readable /\ disk.last <= cand.last

IInv == TypeOK /\ ProcInv /\ StepInv /\ RestInv /\ DiskInv

-----------------------------------------------------------------------------
\* The initial state satisfies the inductive invariant.
LEMMA InitIInv == Init => IInv
<1> SUFFICES ASSUME Init PROVE IInv
  OBVIOUS
<1> USE TimeAssumption, NoneAssumption DEF Init
<1>1. TypeOK
  <2>1. 0 \in Time
    BY DEF Time
  <2> QED
    BY <2>1, Zenon DEF TypeOK
<1>2. ProcInv
  BY DEF ProcInv
<1>3. StepInv
  BY DEF StepInv
<1>4. RestInv
  BY DEF RestInv, AtRest
<1>5. DiskInv
  BY DEF DiskInv, Readable
<1> QED
  BY <1>1, <1>2, <1>3, <1>4, <1>5 DEF IInv

\* Every step preserves it: one case per action.
LEMMA StepIInv == IInv /\ [Next]_vars => IInv'
<1> SUFFICES ASSUME IInv, [Next]_vars PROVE IInv'
  OBVIOUS
<1> USE TimeAssumption, NoneAssumption
<1>1. CASE Start
  <2>1. TypeOK'
    BY <1>1 DEF IInv, TypeOK, Time, Checkpoint, Start, memVars
  <2>2. ProcInv'
    BY <1>1 DEF IInv, TypeOK, ProcInv, Start, memVars
  <2>3. StepInv'
    BY <1>1 DEF IInv, TypeOK, ProcInv, StepInv, RestInv, DiskInv, Readable, AtRest, Overlay, HeldGrant, Time, Checkpoint, Start, memVars
  <2>4. RestInv'
    BY <1>1 DEF IInv, TypeOK, ProcInv, StepInv, RestInv, DiskInv, Readable, AtRest, Overlay, HeldGrant, Time, Checkpoint, Start, memVars
  <2>5. DiskInv'
    BY <1>1 DEF IInv, TypeOK, ProcInv, StepInv, RestInv, DiskInv, Readable, AtRest, Time, Checkpoint, Start, memVars
  <2> QED
    BY <2>1, <2>2, <2>3, <2>4, <2>5 DEF IInv
<1>2. CASE Crash
  <2>1. TypeOK'
    <3>1. disk' \in Checkpoint \cup {None, Torn} /\ dataplane' \subseteq Grants
      BY <1>2 DEF IInv, TypeOK, StepInv, Checkpoint, Crash
    <3>2. 0 \in Time
      BY DEF Time
    <3> QED
      BY <1>2, <3>1, <3>2 DEF IInv, TypeOK, Crash, Forget
  <2>2. ProcInv'
    BY <1>2 DEF IInv, TypeOK, ProcInv, Crash, Forget
  <2>3. StepInv'
    BY <1>2 DEF IInv, TypeOK, ProcInv, StepInv, RestInv, DiskInv, Readable, AtRest, Overlay, HeldGrant, Time, Checkpoint, Crash, Forget
  <2>4. RestInv'
    BY <1>2 DEF IInv, TypeOK, ProcInv, StepInv, RestInv, DiskInv, Readable, AtRest, Overlay, HeldGrant, Time, Checkpoint, Crash, Forget
  <2>5. DiskInv'
    BY <1>2 DEF IInv, TypeOK, ProcInv, StepInv, RestInv, DiskInv, Readable, AtRest, Time, Checkpoint, Crash, Forget
  <2> QED
    BY <2>1, <2>2, <2>3, <2>4, <2>5 DEF IInv
<1>3. CASE ClockMoves
  BY <1>3 DEF IInv, TypeOK, ProcInv, StepInv, RestInv, DiskInv, Readable, AtRest, Overlay, HeldGrant, Time, Checkpoint, ClockMoves, procVars, memVars
<1>4. CASE StartupLoad
  <2>1. TypeOK'
    BY <1>4 DEF IInv, TypeOK, Time, Checkpoint, Readable, StartupLoad, BeginWithdraw, memVars
  <2>2. ProcInv'
    BY <1>4 DEF IInv, TypeOK, ProcInv, Readable, StartupLoad, BeginWithdraw, memVars
  <2>3. StepInv'
    BY <1>4 DEF IInv, TypeOK, ProcInv, StepInv, RestInv, DiskInv, Readable, AtRest, Overlay, HeldGrant, Time, Checkpoint, StartupLoad, BeginWithdraw, memVars
  <2>4. RestInv'
    BY <1>4 DEF IInv, TypeOK, ProcInv, StepInv, RestInv, DiskInv, Readable, AtRest, Overlay, HeldGrant, Time, Checkpoint, StartupLoad, BeginWithdraw, memVars
  <2>5. DiskInv'
    BY <1>4 DEF IInv, TypeOK, ProcInv, StepInv, RestInv, DiskInv, Readable, AtRest, Time, Checkpoint, StartupLoad, BeginWithdraw, memVars
  <2> QED
    BY <2>1, <2>2, <2>3, <2>4, <2>5 DEF IInv
<1>5. ASSUME NEW g \in Grants, InstallServingLease(g) PROVE IInv'
  <2>1. TypeOK'
    <3>1. cand' \in Checkpoint \cup {None}
      BY <1>5 DEF IInv, TypeOK, Checkpoint, InstallServingLease, BeginWithdraw
    <3> QED
      BY <1>5, <3>1 DEF IInv, TypeOK, InstallServingLease, BeginWithdraw
  <2>2. ProcInv'
    BY <1>5 DEF IInv, TypeOK, ProcInv, InstallServingLease, BeginWithdraw, LastWallTime
  <2>3. StepInv'
    BY <1>5 DEF IInv, TypeOK, ProcInv, StepInv, RestInv, DiskInv, Readable, AtRest, Overlay, HeldGrant, Time, Checkpoint, InstallServingLease, BeginWithdraw, LastWallTime
  <2>4. RestInv'
    BY <1>5 DEF IInv, TypeOK, ProcInv, StepInv, RestInv, DiskInv, Readable, AtRest, Overlay, HeldGrant, Time, Checkpoint, InstallServingLease, BeginWithdraw, LastWallTime
  <2>5. DiskInv'
    BY <1>5 DEF IInv, TypeOK, ProcInv, StepInv, RestInv, DiskInv, Readable, AtRest, Time, Checkpoint, InstallServingLease, BeginWithdraw, LastWallTime
  <2> QED
    BY <2>1, <2>2, <2>3, <2>4, <2>5 DEF IInv
<1>6. CASE Withdraw
  BY <1>6 DEF IInv, TypeOK, ProcInv, StepInv, RestInv, DiskInv, Readable, AtRest, Overlay, HeldGrant, Time, Checkpoint, Withdraw, BeginWithdraw
<1>7. CASE Check
  <2>1. TypeOK'
    BY <1>7 DEF IInv, TypeOK, Time, Checkpoint, Check, BeginWithdraw
  <2>2. ProcInv'
    BY <1>7 DEF IInv, TypeOK, ProcInv, Check, BeginWithdraw
  <2>3. StepInv'
    BY <1>7 DEF IInv, TypeOK, ProcInv, StepInv, RestInv, DiskInv, Readable, AtRest, Overlay, HeldGrant, Time, Checkpoint, Check, BeginWithdraw
  <2>4. RestInv'
    BY <1>7 DEF IInv, TypeOK, ProcInv, StepInv, RestInv, DiskInv, Readable, AtRest, Overlay, HeldGrant, Time, Checkpoint, Check, BeginWithdraw
  <2>5. DiskInv'
    BY <1>7 DEF IInv, TypeOK, ProcInv, StepInv, RestInv, DiskInv, Readable, AtRest, Time, Checkpoint, Check, BeginWithdraw
  <2> QED
    BY <2>1, <2>2, <2>3, <2>4, <2>5 DEF IInv
<1>8. CASE ApplySucceeds
  <2>1. TypeOK'
    BY <1>8 DEF IInv, TypeOK, StepInv, Time, Checkpoint, ApplySucceeds, BeginWithdraw, OnFailure, Floor, LastWallTime, memVars
  <2>2. ProcInv'
    BY <1>8 DEF IInv, TypeOK, ProcInv, ApplySucceeds, BeginWithdraw, OnFailure, Floor, LastWallTime, memVars
  <2>3. StepInv'
    BY <1>8 DEF IInv, TypeOK, ProcInv, StepInv, RestInv, DiskInv, Readable, AtRest, Overlay, HeldGrant, Time, Checkpoint, ApplySucceeds, BeginWithdraw, OnFailure, Floor, LastWallTime, memVars
  <2>4. RestInv'
    BY <1>8 DEF IInv, TypeOK, ProcInv, StepInv, RestInv, DiskInv, Readable, AtRest, Overlay, HeldGrant, Time, Checkpoint, ApplySucceeds, BeginWithdraw, OnFailure, Floor, LastWallTime, memVars
  <2>5. DiskInv'
    BY <1>8 DEF IInv, TypeOK, ProcInv, StepInv, RestInv, DiskInv, Readable, AtRest, Time, Checkpoint, ApplySucceeds, BeginWithdraw, OnFailure, Floor, LastWallTime, memVars
  <2> QED
    BY <2>1, <2>2, <2>3, <2>4, <2>5 DEF IInv
<1>9. CASE ApplyFails
  BY <1>9 DEF IInv, TypeOK, ProcInv, StepInv, RestInv, DiskInv, Readable, AtRest, Overlay, HeldGrant, Time, Checkpoint, ApplyFails, BeginWithdraw, OnFailure
<1>10. CASE SaveSucceeds
  <2>1. TypeOK'
    BY <1>10 DEF IInv, TypeOK, Time, Checkpoint, SaveSucceeds, Return, memVars
  <2>2. ProcInv'
    BY <1>10 DEF IInv, TypeOK, ProcInv, SaveSucceeds, Return, memVars
  <2>3. StepInv'
    BY <1>10 DEF IInv, TypeOK, ProcInv, StepInv, RestInv, DiskInv, Readable, AtRest, Overlay, HeldGrant, Time, Checkpoint, SaveSucceeds, Return, memVars
  <2>4. RestInv'
    BY <1>10 DEF IInv, TypeOK, ProcInv, StepInv, RestInv, DiskInv, Readable, AtRest, Overlay, HeldGrant, Time, Checkpoint, SaveSucceeds, Return, memVars
  <2>5. DiskInv'
    BY <1>10 DEF IInv, TypeOK, ProcInv, StepInv, RestInv, DiskInv, Readable, AtRest, Time, Checkpoint, SaveSucceeds, Return, memVars
  <2> QED
    BY <2>1, <2>2, <2>3, <2>4, <2>5 DEF IInv
<1>11. CASE SaveFails
  BY <1>11 DEF IInv, TypeOK, ProcInv, StepInv, RestInv, DiskInv, Readable, AtRest, Overlay, HeldGrant, Time, Checkpoint, SaveFails, BeginWithdraw, OnFailure
<1>12. CASE Confirm
  <2>1. TypeOK'
    BY <1>12 DEF IInv, TypeOK, StepInv, Time, Checkpoint, Confirm, BeginWithdraw, OnFailure, Return
  <2>2. ProcInv'
    BY <1>12 DEF IInv, TypeOK, ProcInv, Confirm, BeginWithdraw, OnFailure, Return
  <2>3. StepInv'
    BY <1>12 DEF IInv, TypeOK, ProcInv, StepInv, RestInv, DiskInv, Readable, AtRest, Overlay, HeldGrant, Time, Checkpoint, Confirm, BeginWithdraw, OnFailure, Return
  <2>4. RestInv'
    BY <1>12 DEF IInv, TypeOK, ProcInv, StepInv, RestInv, DiskInv, Readable, AtRest, Overlay, HeldGrant, Time, Checkpoint, Confirm, BeginWithdraw, OnFailure, Return
  <2>5. DiskInv'
    <3>1. CASE UNCHANGED proc /\ pc' = "withdraw" /\ pending'
      BY <1>12, <3>1 DEF IInv, ProcInv, DiskInv, Confirm
    <3>2. CASE pc' = "idle" /\ current' = [cand EXCEPT !.last = clock] /\ clock >= obs
      <4>1. cand \in Checkpoint /\ disk' = disk /\ disk \in {cand, Torn} /\ op' = op /\ op # "check"
        BY <1>12 DEF IInv, TypeOK, ProcInv, StepInv, Confirm
      <4>2. current'.grant = cand.grant /\ current'.last = clock /\ current' \in Checkpoint
        BY <3>2, <4>1 DEF IInv, TypeOK, Checkpoint
      <4>3. Readable' => disk'.last <= current'.last /\ disk'.grant = current'.grant
        BY <1>12, <3>2, <4>1, <4>2 DEF IInv, TypeOK, StepInv, Readable, Confirm, Time, Checkpoint
      <4> QED
        BY <3>2, <4>1, <4>2, <4>3 DEF DiskInv
    <3> QED
      BY <1>12, <3>1, <3>2 DEF Confirm, BeginWithdraw, OnFailure, Return
  <2> QED
    BY <2>1, <2>2, <2>3, <2>4, <2>5 DEF IInv
<1>13. CASE WithdrawSucceeds
  BY <1>13 DEF IInv, TypeOK, ProcInv, StepInv, RestInv, DiskInv, Readable, AtRest, Overlay, HeldGrant, Time, Checkpoint, WithdrawSucceeds, memVars
<1>14. CASE WithdrawFails
  BY <1>14 DEF IInv, TypeOK, ProcInv, StepInv, RestInv, DiskInv, Readable, AtRest, Overlay, HeldGrant, Time, Checkpoint, WithdrawFails, Return, Forget, memVars
<1>15. CASE ClearSucceeds
  BY <1>15 DEF IInv, TypeOK, ProcInv, StepInv, RestInv, DiskInv, Readable, AtRest, Overlay, HeldGrant, Time, Checkpoint, ClearSucceeds, Return
<1>16. CASE ClearFails
  BY <1>16 DEF IInv, TypeOK, ProcInv, StepInv, RestInv, DiskInv, Readable, AtRest, Overlay, HeldGrant, Time, Checkpoint, ClearFails, Return, Forget, Keep
<1>17. CASE ReconcileCurrent
  BY <1>17 DEF IInv, TypeOK, ProcInv, StepInv, RestInv, DiskInv, Readable, AtRest, Overlay, HeldGrant, Time, Checkpoint, ReconcileCurrent, procVars, memVars
<1>18. CASE UNCHANGED vars
  BY <1>18 DEF IInv, TypeOK, ProcInv, StepInv, RestInv, DiskInv, Readable, AtRest, Overlay, HeldGrant, vars, procVars, memVars
<1> QED
  BY <1>1, <1>2, <1>3, <1>4, <1>5, <1>6, <1>7, <1>8, <1>9, <1>10, <1>11, <1>12, <1>13, <1>14, <1>15, <1>16, <1>17, <1>18 DEF Next

LEMMA Inductive == Spec => []IInv
  BY InitIInv, StepIInv, PTL DEF Spec

-----------------------------------------------------------------------------
\* Type correctness of the lease lifecycle, for any clock and any failures.
THEOREM TypeCorrect == Spec => []TypeOK
<1>1. IInv => TypeOK
  BY DEF IInv
<1> QED
  BY <1>1, Inductive, PTL

\* Whatever an apply, a save or a crash left half done, a running agent that
\* owes no withdrawal has nothing installed beyond the lease it holds
\* (lifecycle.go: withdrawPending is raised before every withdrawal).
THEOREM ResidueTheorem == Spec => []ResidueAccounted
<1>1. IInv => ResidueAccounted
  BY DEF IInv, RestInv, AtRest, HeldGrant, ResidueAccounted, Idle
<1> QED
  BY <1>1, Inductive, PTL

\* The file of a held lease is torn or that lease's own, with no later wall
\* time there and an unexpired one here (lifecycle.go: Save precedes
\* l.current = &state; file_store.go: Save renames a complete or a torn file).
THEOREM CheckpointTheorem == Spec => []CheckpointCovers
<1>1. IInv => CheckpointCovers
  BY DEF IInv, RestInv, DiskInv, Readable, AtRest, CheckpointCovers, Held, Idle
<1> QED
  BY <1>1, Inductive, PTL

\* The checkpoint file disappears only after the empty overlay was read back
\* (lifecycle.go: withdrawLocked applies before it clears).
THEOREM ClearTheorem == Spec => ClearOnlyWithdrawn
<1>1. ASSUME IInv, [Next]_vars
      PROVE  [disk # None /\ disk' = None => dataplane = {} /\ active = None]_vars
  <2> SUFFICES ASSUME Next, disk # None, disk' = None
               PROVE  dataplane = {} /\ active = None
    BY <1>1
  <2>1. pc = "clear"
    BY <1>1, NoneAssumption DEF Next, Start, Crash, ClockMoves, StartupLoad, Withdraw,
       Check, InstallServingLease, ApplySucceeds, ApplyFails, SaveSucceeds,
       SaveFails, Confirm, WithdrawSucceeds, WithdrawFails, ClearSucceeds,
       ClearFails, ReconcileCurrent, IInv, StepInv
  <2> QED
    BY <1>1, <2>1 DEF IInv, StepInv
<1> QED
  BY <1>1, Inductive, PTL DEF Spec, ClearOnlyWithdrawn

\* While no withdrawal is owed, the wall time on disk never goes back
\* (lifecycle.go: every clock reading is compared with current.LastWallTime).
THEOREM ClockFloorTheorem == Spec => ClockFloorKept
<1>1. ASSUME IInv, [Next]_vars
      PROVE  [Readable /\ Readable' /\ ~pending => disk'.last >= disk.last]_vars
  <2> SUFFICES ASSUME Next, Readable, Readable', ~pending
               PROVE  disk'.last >= disk.last
    BY <1>1
  <2>1. disk' = disk \/ (pc = "save" /\ disk' = cand)
    BY <1>1 DEF Next, Readable, Start, Crash, ClockMoves, StartupLoad, Withdraw,
       Check, InstallServingLease, ApplySucceeds, ApplyFails, SaveSucceeds,
       SaveFails, Confirm, WithdrawSucceeds, WithdrawFails, ClearSucceeds,
       ClearFails, ReconcileCurrent
  <2>2. disk.last \in Int
    BY <1>1, TimeAssumption DEF Readable, IInv, TypeOK, Checkpoint, Time
  <2>3. CASE disk' = disk
    BY <2>2, <2>3
  <2>4. CASE pc = "save" /\ disk' = cand
    BY <1>1, <2>4, TimeAssumption DEF IInv, TypeOK, StepInv, DiskInv, Readable, Checkpoint, Time
  <2> QED
    BY <2>1, <2>3, <2>4
<1> QED
  BY <1>1, Inductive, PTL DEF Spec, ClockFloorKept
=============================================================================
