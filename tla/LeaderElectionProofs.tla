------------------------ MODULE LeaderElectionProofs ------------------------
(***************************************************************************)
(* Proofs about LeaderElection for every set of replicas, schedulers and   *)
(* connections and every bound on faults: the two invariants of the        *)
(* election, and that it implements SingleWriter.                          *)
(***************************************************************************)
EXTENDS LeaderElection, TLAPS

\* The steps of a campaign by what it has: no connection, a connection, the
\* lock on it, the pid of its session, the connection published.
Away      == {"acquire", "sleep", "down"}
Locked    == {"probe", "pid", "publish", "lead", "hold", "drop", "clear", "unlock"}
Known     == {"publish", "lead", "hold", "drop", "clear"}
Published == {"lead", "hold", "drop", "clear", "unlock"}

\* The fields of a replica follow the step of its campaign, and its connection
\* is one of its own pool that the pool does not offer to anybody else.
CampaignInv ==
  \A r \in Replicas :
    /\ pc[r] \in Away <=> conn[r] = Nobody
    /\ conn[r] # Nobody =>
         Home[conn[r]] = r /\ cli[conn[r]] \in {"held", "shut"}
    /\ leaderPID[r] = IF pc[r] \in Known THEN conn[r] ELSE Nobody
    /\ leaderConn[r] = IF pc[r] \in Published THEN conn[r] ELSE Nobody
    /\ leading[r] => pc[r] \in {"hold", "drop"}

\* A scheduler inside WithLeaderSession keeps the published connection there.
SessionInv == \A r \in Replicas : ~MutexFree(r) => pc[r] \in Published

\* The database: a lock has a live session, and is taken as often as it is
\* stacked.
LockInv ==
  /\ lockBy = Nobody <=> depth = 0
  /\ lockBy # Nobody => lockBy \in alive

\* A campaign past its try has the lock while its session lives.
HolderInv ==
  \A r \in Replicas :
    pc[r] \in Locked /\ conn[r] \in alive => lockBy = conn[r]

\* A lock that a failed unlock left behind is remembered, whether its
\* connection is back in the pool, acquired again or stacked on.
ParkedInv ==
  /\ lockBy # Nobody /\ cli[lockBy] = "idle" => lockBy \in kept
  /\ \A r \in Replicas : pc[r] = "try" /\ lockBy = conn[r] => lockBy \in kept
  /\ depth > 1 => lockBy \in kept

IInv == TypeOK /\ CampaignInv /\ SessionInv /\ LockInv /\ HolderInv /\ ParkedInv

-----------------------------------------------------------------------------
\* The initial state satisfies the inductive invariant.
LEMMA InitIInv == Init => IInv
  BY Bounds DEF Init, IInv, TypeOK, CampaignInv, SessionInv, LockInv, HolderInv,
     ParkedInv, MutexFree, ClientEnds, CampaignSteps, WorkerSteps, Away, Locked,
     Known, Published

\* A campaign with a connection has one of its own replica's pool, in its hand.
LEMMA Holding ==
  ASSUME IInv, NEW r \in Replicas, pc[r] \notin Away
  PROVE  conn[r] \in Conns /\ Home[conn[r]] = r /\ cli[conn[r]] \in {"held", "shut"}
BY DEF IInv, TypeOK, CampaignInv

\* The campaign of a scheduler inside WithLeaderSession has published its
\* connection and holds it.
LEMMA Inside ==
  ASSUME IInv, NEW r \in Replicas, NEW w \in Workers, wpc[r][w] \in {"query", "fn"}
  PROVE  /\ pc[r] \in Published
         /\ leaderConn[r] = conn[r] /\ conn[r] \in Conns
         /\ cli[conn[r]] \in {"held", "shut"}
<1>1. pc[r] \in Published
  BY DEF IInv, SessionInv, MutexFree
<1>2. pc[r] \notin Away
  BY <1>1 DEF Published, Away
<1> QED
  BY <1>1, <1>2, Holding DEF IInv, CampaignInv

\* The types of the functions the steps update in one place.
LEMMA CliTyped ==
  ASSUME TypeOK, NEW c, NEW end \in ClientEnds
  PROVE  [cli EXCEPT ![c] = end] \in [Conns -> ClientEnds]
BY DEF TypeOK

LEMMA WpcTyped ==
  ASSUME TypeOK, NEW r \in Replicas, NEW w \in Workers, NEW step \in WorkerSteps
  PROVE  [wpc EXCEPT ![r][w] = step] \in [Replicas -> [Workers -> WorkerSteps]]
BY DEF TypeOK

LEMMA WantTyped ==
  ASSUME TypeOK, NEW r \in Replicas, NEW w \in Workers
  PROVE  [want EXCEPT ![r][w] = Nobody] \in [Replicas -> [Workers -> Conns \cup {Nobody}]]
BY DEF TypeOK

\* Every step preserves it: one case per action, one step per conjunct.
LEMMA StepIInv == IInv /\ [Next]_vars => IInv'
<1> SUFFICES ASSUME IInv, [Next]_vars PROVE IInv'
  OBVIOUS
<1> USE Bounds DEF elector, workers

<1>1. ASSUME NEW c \in Conns, SessionEnd(c) PROVE IInv'
  <2>1. TypeOK'
    BY <1>1 DEF IInv, TypeOK, ClientEnds, CampaignSteps, WorkerSteps,
       CampaignInv, SessionInv, LockInv, MutexFree, Away, Published, Locked,
       SessionEnd, Fault
  <2>2. CampaignInv'
    BY <1>1 DEF IInv, TypeOK, CampaignInv, SessionInv, MutexFree, Away, Known,
       Published, SessionEnd, Fault
  <2>3. SessionInv'
    BY <1>1 DEF IInv, TypeOK, CampaignInv, SessionInv, MutexFree, Away,
       Published, SessionEnd, Fault
  <2>4. LockInv'
    BY <1>1 DEF IInv, TypeOK, CampaignInv, LockInv, HolderInv, Away, Locked,
       SessionEnd, Fault
  <2>5. HolderInv'
    BY <1>1 DEF IInv, TypeOK, CampaignInv, LockInv, HolderInv, Away, Locked,
       SessionEnd, Fault
  <2>6. ParkedInv'
    <3>1. CASE lockBy = c
      <4>1. lockBy' = Nobody /\ depth' = 0 /\ UNCHANGED <<pc, conn>>
        BY <1>1, <3>1 DEF SessionEnd
      <4>2. \A r \in Replicas : pc[r] = "try" => conn[r] # Nobody
        BY DEF IInv, CampaignInv, Away
      <4> QED
        BY <4>1, <4>2 DEF ParkedInv
    <3>2. CASE lockBy # c
      BY <1>1, <3>2 DEF IInv, TypeOK, LockInv, ParkedInv, SessionEnd
    <3> QED
      BY <3>1, <3>2
  <2> QED
    BY <2>1, <2>2, <2>3, <2>4, <2>5, <2>6 DEF IInv
<1>2. ASSUME NEW c \in Conns, Recycle(c) PROVE IInv'
  BY <1>2 DEF IInv, TypeOK, ClientEnds, CampaignSteps, WorkerSteps,
     CampaignInv, SessionInv, LockInv, HolderInv, ParkedInv, MutexFree, Away,
     Known, Locked, Published, Recycle
<1>3. ASSUME NEW r \in Replicas, Acquire(r) PROVE IInv'
  <2>1. TypeOK'
    BY <1>3 DEF IInv, TypeOK, ClientEnds, CampaignSteps, WorkerSteps,
       CampaignInv, SessionInv, LockInv, MutexFree, Away, Published, Locked,
       Acquire, Goto, Available, Unused
  <2>2. CampaignInv'
    BY <1>3 DEF IInv, TypeOK, CampaignInv, SessionInv, MutexFree, Away, Known,
       Published, Acquire, Goto, Available, Unused
  <2>3. SessionInv'
    BY <1>3 DEF IInv, TypeOK, CampaignInv, SessionInv, MutexFree, Away,
       Published, Acquire, Goto, Available, Unused
  <2>4. LockInv'
    BY <1>3 DEF IInv, TypeOK, CampaignInv, LockInv, HolderInv, Away, Locked,
       Acquire, Goto, Available, Unused
  <2>5. HolderInv'
    BY <1>3 DEF IInv, TypeOK, CampaignInv, LockInv, HolderInv, Away, Locked,
       Acquire, Goto, Available, Unused
  <2>6. ParkedInv'
    BY <1>3 DEF IInv, TypeOK, CampaignInv, SessionInv, MutexFree, LockInv,
       HolderInv, ParkedInv, Away, Locked, Published, Acquire, Goto, Available,
       Unused
  <2> QED
    BY <2>1, <2>2, <2>3, <2>4, <2>5, <2>6 DEF IInv
<1>4. ASSUME NEW r \in Replicas, AcquireTimeout(r) PROVE IInv'
  BY <1>4 DEF IInv, TypeOK, ClientEnds, CampaignSteps, WorkerSteps,
     CampaignInv, SessionInv, LockInv, HolderInv, ParkedInv, MutexFree, Away,
     Known, Locked, Published, AcquireTimeout, Goto, Fault
<1>5. ASSUME NEW r \in Replicas, TryLock(r) PROVE IInv'
  <2>1. TypeOK'
    <3>1. conn[r] \in Conns
      BY <1>5, Holding DEF Away, TryLock
    <3>2. lockBy' \in Conns \cup {Nobody} /\ depth' \in Nat /\ faults' \in Nat
      BY <1>5, <3>1 DEF IInv, TypeOK, TryLock, KeepLock, Fault
    <3>3. cli' \in [Conns -> ClientEnds]
      BY <1>5, <3>1 DEF IInv, TypeOK, ClientEnds, TryLock, GiveUp
    <3>4. /\ conn' \in [Replicas -> Conns \cup {Nobody}]
          /\ pc' \in [Replicas -> CampaignSteps]
      BY <1>5 DEF IInv, TypeOK, CampaignSteps, TryLock, GiveUp, Goto
    <3> QED
      BY <1>5, <3>2, <3>3, <3>4 DEF IInv, TypeOK, TryLock
  <2>2. CampaignInv'
    BY <1>5 DEF IInv, TypeOK, CampaignInv, SessionInv, MutexFree, Away, Known,
       Published, TryLock, Goto, GiveUp, KeepLock, Usable, Fault
  <2>3. SessionInv'
    BY <1>5 DEF IInv, TypeOK, CampaignInv, SessionInv, MutexFree, Away,
       Published, TryLock, Goto, GiveUp, KeepLock, Usable, Fault
  <2>4. LockInv'
    BY <1>5 DEF IInv, TypeOK, CampaignInv, LockInv, HolderInv, Away, Locked,
       TryLock, Goto, GiveUp, KeepLock, Usable, Fault
  <2>5. HolderInv'
    BY <1>5 DEF IInv, TypeOK, CampaignInv, LockInv, HolderInv, Away, Locked,
       TryLock, Goto, GiveUp, KeepLock, Usable, Fault
  <2>6. ParkedInv'
    <3> DEFINE c == conn[r]
    <3>1. c \in Conns /\ Home[c] = r /\ pc[r] = "try"
      BY <1>5, Holding DEF Away, TryLock
    <3>2. \A q \in Replicas \ {r} : conn'[q] = conn[q] /\ pc'[q] = pc[q] /\ conn[q] # c
      BY <1>5, <3>1 DEF IInv, TypeOK, CampaignInv, TryLock, GiveUp, Goto
    <3>3. pc'[r] # "try"
      BY <1>5 DEF IInv, TypeOK, TryLock, GiveUp, Goto
    <3>4. CASE UNCHANGED <<lockBy, depth>>
      BY <1>5, <3>1, <3>2, <3>3, <3>4 DEF IInv, TypeOK, ParkedInv, LockInv,
         TryLock, GiveUp
    <3>5. CASE lockBy' = c /\ depth' = depth + 1 /\ lockBy \in {Nobody, c} /\ cli'[c] # "idle"
      <4>1. depth' > 1 => lockBy' \in kept'
        BY <1>5, <3>1, <3>5 DEF IInv, TypeOK, ParkedInv, LockInv, TryLock
      <4> QED
        BY <4>1, <3>1, <3>2, <3>3, <3>5 DEF ParkedInv
    <3> QED
      BY <1>5, <3>1, <3>4, <3>5 DEF IInv, TypeOK, TryLock, GiveUp, KeepLock,
         Usable
  <2> QED
    BY <2>1, <2>2, <2>3, <2>4, <2>5, <2>6 DEF IInv
<1>6. ASSUME NEW r \in Replicas, Probe(r) PROVE IInv'
  <2>1. TypeOK'
    <3>1. conn[r] \in Conns
      BY <1>6, Holding DEF Away, Probe
    <3>2. lockBy' \in Conns \cup {Nobody} /\ depth' \in Nat /\ faults' \in Nat
      BY <1>6, <3>1 DEF IInv, TypeOK, LockInv, Probe, KeepLock, Fault, UnlockOK,
         UnlockFails, FreeOneLevel
    <3>3. cli' \in [Conns -> ClientEnds] /\ kept' \in SUBSET Conns
      BY <1>6, <3>1, CliTyped DEF IInv, TypeOK, ClientEnds, Probe, UnlockOK,
         UnlockFails
    <3>4. /\ conn' \in [Replicas -> Conns \cup {Nobody}]
          /\ pc' \in [Replicas -> CampaignSteps]
          /\ leaderPID' \in [Replicas -> Conns \cup {Nobody}]
      BY <1>6 DEF IInv, TypeOK, CampaignSteps, Probe, Goto
    <3> QED
      BY <1>6, <3>2, <3>3, <3>4 DEF IInv, TypeOK, Probe
  <2>2. CampaignInv'
    BY <1>6 DEF IInv, TypeOK, CampaignInv, SessionInv, MutexFree, Away, Known,
       Published, Probe, Goto, UnlockOK, UnlockFails, FreeOneLevel, KeepLock,
       Usable, Fault
  <2>3. SessionInv'
    <3>1. \A q \in Replicas : pc'[q] = pc[q] \/ (q = r /\ pc[r] \notin Published)
      BY <1>6 DEF IInv, TypeOK, Published, Probe, Goto
    <3>2. \A q \in Replicas : MutexFree(q)' = MutexFree(q)
      BY <1>6 DEF MutexFree, Probe
    <3> QED
      BY <3>1, <3>2 DEF IInv, SessionInv
  <2>4. LockInv'
    BY <1>6 DEF IInv, TypeOK, CampaignInv, LockInv, HolderInv, Away, Locked,
       Probe, Goto, UnlockOK, UnlockFails, FreeOneLevel, KeepLock, Usable,
       Fault
  <2>5. HolderInv'
    BY <1>6 DEF IInv, TypeOK, CampaignInv, LockInv, HolderInv, Away, Locked,
       Probe, Goto, UnlockOK, UnlockFails, FreeOneLevel, KeepLock, Usable,
       Fault
  <2>6. ParkedInv'
    <3> DEFINE c == conn[r]
    <3>1. c \in Conns /\ Home[c] = r /\ pc[r] \in {"probe", "pid"} /\ cli[c] # "idle"
      BY <1>6, Holding DEF Away, Probe
    <3>2. /\ \A q \in Replicas : pc'[q] = "try" => q # r
          /\ \A q \in Replicas \ {r} : conn'[q] = conn[q] /\ pc'[q] = pc[q] /\ conn[q] # c
      BY <1>6, <3>1 DEF IInv, TypeOK, CampaignInv, Probe, Goto
    <3>3. CASE UNCHANGED <<lockBy, depth, cli, kept>>
      BY <3>1, <3>2, <3>3 DEF IInv, ParkedInv
    <3>4. CASE UnlockOK(c)
      <4>1. CASE lockBy' = Nobody
        <5>1. depth' = 0 /\ \A q \in Replicas : pc'[q] = "try" => conn'[q] # Nobody
          BY <2>2, <2>4, <4>1 DEF CampaignInv, Away, LockInv
        <5> QED
          BY <4>1, <5>1 DEF ParkedInv
      <4>2. CASE lockBy' = lockBy /\ lockBy # Nobody /\ (lockBy = c => depth > 1) /\ depth' <= depth
        <5>1. lockBy # c => cli'[lockBy] = cli[lockBy]
          BY <3>1, <3>4, <4>2 DEF IInv, TypeOK, UnlockOK
        <5>2. depth \in Nat /\ depth' \in Nat /\ kept' = kept
          BY <2>1, <3>4 DEF IInv, TypeOK, UnlockOK
        <5> QED
          BY <3>1, <3>2, <4>2, <5>1, <5>2 DEF IInv, ParkedInv
      <4> QED
        BY <3>4, <4>1, <4>2 DEF IInv, TypeOK, LockInv, UnlockOK, FreeOneLevel
    <3>5. CASE UnlockFails(c)
      <4>1. c \in alive => lockBy = c
        BY <3>1 DEF IInv, HolderInv, Locked
      <4> QED
        BY <3>1, <3>2, <3>5, <4>1 DEF IInv, TypeOK, ParkedInv, LockInv,
           UnlockFails, KeepLock, Usable
    <3> QED
      BY <1>6, <3>3, <3>4, <3>5 DEF Probe, KeepLock
  <2> QED
    BY <2>1, <2>2, <2>3, <2>4, <2>5, <2>6 DEF IInv
<1>7. ASSUME NEW r \in Replicas, Publish(r) PROVE IInv'
  BY <1>7 DEF IInv, TypeOK, ClientEnds, CampaignSteps, WorkerSteps,
     CampaignInv, SessionInv, LockInv, HolderInv, ParkedInv, MutexFree, Away,
     Known, Locked, Published, Publish, Goto
<1>8. ASSUME NEW r \in Replicas, Lead(r) PROVE IInv'
  BY <1>8 DEF IInv, TypeOK, ClientEnds, CampaignSteps, WorkerSteps,
     CampaignInv, SessionInv, LockInv, HolderInv, ParkedInv, MutexFree, Away,
     Known, Locked, Published, Lead, Goto
<1>9. ASSUME NEW r \in Replicas, PingFails(r) PROVE IInv'
  <2>1. TypeOK'
    <3>1. cli' \in [Conns -> ClientEnds] /\ faults' \in Nat
      BY <1>9, CliTyped DEF IInv, TypeOK, ClientEnds, PingFails, Fault
    <3> QED
      BY <1>9, <3>1 DEF IInv, TypeOK, CampaignSteps, PingFails, Goto
  <2>2. CampaignInv'
    BY <1>9 DEF IInv, TypeOK, CampaignInv, SessionInv, MutexFree, Away, Known,
       Published, PingFails, Goto, Usable, Fault
  <2>3. SessionInv'
    BY <1>9 DEF IInv, TypeOK, CampaignInv, SessionInv, MutexFree, Away,
       Published, PingFails, Goto, Usable, Fault
  <2>4. LockInv'
    BY <1>9 DEF IInv, TypeOK, CampaignInv, LockInv, HolderInv, Away, Locked,
       PingFails, Goto, Usable, Fault
  <2>5. HolderInv'
    BY <1>9 DEF IInv, TypeOK, CampaignInv, LockInv, HolderInv, Away, Locked,
       PingFails, Goto, Usable, Fault
  <2>6. ParkedInv'
    BY <1>9 DEF IInv, TypeOK, CampaignInv, SessionInv, MutexFree, LockInv,
       HolderInv, ParkedInv, Away, Locked, Published, PingFails, Goto, Usable,
       Fault
  <2> QED
    BY <2>1, <2>2, <2>3, <2>4, <2>5, <2>6 DEF IInv
<1>10. ASSUME NEW r \in Replicas, Shutdown(r) PROVE IInv'
  BY <1>10 DEF IInv, TypeOK, ClientEnds, CampaignSteps, WorkerSteps,
     CampaignInv, SessionInv, LockInv, HolderInv, ParkedInv, MutexFree, Away,
     Known, Locked, Published, Shutdown, Goto, Fault
<1>11. ASSUME NEW r \in Replicas, Drop(r) PROVE IInv'
  BY <1>11 DEF IInv, TypeOK, ClientEnds, CampaignSteps, WorkerSteps,
     CampaignInv, SessionInv, LockInv, HolderInv, ParkedInv, MutexFree, Away,
     Known, Locked, Published, Drop, Goto
<1>12. ASSUME NEW r \in Replicas, ClearPID(r) PROVE IInv'
  BY <1>12 DEF IInv, TypeOK, ClientEnds, CampaignSteps, WorkerSteps,
     CampaignInv, SessionInv, LockInv, HolderInv, ParkedInv, MutexFree, Away,
     Known, Locked, Published, ClearPID, Goto
<1>13. ASSUME NEW r \in Replicas, Unlock(r) PROVE IInv'
  <2>1. TypeOK'
    <3>1. conn[r] \in Conns
      BY <1>13, Holding DEF Away, Unlock
    <3>2. lockBy' \in Conns \cup {Nobody} /\ depth' \in Nat /\ faults' \in Nat
      BY <1>13, <3>1 DEF IInv, TypeOK, LockInv, Unlock, KeepLock, Fault,
         UnlockOK,
         UnlockFails, FreeOneLevel
    <3>3. cli' \in [Conns -> ClientEnds] /\ kept' \in SUBSET Conns
      BY <1>13, <3>1, CliTyped DEF IInv, TypeOK, ClientEnds, Unlock, UnlockOK,
         UnlockFails
    <3>4. /\ conn' \in [Replicas -> Conns \cup {Nobody}]
          /\ pc' \in [Replicas -> CampaignSteps]
          /\ leaderConn' \in [Replicas -> Conns \cup {Nobody}]
      BY <1>13 DEF IInv, TypeOK, CampaignSteps, Unlock, Goto
    <3> QED
      BY <1>13, <3>2, <3>3, <3>4 DEF IInv, TypeOK, Unlock
  <2>2. CampaignInv'
    BY <1>13 DEF IInv, TypeOK, CampaignInv, SessionInv, MutexFree, Away, Known,
       Published, Unlock, Goto, UnlockOK, UnlockFails, FreeOneLevel, KeepLock,
       Usable, Fault
  <2>3. SessionInv'
    BY <1>13 DEF IInv, TypeOK, CampaignInv, SessionInv, MutexFree, Away,
       Published, Unlock, Goto, UnlockOK, UnlockFails, FreeOneLevel, KeepLock,
       Usable, Fault
  <2>4. LockInv'
    BY <1>13 DEF IInv, TypeOK, CampaignInv, LockInv, HolderInv, Away, Locked,
       Unlock, Goto, UnlockOK, UnlockFails, FreeOneLevel, KeepLock, Usable,
       Fault
  <2>5. HolderInv'
    BY <1>13 DEF IInv, TypeOK, CampaignInv, LockInv, HolderInv, Away, Locked,
       Unlock, Goto, UnlockOK, UnlockFails, FreeOneLevel, KeepLock, Usable,
       Fault
  <2>6. ParkedInv'
    BY <1>13 DEF IInv, TypeOK, CampaignInv, SessionInv, MutexFree, LockInv,
       HolderInv, ParkedInv, Away, Locked, Published, Unlock, Goto, UnlockOK,
       UnlockFails, FreeOneLevel, KeepLock, Usable, Fault
  <2> QED
    BY <2>1, <2>2, <2>3, <2>4, <2>5, <2>6 DEF IInv
<1>14. ASSUME NEW r \in Replicas, Wake(r) PROVE IInv'
  BY <1>14 DEF IInv, TypeOK, ClientEnds, CampaignSteps, WorkerSteps,
     CampaignInv, SessionInv, LockInv, HolderInv, ParkedInv, MutexFree, Away,
     Known, Locked, Published, Wake, Goto
<1>15. ASSUME NEW r \in Replicas, Crash(r) PROVE IInv'
  <2>1. TypeOK'
    BY <1>15 DEF IInv, TypeOK, ClientEnds, CampaignSteps, WorkerSteps,
       CampaignInv, SessionInv, LockInv, MutexFree, Away, Published, Locked,
       Crash, Goto, ClosedBy, Fault
  <2>2. CampaignInv'
    BY <1>15 DEF IInv, TypeOK, CampaignInv, SessionInv, MutexFree, Away, Known,
       Published, Crash, Goto, ClosedBy, Fault
  <2>3. SessionInv'
    BY <1>15 DEF IInv, TypeOK, CampaignInv, SessionInv, MutexFree, Away,
       Published, Crash, Goto, ClosedBy, Fault
  <2>4. LockInv'
    BY <1>15 DEF IInv, TypeOK, CampaignInv, LockInv, HolderInv, Away, Locked,
       Crash, Goto, ClosedBy, Fault
  <2>5. HolderInv'
    BY <1>15 DEF IInv, TypeOK, CampaignInv, LockInv, HolderInv, Away, Locked,
       Crash, Goto, ClosedBy, Fault
  <2>6. ParkedInv'
    BY <1>15 DEF IInv, TypeOK, CampaignInv, SessionInv, MutexFree, LockInv,
       HolderInv, ParkedInv, Away, Locked, Published, Crash, Goto, ClosedBy,
       Fault
  <2> QED
    BY <2>1, <2>2, <2>3, <2>4, <2>5, <2>6 DEF IInv
<1>16. ASSUME NEW r \in Replicas, Start(r) PROVE IInv'
  <2>1. TypeOK'
    BY <1>16 DEF IInv, TypeOK, ClientEnds, CampaignSteps, WorkerSteps,
       CampaignInv, SessionInv, LockInv, MutexFree, Away, Published, Locked,
       Start, Goto, ClosedBy
  <2>2. CampaignInv'
    BY <1>16 DEF IInv, TypeOK, CampaignInv, SessionInv, MutexFree, Away, Known,
       Published, Start, Goto, ClosedBy
  <2>3. SessionInv'
    BY <1>16 DEF IInv, TypeOK, CampaignInv, SessionInv, MutexFree, Away,
       Published, Start, Goto, ClosedBy
  <2>4. LockInv'
    BY <1>16 DEF IInv, TypeOK, CampaignInv, LockInv, HolderInv, Away, Locked,
       Start, Goto, ClosedBy
  <2>5. HolderInv'
    BY <1>16 DEF IInv, TypeOK, CampaignInv, LockInv, HolderInv, Away, Locked,
       Start, Goto, ClosedBy
  <2>6. ParkedInv'
    BY <1>16 DEF IInv, TypeOK, CampaignInv, SessionInv, MutexFree, LockInv,
       HolderInv, ParkedInv, Away, Locked, Published, Start, Goto, ClosedBy
  <2> QED
    BY <2>1, <2>2, <2>3, <2>4, <2>5, <2>6 DEF IInv
<1>17. ASSUME NEW r \in Replicas, NEW w \in Workers, ConfirmLeaderEpoch(r, w) PROVE IInv'
  BY <1>17 DEF IInv, TypeOK, ClientEnds, CampaignSteps, WorkerSteps,
     CampaignInv, SessionInv, LockInv, HolderInv, ParkedInv, MutexFree, Away,
     Known, Locked, Published, ConfirmLeaderEpoch, Step
<1>18. ASSUME NEW r \in Replicas, NEW w \in Workers, EnterSession(r, w) PROVE IInv'
  <2>1. TypeOK'
    <3>0. TypeOK /\ want \in [Replicas -> [Workers -> Conns \cup {Nobody}]]
      BY DEF IInv, TypeOK
    <3>1. /\ wpc' \in [Replicas -> [Workers -> WorkerSteps]]
          /\ want' \in [Replicas -> [Workers -> Conns \cup {Nobody}]]
      <4>1. PICK step \in WorkerSteps : wpc' = [wpc EXCEPT ![r][w] = step]
        BY <1>18 DEF WorkerSteps, EnterSession, Step
      <4>2. want' = want \/ want' = [want EXCEPT ![r][w] = Nobody]
        BY <1>18 DEF EnterSession
      <4>3. wpc' \in [Replicas -> [Workers -> WorkerSteps]]
        BY <3>0, <4>1, WpcTyped
      <4>4. want' \in [Replicas -> [Workers -> Conns \cup {Nobody}]]
        <5>1. [want EXCEPT ![r][w] = Nobody]
                \in [Replicas -> [Workers -> Conns \cup {Nobody}]]
          BY <3>0, WantTyped
        <5> QED
          BY <3>0, <4>2, <5>1, Zenon
      <4> QED
        BY <4>3, <4>4
    <3> QED
      BY <1>18, <3>1 DEF IInv, TypeOK, EnterSession
  <2>2. CampaignInv'
    BY <1>18 DEF IInv, TypeOK, CampaignInv, SessionInv, MutexFree, Away, Known,
       Published, EnterSession, Step
  <2>3. SessionInv'
    <3>1. \A q \in Replicas \ {r} : wpc'[q] = wpc[q]
      BY <1>18 DEF IInv, TypeOK, EnterSession, Step
    <3>2. CASE leaderConn[r] # Nobody
      BY <1>18, <3>1, <3>2 DEF IInv, CampaignInv, SessionInv, MutexFree,
         EnterSession
    <3>3. CASE leaderConn[r] = Nobody
      <4>1. \A v \in Workers : wpc'[r][v] \in {wpc[r][v], "idle"}
        BY <1>18, <3>3 DEF IInv, TypeOK, EnterSession, Step
      <4> QED
        BY <1>18, <3>1, <4>1 DEF IInv, SessionInv, MutexFree, EnterSession
    <3> QED
      BY <3>2, <3>3
  <2>4. LockInv'
    BY <1>18 DEF IInv, TypeOK, CampaignInv, LockInv, HolderInv, Away, Locked,
       EnterSession, Step
  <2>5. HolderInv'
    BY <1>18 DEF IInv, TypeOK, CampaignInv, LockInv, HolderInv, Away, Locked,
       EnterSession, Step
  <2>6. ParkedInv'
    BY <1>18 DEF IInv, TypeOK, CampaignInv, SessionInv, MutexFree, LockInv,
       HolderInv, ParkedInv, Away, Locked, Published, EnterSession, Step
  <2> QED
    BY <2>1, <2>2, <2>3, <2>4, <2>5, <2>6 DEF IInv
<1>19. ASSUME NEW r \in Replicas, NEW w \in Workers, QuerySession(r, w) PROVE IInv'
  <2>1. TypeOK'
    <3>0. TypeOK /\ want \in [Replicas -> [Workers -> Conns \cup {Nobody}]]
      BY DEF IInv, TypeOK
    <3>1. /\ wpc' \in [Replicas -> [Workers -> WorkerSteps]]
          /\ want' \in [Replicas -> [Workers -> Conns \cup {Nobody}]]
      <4>1. PICK step \in WorkerSteps : wpc' = [wpc EXCEPT ![r][w] = step]
        BY <1>19 DEF WorkerSteps, QuerySession, Step
      <4>2. want' = want \/ want' = [want EXCEPT ![r][w] = Nobody]
        BY <1>19 DEF QuerySession
      <4>3. wpc' \in [Replicas -> [Workers -> WorkerSteps]]
        BY <3>0, <4>1, WpcTyped
      <4>4. want' \in [Replicas -> [Workers -> Conns \cup {Nobody}]]
        <5>1. [want EXCEPT ![r][w] = Nobody]
                \in [Replicas -> [Workers -> Conns \cup {Nobody}]]
          BY <3>0, WantTyped
        <5> QED
          BY <3>0, <4>2, <5>1, Zenon
      <4> QED
        BY <4>3, <4>4
    <3>2. cli' \in [Conns -> ClientEnds] /\ faults' \in Nat /\ expiries' \in Nat
      BY <1>19, CliTyped DEF IInv, TypeOK, ClientEnds, QuerySession, Fault
    <3>3. leading' \in [Replicas -> BOOLEAN]
      BY <1>19 DEF IInv, TypeOK, QuerySession
    <3> QED
      BY <1>19, <3>1, <3>2, <3>3 DEF IInv, TypeOK, QuerySession
  <2>2. CampaignInv'
    BY <1>19 DEF IInv, TypeOK, CampaignInv, SessionInv, MutexFree, Away, Known,
       Published, QuerySession, Step, Usable, Fault
  <2>3. SessionInv'
    <3>1. \A q \in Replicas \ {r} : wpc'[q] = wpc[q]
      BY <1>19 DEF IInv, TypeOK, QuerySession, Step
    <3>2. pc[r] \in Published
      BY <1>19 DEF IInv, SessionInv, MutexFree, QuerySession
    <3> QED
      BY <1>19, <3>1, <3>2 DEF IInv, SessionInv, MutexFree, QuerySession
  <2>4. LockInv'
    BY <1>19 DEF IInv, TypeOK, CampaignInv, LockInv, HolderInv, Away, Locked,
       QuerySession, Step, Usable, Fault
  <2>5. HolderInv'
    BY <1>19 DEF IInv, TypeOK, CampaignInv, LockInv, HolderInv, Away, Locked,
       QuerySession, Step, Usable, Fault
  <2>6. ParkedInv'
    BY <1>19 DEF IInv, TypeOK, CampaignInv, SessionInv, MutexFree, LockInv,
       HolderInv, ParkedInv, Away, Locked, Published, QuerySession, Step,
       Usable, Fault
  <2> QED
    BY <2>1, <2>2, <2>3, <2>4, <2>5, <2>6 DEF IInv
<1>20. ASSUME NEW r \in Replicas, NEW w \in Workers, FencedWrite(r, w) PROVE IInv'
  BY <1>20 DEF IInv, TypeOK, ClientEnds, CampaignSteps, WorkerSteps,
     CampaignInv, SessionInv, LockInv, HolderInv, ParkedInv, MutexFree, Away,
     Known, Locked, Published, FencedWrite, Usable
<1>21. ASSUME NEW r \in Replicas, NEW w \in Workers, LeaveSession(r, w) PROVE IInv'
  <2>1. TypeOK'
    <3>1. /\ wpc' \in [Replicas -> [Workers -> WorkerSteps]]
          /\ want' \in [Replicas -> [Workers -> Conns \cup {Nobody}]]
      BY <1>21 DEF IInv, TypeOK, WorkerSteps, LeaveSession, Step
    <3>2. cli' \in [Conns -> ClientEnds] /\ faults' \in Nat
      BY <1>21, CliTyped DEF IInv, TypeOK, ClientEnds, LeaveSession, Fault
    <3> QED
      BY <1>21, <3>1, <3>2 DEF IInv, TypeOK, LeaveSession
  <2>2. CampaignInv'
    BY <1>21 DEF IInv, TypeOK, CampaignInv, SessionInv, MutexFree, Away, Known,
       Published, LeaveSession, Step, Fault
  <2>3. SessionInv'
    BY <1>21 DEF IInv, TypeOK, CampaignInv, SessionInv, MutexFree, Away,
       Published, LeaveSession, Step, Fault
  <2>4. LockInv'
    BY <1>21 DEF IInv, TypeOK, CampaignInv, LockInv, HolderInv, Away, Locked,
       LeaveSession, Step, Fault
  <2>5. HolderInv'
    BY <1>21 DEF IInv, TypeOK, CampaignInv, LockInv, HolderInv, Away, Locked,
       LeaveSession, Step, Fault
  <2>6. ParkedInv'
    BY <1>21 DEF IInv, TypeOK, CampaignInv, SessionInv, MutexFree, LockInv,
       HolderInv, ParkedInv, Away, Locked, Published, LeaveSession, Step, Fault
  <2> QED
    BY <2>1, <2>2, <2>3, <2>4, <2>5, <2>6 DEF IInv
<1>22. CASE UNCHANGED vars
  BY <1>22 DEF vars, IInv, TypeOK, CampaignInv, SessionInv, LockInv, HolderInv,
     ParkedInv, MutexFree
<1> QED
  BY <1>1, <1>2, <1>3, <1>4, <1>5, <1>6, <1>7, <1>8, <1>9, <1>10, <1>11, <1>12,
     <1>13, <1>14, <1>15, <1>16, <1>17, <1>18, <1>19, <1>20, <1>21, <1>22 DEF
     Next, Campaign, Worker

LEMMA Inductive == Spec => []IInv
  BY InitIInv, StepIInv, PTL DEF Spec

-----------------------------------------------------------------------------
\* Type correctness of the election, for any number of replicas and faults.
THEOREM TypeCorrect == Spec => []TypeOK
<1>1. IInv => TypeOK
  BY DEF IInv
<1> QED
  BY <1>1, Inductive, PTL

\* A replica that calls itself leader has the lock as long as its session
\* lives (leader.go: the flag is raised after the lock and dropped before
\* it is given back).
THEOREM FlagTheorem == Spec => []FlagLagsOnlyDeath
<1>1. IInv => FlagLagsOnlyDeath
  <2> SUFFICES ASSUME IInv, NEW r \in Replicas, leading[r]
               PROVE  /\ leaderConn[r] # Nobody
                      /\ leaderConn[r] \in alive => lockBy = leaderConn[r]
    BY DEF FlagLagsOnlyDeath
  <2>1. pc[r] \in {"hold", "drop"}
    BY DEF IInv, CampaignInv
  <2>2. leaderConn[r] = conn[r] /\ conn[r] # Nobody
    BY <2>1 DEF IInv, CampaignInv, Away, Published
  <2> QED
    BY <2>1, <2>2 DEF IInv, HolderInv, Locked
<1> QED
  BY <1>1, Inductive, PTL

\* No way out of a campaign takes the lock back to the pool, except one whose
\* unlock call failed (leader.go: every return after the try unlocks).
THEOREM ParkedTheorem == Spec => []NoParkedLock
<1>1. IInv => NoParkedLock
  BY DEF IInv, ParkedInv, NoParkedLock
<1> QED
  BY <1>1, Inductive, PTL

-----------------------------------------------------------------------------
\* What one step does to the lock and to the last write.
LEMMA StepOfLock ==
  ASSUME IInv, Next
  PROVE  \/ UNCHANGED <<lockBy, written>>
         \/ lockBy = Nobody /\ lockBy' \in Conns /\ UNCHANGED written
         \/ lockBy # Nobody /\ lockBy' = Nobody /\ UNCHANGED written
         \/ lockBy \in Conns /\ written' = lockBy /\ UNCHANGED lockBy
<1> DEFINE Good ==
      \/ UNCHANGED <<lockBy, written>>
      \/ lockBy = Nobody /\ lockBy' \in Conns /\ UNCHANGED written
      \/ lockBy # Nobody /\ lockBy' = Nobody /\ UNCHANGED written
      \/ lockBy \in Conns /\ written' = lockBy /\ UNCHANGED lockBy
<1> USE Bounds
<1>1. ASSUME NEW c \in Conns, SessionEnd(c) \/ Recycle(c) PROVE Good
  BY <1>1 DEF SessionEnd, Recycle
<1>2. ASSUME NEW r \in Replicas, Campaign(r) PROVE Good
  <2>1. CASE TryLock(r)
    <3>1. conn[r] \in Conns
      BY <2>1, Holding DEF Away, TryLock
    <3> QED
      BY <2>1, <3>1 DEF TryLock, KeepLock
  <2>2. CASE Probe(r) \/ Unlock(r)
    <3>1. conn[r] # Nobody
      BY <2>2, Holding DEF Away, Probe, Unlock
    <3> QED
      BY <2>2, <3>1 DEF Probe, Unlock, UnlockOK, UnlockFails, FreeOneLevel,
         KeepLock
  <2>3. CASE \/ Acquire(r) \/ AcquireTimeout(r) \/ Publish(r) \/ Lead(r)
             \/ PingFails(r) \/ Drop(r) \/ ClearPID(r) \/ Wake(r)
    BY <2>3 DEF Acquire, AcquireTimeout, Publish, Lead, PingFails, Drop,
       ClearPID, Wake
  <2> QED
    BY <1>2, <2>1, <2>2, <2>3 DEF Campaign
<1>3. ASSUME NEW r \in Replicas, Shutdown(r) \/ Crash(r) \/ Start(r) PROVE Good
  BY <1>3 DEF Shutdown, Crash, Start
<1>4. ASSUME NEW r \in Replicas, NEW w \in Workers, Worker(r, w) PROVE Good
  <2>1. CASE FencedWrite(r, w)
    <3>1. leaderConn[r] \in alive /\ written' = leaderConn[r] /\ UNCHANGED lockBy
      BY <2>1 DEF FencedWrite, Usable
    <3>2. pc[r] \in Published /\ leaderConn[r] = conn[r] /\ conn[r] \in Conns
      BY <2>1, Inside DEF FencedWrite
    <3>3. lockBy = leaderConn[r]
      BY <3>1, <3>2 DEF IInv, HolderInv, Locked, Published
    <3> QED
      BY <3>1, <3>2, <3>3
  <2>2. CASE \/ ConfirmLeaderEpoch(r, w) \/ EnterSession(r, w)
             \/ QuerySession(r, w) \/ LeaveSession(r, w)
    BY <2>2 DEF ConfirmLeaderEpoch, EnterSession, QuerySession, LeaveSession
  <2> QED
    BY <1>4, <2>1, <2>2 DEF Worker
<1> QED
  BY <1>1, <1>2, <1>3, <1>4 DEF Next

\* The election implements SingleWriter: leadership passes to a session only
\* from nobody, and a fenced scheduler writes only on the session that holds
\* the lock at that moment, through crashes, lost sessions, parked locks and
\* failed calls (leader.go: WithLeaderSession).
THEOREM ElectionRefines == Spec => FencedWrites
<1>1. Init => Fenced!Init
  BY DEF Init, Fenced!Init
<1>2. IInv /\ [Next]_vars => [Fenced!Next]_<<lockBy, written>>
  <2> SUFFICES ASSUME IInv, Next PROVE [Fenced!Next]_<<lockBy, written>>
    BY DEF vars
  <2> QED
    BY StepOfLock DEF Fenced!Next, Fenced!Take, Fenced!Drop, Fenced!Write
<1> QED
  BY <1>1, <1>2, Inductive, PTL DEF Spec, FencedWrites, Fenced!Spec
=============================================================================
