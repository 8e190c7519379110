--------------------------- MODULE LeaderElection ---------------------------
(***************************************************************************)
(* The scheduler leadership of the control plane: every replica campaigns  *)
(* for one PostgreSQL advisory lock that belongs to a database session,    *)
(* holds a dedicated connection while it leads, and lets its writing       *)
(* schedulers run on that connection only.                                 *)
(*                                                                         *)
(* A connection has two ends.  The server's end is a session, which may    *)
(* hold the lock and dies with it; the client's end is idle in the pool of *)
(* its replica, held by the campaign, or held and already closed.  A call  *)
(* on a connection can fail with the connection closed by the driver (the  *)
(* session then ends when the server notices) or with it intact (an error  *)
(* of the server, or a context that was done before the call began).       *)
(***************************************************************************)
EXTENDS Integers, FiniteSets

CONSTANTS
    Replicas,      \* processes of the control plane
    Workers,       \* the fenced schedulers of one process
    Conns,         \* database sessions, reused once nothing refers to them
    Home,          \* the replica whose pool a connection belongs to
    Nobody,        \* no session
    MaxFaults,     \* bound on crashes, broken connections and failed calls
    MaxExpiries    \* bound on callers whose context ran out at the mutex

ASSUME Bounds ==
    /\ Home \in [Conns -> Replicas]
    /\ Nobody \notin Conns
    /\ MaxFaults \in Nat
    /\ MaxExpiries \in Nat

VARIABLES
    lockBy,     \* the session that holds SchedulerLockKey, or Nobody
    depth,      \* how often that session took it: session locks stack
    alive,      \* sessions the server has
    cli,        \* the client's end of each connection
    pc,         \* where the campaign of each replica is
    conn,       \* the connection of the running campaign
    leading, leaderPID, leaderConn,     \* the fields of the Elector
    wpc, want,  \* the fenced schedulers: where they are, their epoch
    stopping,   \* the context of the process is cancelled
    faults, expiries,
    written,    \* the session of the last write of a fenced scheduler
    kept        \* connections whose unlock failed with the session alive

elector == <<leading, leaderPID, leaderConn>>
workers == <<wpc, want>>
vars == <<lockBy, depth, alive, cli, pc, conn, leading, leaderPID, leaderConn,
          wpc, want, stopping, faults, expiries, written, kept>>

ClientEnds == {"none", "idle", "held", "shut"}
CampaignSteps == {"acquire", "try", "probe", "pid", "publish", "lead", "hold",
                  "drop", "clear", "unlock", "sleep", "down"}
WorkerSteps == {"idle", "want", "query", "fn"}

TypeOK ==
    /\ lockBy \in Conns \cup {Nobody}
    /\ depth \in Nat
    /\ alive \in SUBSET Conns
    /\ cli \in [Conns -> ClientEnds]
    /\ pc \in [Replicas -> CampaignSteps]
    /\ conn \in [Replicas -> Conns \cup {Nobody}]
    /\ leading \in [Replicas -> BOOLEAN]
    /\ leaderPID \in [Replicas -> Conns \cup {Nobody}]
    /\ leaderConn \in [Replicas -> Conns \cup {Nobody}]
    /\ wpc \in [Replicas -> [Workers -> WorkerSteps]]
    /\ want \in [Replicas -> [Workers -> Conns \cup {Nobody}]]
    /\ stopping \in [Replicas -> BOOLEAN]
    /\ faults \in Nat
    /\ expiries \in Nat
    /\ written \in Conns \cup {Nobody}
    /\ kept \in SUBSET Conns

Init ==
    /\ lockBy = Nobody
    /\ depth = 0
    /\ alive = {}
    /\ cli = [c \in Conns |-> "none"]
    /\ pc = [r \in Replicas |-> "acquire"]
    /\ conn = [r \in Replicas |-> Nobody]
    /\ leading = [r \in Replicas |-> FALSE]
    /\ leaderPID = [r \in Replicas |-> Nobody]
    /\ leaderConn = [r \in Replicas |-> Nobody]
    /\ wpc = [r \in Replicas |-> [w \in Workers |-> "idle"]]
    /\ want = [r \in Replicas |-> [w \in Workers |-> Nobody]]
    /\ stopping = [r \in Replicas |-> FALSE]
    /\ faults = 0
    /\ expiries = 0
    /\ written = Nobody
    /\ kept = {}

-----------------------------------------------------------------------------
(* The database and the driver.                                            *)

Fault == faults < MaxFaults /\ faults' = faults + 1

\* A call on the connection reaches its session and returns.
Usable(c) == c \in alive /\ cli[c] = "held"

\* The mutex that serializes the use of the leader's connection is held from
\* WithLeaderSession's entry to its return.
MutexFree(r) == \A w \in Workers : wpc[r][w] \notin {"query", "fn"}

\* Nothing refers to the session any more, so its name can stand for a new
\* one.
Unused(c) ==
    /\ c \notin alive
    /\ cli[c] = "none"
    /\ \A r \in Replicas :
          /\ c \notin {conn[r], leaderPID[r], leaderConn[r]}
          /\ \A w \in Workers : want[r][w] # c

\* Faulty variant: two sites unlock on one way out.
FreeTwoLevels(c) ==
    /\ lockBy' = IF lockBy = c /\ depth <= 2 THEN Nobody ELSE lockBy
    /\ depth' = IF lockBy = c THEN depth - 2 ELSE depth

\* pg_advisory_unlock takes one level off, if the session holds the lock.
FreeOneLevel(c) ==
    /\ lockBy' = IF lockBy = c /\ depth = 1 THEN Nobody ELSE lockBy
    /\ depth' = IF lockBy = c THEN depth - 1 ELSE depth

KeepLock == UNCHANGED <<lockBy, depth>>

\* Faulty variant: the connection's release is taken for the lock's.
ReleaseOnly(c) ==
    /\ Usable(c)
    /\ cli' = [cli EXCEPT ![c] = "idle"]
    /\ UNCHANGED <<lockBy, depth, kept>>

\* unlock, when its call succeeds, and the Release that follows it.
UnlockOK(c) ==
    /\ Usable(c)
    /\ FreeOneLevel(c)
    /\ cli' = [cli EXCEPT ![c] = "idle"]
    /\ UNCHANGED kept

\* unlock fails with the connection intact, which parks the lock in the pool,
\* or with the connection closed.
UnlockFails(c) ==
    \/ /\ Usable(c)
       /\ Fault
       /\ kept' = kept \cup {c}
       /\ cli' = [cli EXCEPT ![c] = "idle"]
       /\ KeepLock
    \/ /\ IF Usable(c) THEN Fault ELSE UNCHANGED faults
       /\ cli' = [cli EXCEPT ![c] = "none"]
       /\ KeepLock
       /\ UNCHANGED kept

\* The server ends a session: at once for one whose client has gone, at any
\* time as a fault.  The lock goes with it.
SessionEnd(c) ==
    /\ c \in alive
    /\ \/ cli[c] \in {"none", "shut"} /\ UNCHANGED faults
       \/ cli[c] \in {"idle", "held"} /\ Fault
    /\ alive' = alive \ {c}
    /\ lockBy' = IF lockBy = c THEN Nobody ELSE lockBy
    /\ depth' = IF lockBy = c THEN 0 ELSE depth
    /\ kept' = kept \ {c}
    /\ UNCHANGED <<cli, pc, conn, elector, workers, stopping, expiries, written>>

\* The pool closes an idle connection at the end of its lifetime.
Recycle(c) ==
    /\ cli[c] = "idle"
    /\ cli' = [cli EXCEPT ![c] = "none"]
    /\ UNCHANGED <<lockBy, depth, alive, pc, conn, elector, workers, stopping,
                   faults, expiries, written, kept>>

-----------------------------------------------------------------------------
(* Run and campaign.                                                       *)

Goto(r, step) == pc' = [pc EXCEPT ![r] = step]

\* A connection pool.Acquire can give: an idle one of the pool, or a new one.
Available(r) == {c \in Conns : Home[c] = r /\ (cli[c] = "idle" \/ Unused(c))}

Acquire(r) ==
    /\ pc[r] = "acquire"
    /\ \E c \in Available(r) :
          /\ alive' = IF Unused(c) THEN alive \cup {c} ELSE alive
          /\ cli' = [cli EXCEPT ![c] = "held"]
          /\ conn' = [conn EXCEPT ![r] = c]
    /\ Goto(r, "try")
    /\ UNCHANGED <<lockBy, depth, elector, workers, stopping, faults, expiries,
                   written, kept>>

\* The bounded acquire gives up on a saturated pool, or on a slow server.
AcquireTimeout(r) ==
    /\ pc[r] = "acquire"
    /\ IF Available(r) = {} THEN UNCHANGED faults ELSE Fault
    /\ Goto(r, "sleep")
    /\ UNCHANGED <<lockBy, depth, alive, cli, conn, elector, workers, stopping,
                   expiries, written, kept>>

\* Faulty variant: a refused campaign returns without releasing.
GiveUpHolding(r, end) ==
    /\ conn' = [conn EXCEPT ![r] = Nobody]
    /\ Goto(r, "sleep")
    /\ UNCHANGED cli

\* The campaign returns without the lock.
GiveUp(r, end) ==
    /\ cli' = [cli EXCEPT ![conn[r]] = end]
    /\ conn' = [conn EXCEPT ![r] = Nobody]
    /\ Goto(r, "sleep")

\* pg_try_advisory_lock: granted when free, or again to the session that has
\* it; refused at once when another has it; or the call fails, in which case a
\* lost answer may leave the lock with the session.
TryLock(r) ==
    LET c == conn[r]
        granted == /\ lockBy \in {Nobody, c}
                   /\ lockBy' = c
                   /\ depth' = depth + 1
    IN /\ pc[r] = "try"
       /\ \/ /\ Usable(c) /\ granted
             /\ Goto(r, "probe")
             /\ UNCHANGED <<cli, conn, faults>>
          \/ /\ Usable(c) /\ lockBy \notin {Nobody, c}
             /\ GiveUp(r, "idle")
             /\ KeepLock
             /\ UNCHANGED faults
          \/ /\ ~Usable(c)
             /\ GiveUp(r, "none")
             /\ KeepLock
             /\ UNCHANGED faults
          \/ /\ Usable(c) /\ Fault
             /\ KeepLock
             /\ GiveUp(r, "idle")
          \/ /\ Usable(c) /\ Fault
             /\ granted
             /\ GiveUp(r, "none")
       /\ UNCHANGED <<alive, elector, workers, stopping, expiries, written,
                      kept>>

\* confirmSessionPooling and pg_backend_pid: a failure of either gives the
\* lock back before the campaign returns.
Probe(r) ==
    LET c == conn[r] IN
    /\ pc[r] \in {"probe", "pid"}
    /\ \/ /\ Usable(c)
          /\ IF pc[r] = "probe"
             THEN Goto(r, "pid") /\ UNCHANGED leaderPID
             ELSE Goto(r, "publish") /\ leaderPID' = [leaderPID EXCEPT ![r] = c]
          /\ KeepLock
          /\ UNCHANGED <<cli, conn, faults, kept>>
       \/ /\ (Fault /\ UnlockOK(c)) \/ UnlockFails(c)
          /\ conn' = [conn EXCEPT ![r] = Nobody]
          /\ Goto(r, "sleep")
          /\ UNCHANGED leaderPID
    /\ UNCHANGED <<alive, leading, leaderConn, workers, stopping, expiries,
                   written>>

\* The connection is published under the mutex, the flag after it.
Publish(r) ==
    /\ pc[r] = "publish"
    /\ MutexFree(r)
    /\ leaderConn' = [leaderConn EXCEPT ![r] = conn[r]]
    /\ Goto(r, "lead")
    /\ UNCHANGED <<lockBy, depth, alive, cli, conn, leading, leaderPID, workers,
                   stopping, faults, expiries, written, kept>>

Lead(r) ==
    /\ pc[r] = "lead"
    /\ leading' = [leading EXCEPT ![r] = TRUE]
    /\ Goto(r, "hold")
    /\ UNCHANGED <<lockBy, depth, alive, cli, conn, leaderPID, leaderConn,
                   workers, stopping, faults, expiries, written, kept>>

\* The ping of the dedicated connection fails: it is dead, or it breaks.
PingFails(r) ==
    LET c == conn[r] IN
    /\ pc[r] = "hold"
    /\ MutexFree(r)
    /\ IF Usable(c) THEN Fault ELSE UNCHANGED faults
    /\ cli' = [cli EXCEPT ![c] = "shut"]
    /\ Goto(r, "drop")
    /\ UNCHANGED <<lockBy, depth, alive, conn, elector, workers, stopping,
                   expiries, written, kept>>

\* Graceful shutdown: the context ends while this replica leads.
Shutdown(r) ==
    /\ pc[r] = "hold"
    /\ Fault
    /\ stopping' = [stopping EXCEPT ![r] = TRUE]
    /\ Goto(r, "drop")
    /\ UNCHANGED <<lockBy, depth, alive, cli, conn, elector, workers, expiries,
                   written, kept>>

\* Faulty variant: the flag is left to Run, after the lock went.
DropLate(r) ==
    /\ pc[r] = "drop"
    /\ Goto(r, "clear")
    /\ UNCHANGED <<lockBy, depth, alive, cli, conn, elector, workers, stopping,
                   faults, expiries, written, kept>>

\* The deferred exit: flag, pid, then connection and lock under the mutex.
Drop(r) ==
    /\ pc[r] = "drop"
    /\ leading' = [leading EXCEPT ![r] = FALSE]
    /\ Goto(r, "clear")
    /\ UNCHANGED <<lockBy, depth, alive, cli, conn, leaderPID, leaderConn,
                   workers, stopping, faults, expiries, written, kept>>

ClearPID(r) ==
    /\ pc[r] = "clear"
    /\ leaderPID' = [leaderPID EXCEPT ![r] = Nobody]
    /\ Goto(r, "unlock")
    /\ UNCHANGED <<lockBy, depth, alive, cli, conn, leading, leaderConn,
                   workers, stopping, faults, expiries, written, kept>>

Unlock(r) ==
    /\ pc[r] = "unlock"
    /\ MutexFree(r)
    /\ leaderConn' = [leaderConn EXCEPT ![r] = Nobody]
    /\ (UNCHANGED faults /\ UnlockOK(conn[r])) \/ UnlockFails(conn[r])
    /\ conn' = [conn EXCEPT ![r] = Nobody]
    /\ Goto(r, "sleep")
    /\ UNCHANGED <<alive, leading, leaderPID, workers, stopping, expiries,
                   written>>

\* Run drops the flag, then sleeps and campaigns again, or returns.
Wake(r) ==
    /\ pc[r] = "sleep"
    /\ leading' = [leading EXCEPT ![r] = FALSE]
    /\ Goto(r, IF stopping[r] THEN "down" ELSE "acquire")
    /\ UNCHANGED <<lockBy, depth, alive, cli, conn, leaderPID, leaderConn,
                   workers, stopping, faults, expiries, written, kept>>

\* The client ends of a process that is gone.
ClosedBy(r) == [c \in Conns |-> IF Home[c] = r THEN "none" ELSE cli[c]]

\* The process dies at any step; the server keeps its sessions until it
\* notices.
Crash(r) ==
    /\ pc[r] # "down"
    /\ Fault
    /\ cli' = ClosedBy(r)
    /\ conn' = [conn EXCEPT ![r] = Nobody]
    /\ leading' = [leading EXCEPT ![r] = FALSE]
    /\ leaderPID' = [leaderPID EXCEPT ![r] = Nobody]
    /\ leaderConn' = [leaderConn EXCEPT ![r] = Nobody]
    /\ wpc' = [wpc EXCEPT ![r] = [w \in Workers |-> "idle"]]
    /\ want' = [want EXCEPT ![r] = [w \in Workers |-> Nobody]]
    /\ Goto(r, "down")
    /\ UNCHANGED <<lockBy, depth, alive, stopping, expiries, written, kept>>

\* A new process takes the place of one that returned or died.
Start(r) ==
    /\ pc[r] = "down"
    /\ MutexFree(r)
    /\ cli' = ClosedBy(r)
    /\ want' = [want EXCEPT ![r] = [w \in Workers |-> Nobody]]
    /\ wpc' = [wpc EXCEPT ![r] = [w \in Workers |-> "idle"]]
    /\ stopping' = [stopping EXCEPT ![r] = FALSE]
    /\ Goto(r, "acquire")
    /\ UNCHANGED <<lockBy, depth, alive, conn, elector, faults, expiries,
                   written, kept>>

-----------------------------------------------------------------------------
(* The fenced schedulers.                                                  *)

Step(r, w, step) == wpc' = [wpc EXCEPT ![r][w] = step]

\* ConfirmLeaderEpoch: the flag and the pid, then pg_locks over the pool.
ConfirmLeaderEpoch(r, w) ==
    /\ wpc[r][w] = "idle"
    /\ leading[r]
    /\ leaderPID[r] # Nobody
    /\ lockBy = leaderPID[r]
    /\ want' = [want EXCEPT ![r][w] = leaderPID[r]]
    /\ Step(r, w, "want")
    /\ UNCHANGED <<lockBy, depth, alive, cli, pc, conn, elector, stopping,
                   faults, expiries, written, kept>>

\* WithLeaderSession takes the mutex and compares the fields with the epoch.
EnterSession(r, w) ==
    /\ wpc[r][w] = "want"
    /\ MutexFree(r)
    /\ IF leading[r] /\ leaderPID[r] = want[r][w] /\ leaderConn[r] # Nobody
       THEN Step(r, w, "query") /\ UNCHANGED want
       ELSE Step(r, w, "idle") /\ want' = [want EXCEPT ![r][w] = Nobody]
    /\ UNCHANGED <<lockBy, depth, alive, cli, pc, conn, elector, stopping,
                   faults, expiries, written, kept>>

\* The session is asked for its own lock.  Anything but a yes drops the flag.
QuerySession(r, w) ==
    LET c == leaderConn[r]
        refused == /\ leading' = [leading EXCEPT ![r] = FALSE]
                   /\ Step(r, w, "idle")
                   /\ want' = [want EXCEPT ![r][w] = Nobody]
    IN /\ wpc[r][w] = "query"
       /\ \/ /\ Usable(c)
             /\ IF lockBy = c
                THEN Step(r, w, "fn") /\ UNCHANGED <<leading, want>>
                ELSE refused
             /\ UNCHANGED <<cli, faults, expiries>>
          \/ /\ ~Usable(c) /\ refused
             /\ cli' = [cli EXCEPT ![c] = "shut"]
             /\ UNCHANGED <<faults, expiries>>
          \/ /\ Usable(c) /\ Fault /\ refused
             /\ cli' = [cli EXCEPT ![c] = "shut"]
             /\ UNCHANGED expiries
          \* The caller's context ran out while it waited for the mutex.
          \/ /\ expiries < MaxExpiries /\ expiries' = expiries + 1
             /\ refused
             /\ UNCHANGED <<cli, faults>>
       /\ UNCHANGED <<lockBy, depth, alive, pc, conn, leaderPID, leaderConn,
                      stopping, written, kept>>

\* Faulty variant: the callback writes on a connection of the pool.
PooledWrite(r, w) ==
    /\ wpc[r][w] = "fn"
    /\ \E c \in alive : cli[c] = "idle" /\ Home[c] = r /\ written' = c
    /\ UNCHANGED <<lockBy, depth, alive, cli, pc, conn, elector, workers,
                   stopping, faults, expiries, kept>>

\* The callback writes on the session it was given.
FencedWrite(r, w) ==
    /\ wpc[r][w] = "fn"
    /\ Usable(leaderConn[r])
    /\ written' = leaderConn[r]
    /\ UNCHANGED <<lockBy, depth, alive, cli, pc, conn, elector, workers,
                   stopping, faults, expiries, kept>>

\* The callback returns; one that failed may have cost the connection.
LeaveSession(r, w) ==
    /\ wpc[r][w] = "fn"
    /\ \/ UNCHANGED <<cli, faults>>
       \/ Fault /\ cli' = [cli EXCEPT ![leaderConn[r]] = "shut"]
    /\ Step(r, w, "idle")
    /\ want' = [want EXCEPT ![r][w] = Nobody]
    /\ UNCHANGED <<lockBy, depth, alive, pc, conn, elector, stopping, expiries,
                   written, kept>>

-----------------------------------------------------------------------------
Campaign(r) ==
    \/ Acquire(r) \/ AcquireTimeout(r) \/ TryLock(r) \/ Probe(r) \/ Publish(r)
    \/ Lead(r) \/ PingFails(r) \/ Drop(r) \/ ClearPID(r) \/ Unlock(r) \/ Wake(r)

Worker(r, w) ==
    \/ ConfirmLeaderEpoch(r, w) \/ EnterSession(r, w) \/ QuerySession(r, w)
    \/ FencedWrite(r, w) \/ LeaveSession(r, w)

Next ==
    \/ \E c \in Conns : SessionEnd(c) \/ Recycle(c)
    \/ \E r \in Replicas :
          \/ Campaign(r) \/ Shutdown(r) \/ Crash(r) \/ Start(r)
          \/ \E w \in Workers : Worker(r, w)

Spec == Init /\ [][Next]_vars

\* The steps a replica takes by itself, without a fault: its campaign loop, a
\* callback's return, a restart, the server's notice of a closed connection
\* and the pool's lifetime of an idle one.
Fairness ==
    /\ \A r \in Replicas :
          /\ WF_vars(UNCHANGED faults /\ Campaign(r))
          /\ WF_vars(Start(r))
          /\ \A w \in Workers :
                /\ WF_vars(EnterSession(r, w))
                /\ WF_vars(UNCHANGED <<faults, expiries>> /\ QuerySession(r, w))
                /\ WF_vars(UNCHANGED faults /\ LeaveSession(r, w))
    /\ \A c \in Conns :
          /\ WF_vars(UNCHANGED faults /\ SessionEnd(c))
          /\ WF_vars(Recycle(c))

FairSpec == Spec /\ Fairness

-----------------------------------------------------------------------------
(* Properties.                                                             *)

\* Leadership is one writer at a time, and no scheduler writes on a session
\* after its lock went elsewhere: what SingleWriter promises, with the
\* session that has the advisory lock as the holder.
Fenced == INSTANCE SingleWriter WITH Sessions <- Conns, holder <- lockBy

FencedWrites == Fenced!Spec

\* IsLeader may lag behind the database only when the session it stands for
\* is dead: while the session lives, a replica that calls itself leader has
\* the lock.  So a lost lock is always a lost connection, which the ping and
\* every session query notice.
FlagLagsOnlyDeath ==
    \A r \in Replicas : leading[r] =>
        /\ leaderConn[r] # Nobody
        /\ leaderConn[r] \in alive => lockBy = leaderConn[r]

\* Every way out of a campaign gives the lock back: a connection that returns
\* to the pool with its session alive does not take the lock along, unless
\* the unlock call itself failed.
NoParkedLock ==
    lockBy # Nobody /\ cli[lockBy] = "idle" => lockBy \in kept

\* Some replica leads and its schedulers can write.
Leads == \E r \in Replicas : leading[r] /\ lockBy # Nobody /\ lockBy = leaderConn[r]

\* After every crash, broken connection, failed call or shutdown, some replica
\* leads again, as long as no caller's context ran out at the mutex.
LeadershipReturns == [](expiries = 0) => []<>Leads

\* The same without the exception.
GapIsBounded == []<>Leads
=============================================================================
