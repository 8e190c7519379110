----------------------------- MODULE AgentLane -----------------------------
(***************************************************************************)
(* The command lane of the gateway agent and the push path that feeds it.  *)
(* Every mutation of the data plane is a command of some producer, and one *)
(* goroutine runs the commands.  The producers here are the desired state  *)
(* of the control plane (at startup, on a pushed change, on an interval),  *)
(* the ownership deliveries, and the watchdog of the serving lease, which  *)
(* is urgent; the periodic repairs of egress, DNS binds and host network   *)
(* submit as the ownership deliveries do.  The control plane tells the     *)
(* agent of a change by answering its long poll.                           *)
(*                                                                         *)
(* Desired state is the number of the commit it was read after.  A lease   *)
(* is absent, held, or past its deadline.  Tickers fire at any time.  The  *)
(* acknowledgement of a base authority, which the desired-state producer   *)
(* posts between two commands, is BaseAuthority's.                         *)
(***************************************************************************)
EXTENDS Integers, FiniteSets, Sequences

CONSTANTS
    NormalSlots,    \* capacity of normalSlots
    UrgentSlots,    \* capacity of urgentSlots
    MaxCommits,     \* bound on changes of the desired state
    MaxLeases,      \* bound on leases installed
    MaxTroubles     \* bound on failed calls and commands and on restarts
                    \* of the control plane

ASSUME Bounds ==
    /\ {NormalSlots, UrgentSlots} \subseteq Nat \ {0}
    /\ {MaxCommits, MaxLeases, MaxTroubles} \subseteq Nat

VARIABLES
    pc,         \* where each producer is
    stage,      \* how far the startup of the agent is
    snapshot,   \* the desired state the producer fetched, with its version
    normal, urgent, normalSlots, urgentSlots, wake,     \* the lane's fields
    lane,       \* what the lane's goroutine does
    done,       \* the answer a producer waits for
    stopping,   \* the context of the agent is cancelled
    lease,      \* the serving lease: "none", "held" or "expired"
    begun,      \* history: normal commands begun since the lease expired
                \*          and before a check of it
    version,    \* Reconciler.version
    committed,  \* commits of the control plane
    unsent,     \* commits whose Notify is still to come
    hubVersion, \* the hub's version of this gateway
    watch,      \* the handler of the long poll
    token,      \* the signal in the channel of its subscription
    leases, troubles

api == <<committed, unsent, hubVersion, watch, token>>
queues == <<normal, urgent, normalSlots, urgentSlots, wake>>
guard == <<lease, begun, leases>>
vars == <<pc, stage, snapshot, normal, urgent, normalSlots, urgentSlots, wake,
          lane, done, stopping, lease, begun, version, committed, unsent,
          hubVersion, watch, token, leases, troubles>>

Producers == {"desired", "owner", "watchdog"}
Submitting == {"slot", "append", "signal", "wait"}
Steps == {"idle", "fetch", "read", "watch", "gone"} \cup Submitting
Asleep == [at |-> "sleep", cmd |-> "none", guarded |-> FALSE, due |-> FALSE]
Popping == [Asleep EXCEPT !.at = "pop"]
NoWatch == [at |-> "none", since |-> 0]

Snapshots == [version : Nat, data : Nat]
LaneStates == [at : {"pop", "empty", "sleep", "run", "check", "gone"},
               cmd : Producers \cup {"none"},
               guarded : BOOLEAN, due : BOOLEAN]
Polls == [at : {"none", "subscribed", "parked"}, since : Nat]

TypeOK ==
    /\ pc \in [Producers -> Steps]
    /\ stage \in {"base", "lease", "run"}
    /\ snapshot \in Snapshots
    /\ normal \in Seq(Producers \ {"watchdog"})
    /\ urgent \in Seq({"watchdog"})
    /\ normalSlots \in 0..NormalSlots
    /\ urgentSlots \in 0..UrgentSlots
    /\ wake \in BOOLEAN
    /\ lane \in LaneStates
    /\ done \in [Producers -> {"none", "ok", "failed"}]
    /\ stopping \in BOOLEAN
    /\ lease \in {"none", "held", "expired"}
    /\ begun \in Nat
    /\ version \in Nat
    /\ committed \in Nat
    /\ unsent \in Nat
    /\ hubVersion \in Nat
    /\ watch \in Polls
    /\ token \in BOOLEAN
    /\ leases \in Nat
    /\ troubles \in Nat

\* The agent starts its lane and fetches its base.
Init ==
    /\ pc = [p \in Producers |-> IF p = "desired" THEN "fetch" ELSE "idle"]
    /\ stage = "base"
    /\ snapshot = [version |-> 0, data |-> 0]
    /\ normal = << >> /\ urgent = << >>
    /\ normalSlots = 0 /\ urgentSlots = 0
    /\ wake = FALSE
    /\ lane = Popping
    /\ done = [p \in Producers |-> "none"]
    /\ stopping = FALSE
    /\ lease = "none" /\ begun = 0
    /\ version = 0
    /\ committed = 0 /\ unsent = 0
    /\ hubVersion = 1
    /\ watch = NoWatch /\ token = FALSE
    /\ leases = 0 /\ troubles = 0

Trouble == troubles < MaxTroubles /\ troubles' = troubles + 1
Goto(p, s) == pc' = [pc EXCEPT ![p] = s]

-----------------------------------------------------------------------------
(* The control plane.                                                      *)

\* A request commits a change of the gateway's desired state ...
Commit ==
    /\ ~stopping
    /\ committed < MaxCommits
    /\ committed' = committed + 1
    /\ unsent' = unsent + 1
    /\ UNCHANGED <<pc, stage, snapshot, queues, lane, done, stopping, guard,
                   version, hubVersion, watch, token, troubles>>

\* ... and notifies: the version is bumped and the subscriber signalled.
Notify ==
    /\ ~stopping
    /\ unsent > 0
    /\ unsent' = unsent - 1
    /\ hubVersion' = hubVersion + 1
    /\ token' = (token \/ watch.at # "none")
    /\ UNCHANGED <<pc, stage, snapshot, queues, lane, done, stopping, guard,
                   version, committed, watch, troubles>>

\* Faulty variant: every hub counts from the same number.
RebootAtOne ==
    /\ ~stopping
    /\ Trouble
    /\ unsent' = 0
    /\ hubVersion' = 1
    /\ watch' = NoWatch
    /\ token' = FALSE
    /\ UNCHANGED <<pc, stage, snapshot, queues, lane, done, stopping, guard,
                   version, committed>>

\* The control plane restarts, perhaps between a commit and its Notify, and
\* the new hub counts from a later start time.
Reboot ==
    /\ ~stopping
    /\ Trouble
    /\ unsent' = 0
    /\ hubVersion' = hubVersion + 1
    /\ watch' = NoWatch
    /\ token' = FALSE
    /\ UNCHANGED <<pc, stage, snapshot, queues, lane, done, stopping, guard,
                   version, committed>>

\* The handler of the long poll compares the version once it is subscribed,
\* and answers at once or parks.
WatchCompare ==
    /\ watch.at = "subscribed"
    /\ IF hubVersion # watch.since
       THEN /\ watch' = NoWatch
            /\ token' = FALSE
            /\ Goto("desired", "fetch")
       ELSE /\ watch' = [watch EXCEPT !.at = "parked"]
            /\ UNCHANGED <<token, pc>>
    /\ UNCHANGED <<stage, snapshot, queues, lane, done, stopping, guard,
                   version, committed, unsent, hubVersion,
                   troubles>>

\* A parked poll is answered on a signal, or after watchHold; either way the
\* agent fetches again.
WatchAnswer ==
    /\ watch.at = "parked"
    /\ watch' = NoWatch
    /\ token' = FALSE
    /\ Goto("desired", "fetch")
    /\ UNCHANGED <<stage, snapshot, queues, lane, done, stopping, guard,
                   version, committed, unsent, hubVersion,
                   troubles>>

-----------------------------------------------------------------------------
(* The producers.                                                          *)

\* FetchDesired: the handler reads the hub's version ...
FetchVersion ==
    /\ pc["desired"] = "fetch"
    /\ snapshot' = [snapshot EXCEPT !.version = hubVersion]
    /\ Goto("desired", "read")
    /\ UNCHANGED <<stage, queues, lane, done, stopping, guard, version,
                   api, troubles>>

\* ... and then the data that goes with it.
FetchData ==
    /\ pc["desired"] = "read"
    /\ snapshot' = [snapshot EXCEPT !.data = committed]
    /\ Goto("desired", "slot")
    /\ UNCHANGED <<stage, queues, lane, done, stopping, guard, version,
                   api, troubles>>

\* The fetch fails.  At startup the agent stops; later it watches again.
FetchFail ==
    /\ pc["desired"] \in {"fetch", "read"}
    /\ Trouble \/ (stopping /\ UNCHANGED troubles)
    /\ stopping' = (stopping \/ stage = "base")
    /\ Goto("desired", IF stopping' THEN "gone" ELSE "watch")
    /\ UNCHANGED <<stage, snapshot, queues, lane, done, guard, version,
                   api>>

\* The agent polls with the version of its last snapshot; the handler
\* subscribes before it looks at its own.
WatchBegin ==
    /\ pc["desired"] = "watch"
    /\ watch = NoWatch
    /\ ~stopping
    /\ watch' = [at |-> "subscribed", since |-> version]
    /\ UNCHANGED <<pc, stage, snapshot, queues, lane, done, stopping, guard,
                   version, committed, unsent, hubVersion, token,
                   troubles>>

\* The poll fails, and after the backoff the agent polls again.
WatchFail ==
    /\ watch # NoWatch
    /\ Trouble
    /\ watch' = NoWatch
    /\ token' = FALSE
    /\ UNCHANGED <<pc, stage, snapshot, queues, lane, done, stopping, guard,
                   version, committed, unsent, hubVersion>>

\* The reconcile interval cancels the poll and fetches.
Interval ==
    /\ pc["desired"] = "watch"
    /\ ~stopping
    /\ watch' = NoWatch
    /\ token' = FALSE
    /\ Goto("desired", "fetch")
    /\ UNCHANGED <<stage, snapshot, queues, lane, done, stopping, guard,
                   version, committed, unsent, hubVersion,
                   troubles>>

\* Another producer's ticker fires.
Tick(p) ==
    /\ p # "desired"
    /\ stage = "run"
    /\ pc[p] = "idle"
    /\ ~stopping
    /\ p = "owner" => leases < MaxLeases
    /\ Goto(p, "slot")
    /\ UNCHANGED <<stage, snapshot, queues, lane, done, stopping, guard,
                   version, api, troubles>>

-----------------------------------------------------------------------------
(* enqueue, and the wait for the answer.                                   *)

\* Faulty variant: a full queue is no reason to wait.
TakeSlotOrGo(p) ==
    /\ pc[p] = "slot"
    /\ urgentSlots' = IF p = "watchdog" /\ urgentSlots < UrgentSlots
                      THEN urgentSlots + 1 ELSE urgentSlots
    /\ normalSlots' = IF p # "watchdog" /\ normalSlots < NormalSlots
                      THEN normalSlots + 1 ELSE normalSlots
    /\ Goto(p, "append")
    /\ UNCHANGED <<stage, snapshot, normal, urgent, wake, lane, done,
                   stopping, guard, version, api, troubles>>

\* A producer waits for a slot of its class.
TakeSlot(p) ==
    /\ pc[p] = "slot"
    /\ IF p = "watchdog"
       THEN /\ urgentSlots < UrgentSlots
            /\ urgentSlots' = urgentSlots + 1
            /\ UNCHANGED normalSlots
       ELSE /\ normalSlots < NormalSlots
            /\ normalSlots' = normalSlots + 1
            /\ UNCHANGED urgentSlots
    /\ Goto(p, "append")
    /\ UNCHANGED <<stage, snapshot, normal, urgent, wake, lane, done,
                   stopping, guard, version, api, troubles>>

\* Faulty variant: the watchdog queues with the others.
AppendInOrder(p) ==
    /\ pc[p] = "append"
    /\ normal' = Append(normal, p)
    /\ Goto(p, "signal")
    /\ UNCHANGED <<stage, snapshot, urgent, normalSlots, urgentSlots, wake,
                   lane, done, stopping, guard, version, api, troubles>>

AppendCommand(p) ==
    /\ pc[p] = "append"
    /\ IF p = "watchdog"
       THEN urgent' = Append(urgent, p) /\ UNCHANGED normal
       ELSE normal' = Append(normal, p) /\ UNCHANGED urgent
    /\ Goto(p, "signal")
    /\ UNCHANGED <<stage, snapshot, normalSlots, urgentSlots, wake, lane,
                   done, stopping, guard, version, api, troubles>>

\* Faulty variant: the channel has no buffer, and a wake-up that finds nobody
\* waiting is dropped.
SignalUnbuffered(p) ==
    /\ pc[p] = "signal"
    /\ wake' = (wake \/ lane.at = "sleep")
    /\ Goto(p, "wait")
    /\ UNCHANGED <<stage, snapshot, normal, urgent, normalSlots, urgentSlots,
                   lane, done, stopping, guard, version, api, troubles>>

\* The wake-up is one token; a second one is dropped.
Signal(p) ==
    /\ pc[p] = "signal"
    /\ wake' = TRUE
    /\ Goto(p, "wait")
    /\ UNCHANGED <<stage, snapshot, normal, urgent, normalSlots, urgentSlots,
                   lane, done, stopping, guard, version, api, troubles>>

\* Where a producer goes after its command: the startup goes from the base to
\* the lease and then to the producers, and stops the agent when one fails.
After(p, ok) ==
    IF p # "desired" THEN "idle"
    ELSE CASE stage = "base" -> IF ok THEN "slot" ELSE "gone"
           [] stage = "lease" -> IF ok THEN "fetch" ELSE "gone"
           [] OTHER -> "watch"

Return(p) ==
    /\ pc[p] = "wait"
    /\ done[p] # "none"
    /\ LET ok == done[p] = "ok"
       IN  /\ stopping' = (stopping \/ (p = "desired" /\ stage # "run" /\ ~ok))
           /\ Goto(p, IF stopping' THEN "gone" ELSE After(p, ok))
           /\ stage' = IF p # "desired" \/ ~ok THEN stage
                       ELSE IF stage = "base" THEN "lease" ELSE "run"
    /\ done' = [done EXCEPT ![p] = "none"]
    /\ UNCHANGED <<snapshot, queues, lane, guard, version, api, troubles>>

\* Faulty variant: the wait for the answer has no way out.
GiveUpQueued(p) ==
    /\ stopping
    /\ pc[p] \in {"idle", "slot", "watch"}
    /\ Goto(p, "gone")
    /\ IF p = "desired" THEN watch' = NoWatch /\ token' = FALSE
       ELSE UNCHANGED <<watch, token>>
    /\ UNCHANGED <<stage, snapshot, queues, lane, done, stopping, guard,
                   version, committed, unsent, hubVersion,
                   troubles>>

\* The context of the agent ends every wait of a producer.
GiveUp(p) ==
    /\ stopping
    /\ pc[p] \in {"idle", "slot", "wait", "watch"}
    /\ Goto(p, "gone")
    /\ IF p = "desired" THEN watch' = NoWatch /\ token' = FALSE
       ELSE UNCHANGED <<watch, token>>
    /\ UNCHANGED <<stage, snapshot, queues, lane, done, stopping, guard,
                   version, committed, unsent, hubVersion,
                   troubles>>

-----------------------------------------------------------------------------
(* The lane.                                                               *)

Begins(p) ==
    LET guarded == p # "watchdog" /\ lease # "none"
    IN  /\ lane' = [at |-> "run", cmd |-> p, guarded |-> guarded,
                    due |-> lease = "expired"]
        /\ begun' = IF p # "watchdog" /\ lease = "expired"
                    THEN begun + 1 ELSE begun
        /\ version' = IF p = "desired" /\ stage # "lease"
                      THEN snapshot.version ELSE version

\* The lane takes the first urgent command, or the first normal one, and the
\* slot of it, and runs it under the deadline of the lease.  A desired state
\* leaves its version first.
LanePop ==
    /\ lane.at = "pop"
    /\ ~stopping
    /\ \/ /\ urgent # << >>
          /\ urgentSlots > 0
          /\ urgent' = Tail(urgent)
          /\ urgentSlots' = urgentSlots - 1
          /\ Begins(Head(urgent))
          /\ UNCHANGED <<normal, normalSlots>>
       \/ /\ urgent = << >> /\ normal # << >>
          /\ normalSlots > 0
          /\ normal' = Tail(normal)
          /\ normalSlots' = normalSlots - 1
          /\ Begins(Head(normal))
          /\ UNCHANGED <<urgent, urgentSlots>>
    /\ UNCHANGED <<pc, stage, snapshot, wake, done, stopping, lease, leases,
                   api, troubles>>

\* The lane finds both queues empty under the mutex, lets go of it, and only
\* then waits for the wake-up.
LaneFindsNothing ==
    /\ lane.at = "pop"
    /\ urgent = << >> /\ normal = << >>
    /\ lane' = [Asleep EXCEPT !.at = "empty"]
    /\ UNCHANGED <<pc, stage, snapshot, queues, done, stopping, guard, version,
                   api, troubles>>

LaneSleep ==
    /\ lane.at = "empty"
    /\ lane' = Asleep
    /\ UNCHANGED <<pc, stage, snapshot, queues, done, stopping, guard, version,
                   api, troubles>>

LaneWake ==
    /\ lane.at = "sleep"
    /\ wake
    /\ wake' = FALSE
    /\ lane' = Popping
    /\ UNCHANGED <<pc, stage, snapshot, normal, urgent, normalSlots,
                   urgentSlots, done, stopping, guard, version, api,
                   troubles>>

\* Lifecycle.Check, and the withdrawal it may owe.
CheckLease(ok) ==
    /\ lease' = IF lease = "expired" /\ ok THEN "none" ELSE lease
    /\ begun' = 0

\* A command installs a lease, or the startup finds a valid one.
Install ==
    /\ leases < MaxLeases
    /\ leases' = leases + 1
    /\ lease' = "held"
    /\ begun' = 0

\* What a command that succeeds changes.
Effect(p) ==
    CASE p = "desired" -> (stage = "lease" /\ Install) \/ UNCHANGED guard
      [] p = "owner" -> Install
      [] p = "watchdog" -> CheckLease(TRUE) /\ UNCHANGED leases

\* What a command that fails, or whose context is done, leaves behind.  A
\* failed installation withdraws.
Failure(p) ==
    /\ lease' \in IF p = "owner" THEN {"none", lease} ELSE {lease}
    /\ begun' = IF p = "watchdog" \/ lease' = "none" THEN 0 ELSE begun
    /\ UNCHANGED leases

\* Faulty variant: the lane goes on to the next command whatever the clock.
NextIsPop == [lane EXCEPT !.at = "pop", !.cmd = "none"]

\* A normal command that ended past the deadline it began with hands the lane
\* to the check of the lease.
Handover ==
    IF lane.guarded /\ lane.due /\ ~stopping
    THEN [lane EXCEPT !.at = "check", !.cmd = "none"]
    ELSE Popping

LaneEnd ==
    /\ lane.at = "run"
    /\ LET p == lane.cmd
           dead == (lane.guarded /\ lane.due) \/ stopping
       IN  /\ \/ Effect(p) /\ UNCHANGED troubles
                 /\ done' = [done EXCEPT ![p] = "ok"]
              \/ Failure(p) /\ (Trouble \/ (dead /\ UNCHANGED troubles))
                 /\ done' = [done EXCEPT ![p] = IF stage = "run" THEN "ok"
                                                ELSE "failed"]
    /\ lane' = Handover
    /\ UNCHANGED <<pc, stage, snapshot, queues, stopping, version, api>>

LaneCheck ==
    /\ lane.at = "check"
    /\ \/ CheckLease(TRUE) /\ UNCHANGED troubles
       \/ CheckLease(FALSE) /\ Trouble
    /\ lane' = Popping
    /\ UNCHANGED <<pc, stage, snapshot, queues, done, stopping, leases, version, api>>

\* The lane returns between two commands once the context is done.
LaneStops ==
    /\ stopping
    /\ lane.at \in {"pop", "sleep"}
    /\ lane' = [Asleep EXCEPT !.at = "gone"]
    /\ UNCHANGED <<pc, stage, snapshot, queues, done, stopping, guard, version, api, troubles>>

-----------------------------------------------------------------------------

\* The deadline passes; a command that runs under it is due from here on.
Expire ==
    /\ ~stopping
    /\ lease = "held"
    /\ lease' = "expired"
    /\ lane' = IF lane.at = "run" /\ lane.guarded
               THEN [lane EXCEPT !.due = TRUE] ELSE lane
    /\ UNCHANGED <<pc, stage, snapshot, queues, done, stopping, begun, leases,
                   version, api, troubles>>

\* The process is told to end.
Stop ==
    /\ ~stopping
    /\ stopping' = TRUE
    /\ UNCHANGED <<pc, stage, snapshot, queues, lane, done, guard, version, api, troubles>>

LaneNext ==
    \/ LanePop \/ LaneFindsNothing \/ LaneSleep \/ LaneWake
    \/ LaneEnd \/ LaneCheck \/ LaneStops

Submit(p) ==
    \/ TakeSlot(p) \/ AppendCommand(p) \/ Signal(p) \/ Return(p) \/ GiveUp(p)

Next ==
    \/ Commit \/ Notify \/ Reboot \/ WatchCompare \/ WatchAnswer
    \/ FetchVersion \/ FetchData \/ FetchFail
    \/ WatchBegin \/ WatchFail \/ Interval
    \/ \E p \in Producers : Tick(p) \/ Submit(p)
    \/ LaneNext \/ Expire \/ Stop

Spec == Init /\ [][Next]_vars

\* The lane's goroutine runs and its commands end, a producer that submits
\* goes on when it can, a fetch returns, and the watchdog's ticker fires.
FairSpec ==
    /\ Spec
    /\ WF_vars(LaneNext)
    /\ \A p \in Producers : WF_vars(Submit(p))
    /\ WF_vars(FetchVersion \/ FetchData)
    /\ WF_vars(Tick("watchdog"))

-----------------------------------------------------------------------------
(* Properties.                                                             *)

\* The lane never sleeps over a command: with no wake-up in the channel, the
\* queues hold at most commands whose producer is about to signal.
NoLostWake ==
    lane.at = "sleep" /\ ~wake =>
        \A p \in Producers :
            (\E i \in DOMAIN normal : normal[i] = p)
              \/ (\E i \in DOMAIN urgent : urgent[i] = p)
            => pc[p] = "signal"

\* pop takes a slot's token while it holds the mutex that every producer
\* needs, and never waits for it: each queued command brought its own.
SlotsCoverQueues ==
    /\ Len(normal) <= normalSlots
    /\ Len(urgent) <= urgentSlots

\* A poll parks only on current data: with no signal in its channel and no
\* commit whose Notify is still to come, the snapshot the agent took its
\* version from is the last commit, through a control plane that restarted
\* between a commit and its Notify.
ParkedIsCurrent ==
    watch.at = "parked" /\ ~token /\ unsent = 0 => snapshot.data = committed

\* Between the deadline of a lease and the next check of it the lane begins
\* at most one normal command, whose context is done before it starts.
DeadlineHandsOver == begun <= 1

AllGone == lane.at = "gone" /\ \A p \in Producers : pc[p] = "gone"

\* Nothing waits on the lane for ever: a lease past its deadline is withdrawn
\* however many commands are submitted in whatever order, and an agent that
\* is told to stop does, its lane and every producer of it.
LaneNeverStuck ==
    (lease = "expired" \/ stopping) ~>
        (lease # "expired" /\ ~stopping) \/ AllGone
=============================================================================
