-------------------------- MODULE AgentLaneProofs --------------------------
(***************************************************************************)
(* Proofs about AgentLane for every capacity of the queues and every bound *)
(* on commits, leases and troubles: no lost wake-up, no pop that waits, at *)
(* most one command past a deadline, and no poll parked on stale data.     *)
(***************************************************************************)
EXTENDS AgentLane, TLAPS

\* A producer's command, from its append to its answer.
InQueue(q, p) == \E i \in DOMAIN q : q[i] = p
Queued(p)     == InQueue(normal, p) \/ InQueue(urgent, p)
Runs(p)       == lane.at = "run" /\ lane.cmd = p
Distinct(q)   == \A i, j \in DOMAIN q : q[i] = q[j] => i = j

\* A token of a queue's slots is a queued command or one about to be queued.
Owed(p) == IF pc[p] = "append" THEN 1 ELSE 0

SlotInv ==
  /\ normalSlots = Len(normal) + Owed("desired") + Owed("owner")
  /\ urgentSlots = Len(urgent) + Owed("watchdog")

\* From the moment the lane found its queues empty, a queued command without
\* a wake-up in the channel is one whose producer is about to signal.
WakeInv ==
  lane.at \in {"empty", "sleep"} /\ ~wake => \A p \in Producers : Queued(p) => pc[p] = "signal"

\* A normal command begun past the deadline is under way with its context
\* done, or the lane is about to check the lease, or the agent stops.
GuardInv ==
  /\ lane.at = "run" => lane.cmd \in Producers
  /\ begun <= 1
  /\ begun > 0 => \/ lane.at = "run" /\ lane.cmd # "watchdog" /\ lane.guarded /\ lane.due
                  \/ lane.at = "check"
                  \/ stopping

\* A producer has one command at a time, in one place, and waits for it.
CommandInv ==
  ~stopping =>
    /\ Distinct(normal) /\ Distinct(urgent)
    /\ \A p \in Producers :
         /\ Queued(p) \/ Runs(p) \/ done[p] # "none" => pc[p] \in {"signal", "wait"}
         /\ Queued(p) => ~Runs(p) /\ done[p] = "none"
         /\ Runs(p) => done[p] = "none"

\* The poll of a waiting agent asks for the version it applied; parked with no
\* signal in its channel, for the hub's own.
WatchInv ==
  /\ watch = NoWatch \/ /\ watch.at # "none"
                        /\ pc["desired"] = "watch"
                        /\ watch.since = version
  /\ watch.at = "parked" /\ ~token => watch.since = hubVersion

\* Versions are never ahead of the hub's; one that is the hub's own goes with
\* the last commit, unless a Notify is still to come.
FreshInv ==
  /\ snapshot.version <= hubVersion /\ version <= hubVersion
  /\ unsent = 0 /\ version = hubVersion => snapshot.data = committed
  /\ unsent = 0 /\ snapshot.version = hubVersion /\ pc["desired"] \in Submitting =>
       snapshot.data = committed

IInv ==
  TypeOK /\ SlotInv /\ WakeInv /\ GuardInv /\ CommandInv /\ WatchInv /\ FreshInv

-----------------------------------------------------------------------------
\* The initial state satisfies the inductive invariant.
LEMMA InitIInv == Init => IInv
<1> SUFFICES ASSUME Init PROVE IInv
  OBVIOUS
<1> USE Bounds DEF Init
<1>1. TypeOK
  <2>1. lane \in LaneStates
    BY DEF Popping, Asleep, LaneStates
  <2>2. watch \in Polls
    BY DEF NoWatch, Polls
  <2>3. pc \in [Producers -> Steps]
    BY DEF Steps
  <2>4. snapshot \in Snapshots
    BY DEF Snapshots
  <2>5. /\ normal \in Seq(Producers \ {"watchdog"}) /\ urgent \in Seq({"watchdog"})
        /\ done \in [Producers -> {"none", "ok", "failed"}]
    OBVIOUS
  <2>6. normalSlots \in 0 .. NormalSlots /\ urgentSlots \in 0 .. UrgentSlots
    OBVIOUS
  <2> QED
    BY <2>1, <2>2, <2>3, <2>4, <2>5, <2>6 DEF TypeOK
<1>2. SlotInv
  BY DEF SlotInv, Owed, Producers
<1>3. \A p : ~Queued(p) /\ ~Runs(p)
  BY DEF Queued, InQueue, Runs, Popping, Asleep
<1>4. Distinct(normal) /\ Distinct(urgent)
  BY DEF Distinct
<1>5. CommandInv
  BY <1>3, <1>4 DEF CommandInv, Distinct
<1>6. WakeInv /\ GuardInv
  BY DEF WakeInv, GuardInv, Popping, Asleep
<1>7. WatchInv /\ FreshInv
  BY DEF WatchInv, FreshInv, NoWatch
<1> QED
  BY <1>1, <1>2, <1>5, <1>6, <1>7 DEF IInv

-----------------------------------------------------------------------------
(* Facts about the queues and the fields of the lane.                      *)

\* What Append does to a queue.
LEMMA AppendFacts ==
  ASSUME NEW S, NEW q \in Seq(S), NEW p \in S
  PROVE  /\ Append(q, p) \in Seq(S) /\ Len(Append(q, p)) = Len(q) + 1
         /\ \A x : InQueue(Append(q, p), x) <=> InQueue(q, x) \/ x = p
         /\ Distinct(q) /\ ~InQueue(q, p) => Distinct(Append(q, p))
<1>1. /\ Append(q, p) \in Seq(S) /\ Len(Append(q, p)) = Len(q) + 1 /\ Len(q) \in Nat
      /\ DOMAIN q = 1 .. Len(q) /\ DOMAIN Append(q, p) = 1 .. Len(q) + 1
  OBVIOUS
<1>2. /\ Append(q, p)[Len(q) + 1] = p
      /\ \A i \in 1 .. Len(q) : Append(q, p)[i] = q[i]
  OBVIOUS
<1>3. ASSUME NEW x PROVE InQueue(Append(q, p), x) <=> InQueue(q, x) \/ x = p
  <2>1. ASSUME InQueue(Append(q, p), x) PROVE InQueue(q, x) \/ x = p
    BY <1>1, <1>2, <2>1 DEF InQueue
  <2>2. ASSUME InQueue(q, x) \/ x = p PROVE InQueue(Append(q, p), x)
    BY <1>1, <1>2, <2>2 DEF InQueue
  <2> QED
    BY <2>1, <2>2
<1>4. ASSUME Distinct(q), ~InQueue(q, p) PROVE Distinct(Append(q, p))
  BY <1>1, <1>2, <1>4 DEF Distinct, InQueue
<1> QED
  BY <1>1, <1>3, <1>4

\* What taking the first command does to it.
LEMMA TailFacts ==
  ASSUME NEW S, NEW q \in Seq(S), q # << >>
  PROVE  /\ Tail(q) \in Seq(S) /\ Len(q) \in Nat /\ Len(Tail(q)) = Len(q) - 1
         /\ Head(q) \in S /\ InQueue(q, Head(q))
         /\ \A x : InQueue(Tail(q), x) => InQueue(q, x)
         /\ Distinct(q) => Distinct(Tail(q)) /\ ~InQueue(Tail(q), Head(q))
<1>1. /\ Tail(q) \in Seq(S) /\ Len(q) \in Nat \ {0} /\ Len(Tail(q)) = Len(q) - 1
      /\ DOMAIN q = 1 .. Len(q) /\ DOMAIN Tail(q) = 1 .. Len(q) - 1
      /\ Head(q) = q[1] /\ q[1] \in S
  OBVIOUS
<1>2. \A i \in 1 .. Len(q) - 1 : Tail(q)[i] = q[i + 1]
  OBVIOUS
<1>3. InQueue(q, Head(q))
  BY <1>1 DEF InQueue
<1>4. \A x : InQueue(Tail(q), x) => InQueue(q, x)
  BY <1>1, <1>2 DEF InQueue
<1>5. ASSUME Distinct(q) PROVE Distinct(Tail(q)) /\ ~InQueue(Tail(q), Head(q))
  BY <1>1, <1>2, <1>5 DEF Distinct, InQueue
<1> QED
  BY <1>1, <1>3, <1>4, <1>5

\* A producer goes to another step.
LEMMA GotoFacts ==
  ASSUME TypeOK, NEW p \in Producers, NEW s \in Steps, Goto(p, s)
  PROVE  /\ pc' \in [Producers -> Steps] /\ pc'[p] = s
         /\ \A x \in Producers \ {p} : pc'[x] = pc[x]
BY DEF TypeOK, Goto

\* A poll under way is the waiting agent's.
LEMMA Polling == ASSUME IInv, watch.at # "none" PROVE pc["desired"] = "watch"
BY DEF IInv, WatchInv, NoWatch

\* The values the lane and the poll are reset to.
LEMMA Constants ==
  /\ NoWatch \in Polls
  /\ \A a \in {"pop", "empty", "sleep", "gone"} :
       [Asleep EXCEPT !.at = a] \in LaneStates
BY DEF NoWatch, Asleep, Polls, LaneStates


\* Every step preserves it: one case per action, one step per conjunct.
LEMMA StepIInv == IInv /\ [Next]_vars => IInv'
<1> SUFFICES ASSUME IInv, [Next]_vars PROVE IInv'
  OBVIOUS
<1> USE Bounds DEF queues, guard, Asleep, Popping, NoWatch
<1>1. CASE Commit
  <2>1. TypeOK'
    BY <1>1 DEF IInv, TypeOK, Producers, Steps, Submitting, Snapshots,
       LaneStates, Polls, Commit
  <2>2. SlotInv'
    BY <1>1 DEF IInv, SlotInv, TypeOK, WatchInv, Owed, Producers, Commit
  <2>3. WakeInv'
    BY <1>1 DEF IInv, WakeInv, TypeOK, WatchInv, Queued, InQueue, Producers,
       Commit
  <2>4. GuardInv'
    BY <1>1 DEF IInv, GuardInv, TypeOK, LaneStates, Commit
  <2>5. CommandInv'
    BY <1>1 DEF IInv, CommandInv, TypeOK, WatchInv, Queued, InQueue, Runs,
       Distinct, Producers, GuardInv, Commit
  <2>6. WatchInv'
    BY <1>1 DEF IInv, WatchInv, TypeOK, Polls, CommandInv, Queued, InQueue,
       Producers, Commit
  <2>7. FreshInv'
    BY <1>1 DEF IInv, FreshInv, TypeOK, Snapshots, Polls, CommandInv, WatchInv,
       Queued, InQueue, Submitting, Producers, Commit
  <2> QED
    BY <2>1, <2>2, <2>3, <2>4, <2>5, <2>6, <2>7 DEF IInv
<1>2. CASE Notify
  <2>1. TypeOK'
    BY <1>2 DEF IInv, TypeOK, Producers, Steps, Submitting, Snapshots,
       LaneStates, Polls, Notify
  <2>2. SlotInv'
    BY <1>2 DEF IInv, SlotInv, TypeOK, WatchInv, Owed, Producers, Notify
  <2>3. WakeInv'
    BY <1>2 DEF IInv, WakeInv, TypeOK, WatchInv, Queued, InQueue, Producers,
       Notify
  <2>4. GuardInv'
    BY <1>2 DEF IInv, GuardInv, TypeOK, LaneStates, Notify
  <2>5. CommandInv'
    BY <1>2 DEF IInv, CommandInv, TypeOK, WatchInv, Queued, InQueue, Runs,
       Distinct, Producers, GuardInv, Notify
  <2>6. WatchInv'
    BY <1>2 DEF IInv, WatchInv, TypeOK, Polls, CommandInv, Queued, InQueue,
       Producers, Notify
  <2>7. FreshInv'
    BY <1>2 DEF IInv, FreshInv, TypeOK, Snapshots, Polls, CommandInv, WatchInv,
       Queued, InQueue, Submitting, Producers, Notify
  <2> QED
    BY <2>1, <2>2, <2>3, <2>4, <2>5, <2>6, <2>7 DEF IInv
<1>3. CASE Reboot
  <2>1. TypeOK'
    <3>1. troubles' \in Nat /\ hubVersion' \in Nat /\ unsent' \in Nat
      BY <1>3 DEF IInv, TypeOK, Reboot, Trouble
    <3> QED
      BY <1>3, <3>1, Constants DEF IInv, TypeOK, Reboot
  <2>2. SlotInv'
    BY <1>3 DEF IInv, SlotInv, TypeOK, WatchInv, Owed, Producers, Reboot,
       Trouble
  <2>3. WakeInv'
    BY <1>3 DEF IInv, WakeInv, TypeOK, WatchInv, Queued, InQueue, Producers,
       Reboot, Trouble
  <2>4. GuardInv'
    BY <1>3 DEF IInv, GuardInv, TypeOK, LaneStates, Reboot, Trouble
  <2>5. CommandInv'
    BY <1>3 DEF IInv, CommandInv, TypeOK, WatchInv, Queued, InQueue, Runs,
       Distinct, Producers, GuardInv, Reboot, Trouble
  <2>6. WatchInv'
    BY <1>3 DEF IInv, WatchInv, TypeOK, Polls, CommandInv, Queued, InQueue,
       Producers, Reboot, Trouble
  <2>7. FreshInv'
    BY <1>3 DEF IInv, FreshInv, TypeOK, Snapshots, Polls, CommandInv, WatchInv,
       Queued, InQueue, Submitting, Producers, Reboot, Trouble
  <2> QED
    BY <2>1, <2>2, <2>3, <2>4, <2>5, <2>6, <2>7 DEF IInv
<1>4. CASE WatchCompare
  <2>1. TypeOK'
    <3>1. watch' \in Polls
      BY <1>4, Constants DEF IInv, TypeOK, Polls, WatchCompare
    <3>2. pc' \in [Producers -> Steps] /\ token' \in BOOLEAN
      BY <1>4 DEF IInv, TypeOK, Producers, Steps, WatchCompare, Goto
    <3> QED
      BY <1>4, <3>1, <3>2 DEF IInv, TypeOK, WatchCompare
  <2>2. SlotInv'
    <3>1. pc["desired"] = "watch"
      BY <1>4, Polling DEF WatchCompare
    <3>2. \A p \in Producers : Owed(p)' = Owed(p)
      BY <1>4, <3>1 DEF IInv, TypeOK, Owed, Producers, WatchCompare, Goto
    <3> QED
      BY <1>4, <3>2 DEF IInv, SlotInv, Producers, WatchCompare
  <2>3. WakeInv'
    <3>1. pc["desired"] = "watch"
      BY <1>4, Polling DEF WatchCompare
    <3>2. \A p \in Producers : pc[p] = "signal" => pc'[p] = "signal"
      BY <1>4, <3>1 DEF IInv, TypeOK, WatchCompare, Goto
    <3> QED
      BY <1>4, <3>2 DEF IInv, WakeInv, Queued, InQueue, WatchCompare
  <2>4. GuardInv'
    BY <1>4 DEF IInv, GuardInv, TypeOK, LaneStates, WatchCompare, Goto
  <2>5. CommandInv'
    <3>1. pc["desired"] = "watch"
      BY <1>4, Polling DEF WatchCompare
    <3>2. \A p \in Producers : pc[p] \in {"signal", "wait"} => pc'[p] = pc[p]
      BY <1>4, <3>1 DEF IInv, TypeOK, WatchCompare, Goto
    <3> QED
      BY <1>4, <3>2 DEF IInv, CommandInv, Queued, InQueue, Runs, Distinct,
         WatchCompare
  <2>6. WatchInv'
    BY <1>4 DEF IInv, WatchInv, TypeOK, Polls, CommandInv, Queued, InQueue,
       Producers, WatchCompare, Goto
  <2>7. FreshInv'
    BY <1>4 DEF IInv, FreshInv, TypeOK, Snapshots, Polls, CommandInv, WatchInv,
       Queued, InQueue, Submitting, Producers, WatchCompare, Goto
  <2> QED
    BY <2>1, <2>2, <2>3, <2>4, <2>5, <2>6, <2>7 DEF IInv
<1>5. CASE WatchAnswer
  <2>1. TypeOK'
    <3>1. watch' \in Polls
      BY <1>5, Constants DEF IInv, TypeOK, Polls, WatchAnswer
    <3>2. pc' \in [Producers -> Steps] /\ token' \in BOOLEAN
      BY <1>5 DEF IInv, TypeOK, Producers, Steps, WatchAnswer, Goto
    <3> QED
      BY <1>5, <3>1, <3>2 DEF IInv, TypeOK, WatchAnswer
  <2>2. SlotInv'
    <3>1. pc["desired"] = "watch"
      BY <1>5, Polling DEF WatchAnswer
    <3>2. \A p \in Producers : Owed(p)' = Owed(p)
      BY <1>5, <3>1 DEF IInv, TypeOK, Owed, Producers, WatchAnswer, Goto
    <3> QED
      BY <1>5, <3>2 DEF IInv, SlotInv, Producers, WatchAnswer
  <2>3. WakeInv'
    BY <1>5 DEF IInv, WakeInv, TypeOK, WatchInv, Queued, InQueue, Producers,
       WatchAnswer, Goto
  <2>4. GuardInv'
    BY <1>5 DEF IInv, GuardInv, TypeOK, LaneStates, WatchAnswer, Goto
  <2>5. CommandInv'
    BY <1>5 DEF IInv, CommandInv, TypeOK, WatchInv, Queued, InQueue, Runs,
       Distinct, Producers, GuardInv, WatchAnswer, Goto
  <2>6. WatchInv'
    BY <1>5 DEF IInv, WatchInv, TypeOK, Polls, CommandInv, Queued, InQueue,
       Producers, WatchAnswer, Goto
  <2>7. FreshInv'
    BY <1>5 DEF IInv, FreshInv, TypeOK, Snapshots, Polls, CommandInv, WatchInv,
       Queued, InQueue, Submitting, Producers, WatchAnswer, Goto
  <2> QED
    BY <2>1, <2>2, <2>3, <2>4, <2>5, <2>6, <2>7 DEF IInv
<1>6. CASE FetchVersion
  <2>1. TypeOK'
    <3>1. snapshot' \in Snapshots
      BY <1>6 DEF IInv, TypeOK, Snapshots, FetchVersion
    <3>2. pc' \in [Producers -> Steps]
      BY <1>6 DEF IInv, TypeOK, Producers, Steps, FetchVersion, Goto
    <3> QED
      BY <1>6, <3>1, <3>2 DEF IInv, TypeOK, FetchVersion, api
  <2>2. SlotInv'
    BY <1>6 DEF IInv, SlotInv, TypeOK, WatchInv, Owed, Producers, FetchVersion,
       Goto, api
  <2>3. WakeInv'
    BY <1>6 DEF IInv, WakeInv, TypeOK, WatchInv, Queued, InQueue, Producers,
       FetchVersion, Goto, api
  <2>4. GuardInv'
    BY <1>6 DEF IInv, GuardInv, TypeOK, LaneStates, FetchVersion, Goto, api
  <2>5. CommandInv'
    BY <1>6 DEF IInv, CommandInv, TypeOK, WatchInv, Queued, InQueue, Runs,
       Distinct, Producers, GuardInv, FetchVersion, Goto, api
  <2>6. WatchInv'
    BY <1>6 DEF IInv, WatchInv, TypeOK, Polls, CommandInv, Queued, InQueue,
       Producers, FetchVersion, Goto, api
  <2>7. FreshInv'
    BY <1>6 DEF IInv, FreshInv, TypeOK, Snapshots, Polls, CommandInv, WatchInv,
       Queued, InQueue, Submitting, Producers, FetchVersion, Goto, api
  <2> QED
    BY <2>1, <2>2, <2>3, <2>4, <2>5, <2>6, <2>7 DEF IInv
<1>7. CASE FetchData
  <2>1. TypeOK'
    <3>1. snapshot' \in Snapshots
      BY <1>7 DEF IInv, TypeOK, Snapshots, FetchData
    <3>2. pc' \in [Producers -> Steps]
      BY <1>7 DEF IInv, TypeOK, Producers, Steps, Submitting, FetchData, Goto
    <3> QED
      BY <1>7, <3>1, <3>2 DEF IInv, TypeOK, FetchData, api
  <2>2. SlotInv'
    BY <1>7 DEF IInv, SlotInv, TypeOK, WatchInv, Owed, Producers, FetchData,
       Goto, api
  <2>3. WakeInv'
    BY <1>7 DEF IInv, WakeInv, TypeOK, WatchInv, Queued, InQueue, Producers,
       FetchData, Goto, api
  <2>4. GuardInv'
    BY <1>7 DEF IInv, GuardInv, TypeOK, LaneStates, FetchData, Goto, api
  <2>5. CommandInv'
    BY <1>7 DEF IInv, CommandInv, TypeOK, WatchInv, Queued, InQueue, Runs,
       Distinct, Producers, GuardInv, FetchData, Goto, api
  <2>6. WatchInv'
    BY <1>7 DEF IInv, WatchInv, TypeOK, Polls, CommandInv, Queued, InQueue,
       Producers, FetchData, Goto, api
  <2>7. FreshInv'
    BY <1>7 DEF IInv, FreshInv, TypeOK, Snapshots, Polls, CommandInv, WatchInv,
       Queued, InQueue, Submitting, Producers, FetchData, Goto, api
  <2> QED
    BY <2>1, <2>2, <2>3, <2>4, <2>5, <2>6, <2>7 DEF IInv
<1>8. CASE FetchFail
  <2>1. TypeOK'
    BY <1>8 DEF IInv, TypeOK, Producers, Steps, Submitting, Snapshots,
       LaneStates, Polls, FetchFail, Goto, Trouble, api
  <2>2. SlotInv'
    BY <1>8 DEF IInv, SlotInv, TypeOK, WatchInv, Owed, Producers, FetchFail,
       Goto, Trouble, api
  <2>3. WakeInv'
    BY <1>8 DEF IInv, WakeInv, TypeOK, WatchInv, Queued, InQueue, Producers,
       FetchFail, Goto, Trouble, api
  <2>4. GuardInv'
    BY <1>8 DEF IInv, GuardInv, TypeOK, LaneStates, FetchFail, Goto, Trouble,
       api
  <2>5. CommandInv'
    BY <1>8 DEF IInv, CommandInv, TypeOK, WatchInv, Queued, InQueue, Runs,
       Distinct, Producers, GuardInv, FetchFail, Goto, Trouble, api
  <2>6. WatchInv'
    BY <1>8 DEF IInv, WatchInv, TypeOK, Polls, CommandInv, Queued, InQueue,
       Producers, FetchFail, Goto, Trouble, api
  <2>7. FreshInv'
    BY <1>8 DEF IInv, FreshInv, TypeOK, Snapshots, Polls, CommandInv, WatchInv,
       Queued, InQueue, Submitting, Producers, FetchFail, Goto, Trouble, api
  <2> QED
    BY <2>1, <2>2, <2>3, <2>4, <2>5, <2>6, <2>7 DEF IInv
<1>9. CASE WatchBegin
  <2>1. TypeOK'
    BY <1>9 DEF IInv, TypeOK, Producers, Steps, Submitting, Snapshots,
       LaneStates, Polls, WatchBegin
  <2>2. SlotInv'
    BY <1>9 DEF IInv, SlotInv, TypeOK, WatchInv, Owed, Producers, WatchBegin
  <2>3. WakeInv'
    BY <1>9 DEF IInv, WakeInv, TypeOK, WatchInv, Queued, InQueue, Producers,
       WatchBegin
  <2>4. GuardInv'
    BY <1>9 DEF IInv, GuardInv, TypeOK, LaneStates, WatchBegin
  <2>5. CommandInv'
    BY <1>9 DEF IInv, CommandInv, TypeOK, WatchInv, Queued, InQueue, Runs,
       Distinct, Producers, GuardInv, WatchBegin
  <2>6. WatchInv'
    BY <1>9 DEF IInv, WatchInv, TypeOK, Polls, CommandInv, Queued, InQueue,
       Producers, WatchBegin
  <2>7. FreshInv'
    BY <1>9 DEF IInv, FreshInv, TypeOK, Snapshots, Polls, CommandInv, WatchInv,
       Queued, InQueue, Submitting, Producers, WatchBegin
  <2> QED
    BY <2>1, <2>2, <2>3, <2>4, <2>5, <2>6, <2>7 DEF IInv
<1>10. CASE WatchFail
  <2>1. TypeOK'
    <3>1. troubles' \in Nat
      BY <1>10 DEF IInv, TypeOK, WatchFail, Trouble
    <3> QED
      BY <1>10, <3>1, Constants DEF IInv, TypeOK, WatchFail
  <2>2. SlotInv'
    BY <1>10 DEF IInv, SlotInv, TypeOK, WatchInv, Owed, Producers, WatchFail,
       Trouble
  <2>3. WakeInv'
    BY <1>10 DEF IInv, WakeInv, TypeOK, WatchInv, Queued, InQueue, Producers,
       WatchFail, Trouble
  <2>4. GuardInv'
    BY <1>10 DEF IInv, GuardInv, TypeOK, LaneStates, WatchFail, Trouble
  <2>5. CommandInv'
    BY <1>10 DEF IInv, CommandInv, TypeOK, WatchInv, Queued, InQueue, Runs,
       Distinct, Producers, GuardInv, WatchFail, Trouble
  <2>6. WatchInv'
    BY <1>10 DEF IInv, WatchInv, TypeOK, Polls, CommandInv, Queued, InQueue,
       Producers, WatchFail, Trouble
  <2>7. FreshInv'
    BY <1>10 DEF IInv, FreshInv, TypeOK, Snapshots, Polls, CommandInv,
       WatchInv, Queued, InQueue, Submitting, Producers, WatchFail, Trouble
  <2> QED
    BY <2>1, <2>2, <2>3, <2>4, <2>5, <2>6, <2>7 DEF IInv
<1>11. CASE Interval
  <2>1. TypeOK'
    BY <1>11 DEF IInv, TypeOK, Producers, Steps, Submitting, Snapshots,
       LaneStates, Polls, Interval, Goto
  <2>2. SlotInv'
    BY <1>11 DEF IInv, SlotInv, TypeOK, WatchInv, Owed, Producers, Interval,
       Goto
  <2>3. WakeInv'
    BY <1>11 DEF IInv, WakeInv, TypeOK, WatchInv, Queued, InQueue, Producers,
       Interval, Goto
  <2>4. GuardInv'
    BY <1>11 DEF IInv, GuardInv, TypeOK, LaneStates, Interval, Goto
  <2>5. CommandInv'
    BY <1>11 DEF IInv, CommandInv, TypeOK, WatchInv, Queued, InQueue, Runs,
       Distinct, Producers, GuardInv, Interval, Goto
  <2>6. WatchInv'
    BY <1>11 DEF IInv, WatchInv, TypeOK, Polls, CommandInv, Queued, InQueue,
       Producers, Interval, Goto
  <2>7. FreshInv'
    BY <1>11 DEF IInv, FreshInv, TypeOK, Snapshots, Polls, CommandInv,
       WatchInv, Queued, InQueue, Submitting, Producers, Interval, Goto
  <2> QED
    BY <2>1, <2>2, <2>3, <2>4, <2>5, <2>6, <2>7 DEF IInv
<1>12. ASSUME NEW p \in Producers, Tick(p) PROVE IInv'
  <2>1. TypeOK'
    BY <1>12 DEF IInv, TypeOK, Producers, Steps, Submitting, Snapshots,
       LaneStates, Polls, Tick, Goto, api
  <2>2. SlotInv'
    BY <1>12 DEF IInv, SlotInv, TypeOK, WatchInv, Owed, Producers, Tick, Goto,
       api
  <2>3. WakeInv'
    BY <1>12 DEF IInv, WakeInv, TypeOK, WatchInv, Queued, InQueue, Producers,
       Tick, Goto, api
  <2>4. GuardInv'
    BY <1>12 DEF IInv, GuardInv, TypeOK, LaneStates, Tick, Goto, api
  <2>5. CommandInv'
    BY <1>12 DEF IInv, CommandInv, TypeOK, WatchInv, Queued, InQueue, Runs,
       Distinct, Producers, GuardInv, Tick, Goto, api
  <2>6. WatchInv'
    BY <1>12 DEF IInv, WatchInv, TypeOK, Polls, CommandInv, Queued, InQueue,
       Producers, Tick, Goto, api
  <2>7. FreshInv'
    BY <1>12 DEF IInv, FreshInv, TypeOK, Snapshots, Polls, CommandInv,
       WatchInv, Queued, InQueue, Submitting, Producers, Tick, Goto, api
  <2> QED
    BY <2>1, <2>2, <2>3, <2>4, <2>5, <2>6, <2>7 DEF IInv
<1>13. ASSUME NEW p \in Producers, TakeSlot(p) PROVE IInv'
  <2>1. TypeOK'
    BY <1>13 DEF IInv, TypeOK, Producers, Steps, Submitting, Snapshots,
       LaneStates, Polls, TakeSlot, Goto, api
  <2>2. SlotInv'
    <3>1. TypeOK /\ pc[p] = "slot" /\ Goto(p, "append") /\ "append" \in Steps
      BY <1>13 DEF IInv, TakeSlot, Steps, Submitting
    <3>2. Owed(p) = 0 /\ Owed(p)' = 1 /\ \A x \in Producers \ {p} : Owed(x)' = Owed(x)
      BY <3>1, GotoFacts DEF Owed
    <3>3. Len(normal) \in Nat /\ Len(urgent) \in Nat /\ \A x \in Producers : Owed(x) \in Nat
      BY DEF IInv, TypeOK, Owed
    <3> QED
      <4>1. CASE p = "desired"
        BY <1>13, <3>2, <3>3, <4>1 DEF IInv, SlotInv, Producers, TakeSlot
      <4>2. CASE p = "owner"
        BY <1>13, <3>2, <3>3, <4>2 DEF IInv, SlotInv, Producers, TakeSlot
      <4>3. CASE p = "watchdog"
        BY <1>13, <3>2, <3>3, <4>3 DEF IInv, SlotInv, Producers, TakeSlot
      <4> QED
        BY <4>1, <4>2, <4>3 DEF Producers
  <2>3. WakeInv'
    BY <1>13 DEF IInv, WakeInv, TypeOK, WatchInv, Queued, InQueue, Producers,
       TakeSlot, Goto, api
  <2>4. GuardInv'
    BY <1>13 DEF IInv, GuardInv, TypeOK, LaneStates, TakeSlot, Goto, api
  <2>5. CommandInv'
    BY <1>13 DEF IInv, CommandInv, TypeOK, WatchInv, Queued, InQueue, Runs,
       Distinct, Producers, GuardInv, TakeSlot, Goto, api
  <2>6. WatchInv'
    BY <1>13 DEF IInv, WatchInv, TypeOK, Polls, CommandInv, Queued, InQueue,
       Producers, TakeSlot, Goto, api
  <2>7. FreshInv'
    BY <1>13 DEF IInv, FreshInv, TypeOK, Snapshots, Polls, CommandInv,
       WatchInv, Queued, InQueue, Submitting, Producers, TakeSlot, Goto, api
  <2> QED
    BY <2>1, <2>2, <2>3, <2>4, <2>5, <2>6, <2>7 DEF IInv
<1>14. ASSUME NEW p \in Producers, AppendCommand(p) PROVE IInv'
  <2>0. TypeOK /\ pc[p] = "append" /\ Goto(p, "signal") /\ "signal" \in Steps
    BY <1>14 DEF IInv, AppendCommand, Steps, Submitting
  <2>01. /\ pc' \in [Producers -> Steps] /\ pc'[p] = "signal"
         /\ \A x \in Producers \ {p} : pc'[x] = pc[x]
    BY <2>0, GotoFacts
  <2>02. /\ normal \in Seq(Producers \ {"watchdog"}) /\ urgent \in Seq({"watchdog"})
         /\ p # "watchdog" => normal' = Append(normal, p) /\ urgent' = urgent
         /\ p = "watchdog" => urgent' = Append(urgent, p) /\ normal' = normal
    BY <1>14 DEF IInv, TypeOK, AppendCommand
  <2>03. /\ normal' \in Seq(Producers \ {"watchdog"}) /\ urgent' \in Seq({"watchdog"})
         /\ Len(normal') = Len(normal) + (IF p = "watchdog" THEN 0 ELSE 1)
         /\ Len(urgent') = Len(urgent) + (IF p = "watchdog" THEN 1 ELSE 0)
    <3>1. CASE p = "watchdog"
      <4>1. p \in {"watchdog"} /\ urgent \in Seq({"watchdog"})
        BY <2>02, <3>1
      <4>2. /\ Append(urgent, p) \in Seq({"watchdog"})
            /\ Len(Append(urgent, p)) = Len(urgent) + 1
        BY <4>1, AppendFacts
      <4>3. Len(normal) \in Nat
        BY <2>02
      <4> QED
        BY <2>02, <3>1, <4>2, <4>3
    <3>2. CASE p # "watchdog"
      <4>1. /\ Append(normal, p) \in Seq(Producers \ {"watchdog"})
            /\ Len(Append(normal, p)) = Len(normal) + 1
        BY <2>02, <3>2, p \in Producers \ {"watchdog"}, AppendFacts
      <4>2. Len(urgent) \in Nat
        BY <2>02
      <4> QED
        BY <2>02, <3>2, <4>1, <4>2
    <3> QED
      BY <3>1, <3>2
  <2>04. \A x \in Producers : Queued(x)' <=> Queued(x) \/ x = p
    <3>1. CASE p = "watchdog"
      <4>0. p \in {"watchdog"} /\ urgent \in Seq({"watchdog"})
        BY <2>02, <3>1
      <4>1. \A x : InQueue(Append(urgent, p), x) <=> InQueue(urgent, x) \/ x = p
        BY <4>0, AppendFacts
      <4> QED
        BY <2>02, <3>1, <4>1 DEF Queued, InQueue
    <3>2. CASE p # "watchdog"
      <4>1. \A x : InQueue(Append(normal, p), x) <=> InQueue(normal, x) \/ x = p
        BY <2>02, <3>2, p \in Producers \ {"watchdog"}, AppendFacts
      <4> QED
        BY <2>02, <3>2, <4>1 DEF Queued, InQueue
    <3> QED
      BY <3>1, <3>2
  <2>1. TypeOK'
    BY <1>14, <2>01, <2>03 DEF IInv, TypeOK, AppendCommand, api
  <2>2. SlotInv'
    <3>1. Owed(p) = 1 /\ Owed(p)' = 0 /\ \A x \in Producers \ {p} : Owed(x)' = Owed(x)
      BY <2>0, <2>01 DEF Owed
    <3>2. Len(normal) \in Nat /\ Len(urgent) \in Nat /\ \A x \in Producers : Owed(x) \in Nat
      BY <2>02 DEF Owed
    <3> QED
      <4>1. CASE p = "desired"
        BY <1>14, <2>03, <3>1, <3>2, <4>1 DEF IInv, SlotInv, Producers,
           AppendCommand
      <4>2. CASE p = "owner"
        <5>1. /\ Owed("owner") = 1 /\ Owed("owner")' = 0 /\ Owed("desired")' = Owed("desired")
              /\ Owed("watchdog")' = Owed("watchdog")
              /\ Len(normal') = Len(normal) + 1 /\ Len(urgent') = Len(urgent)
          BY <2>03, <3>1, <3>2, <4>2 DEF Producers
        <5>2. UNCHANGED <<normalSlots, urgentSlots>>
          BY <1>14 DEF AppendCommand
        <5> QED
          BY <3>2, <5>1, <5>2 DEF IInv, SlotInv, Producers
      <4>3. CASE p = "watchdog"
        BY <1>14, <2>03, <3>1, <3>2, <4>3 DEF IInv, SlotInv, Producers,
           AppendCommand
      <4> QED
        BY <4>1, <4>2, <4>3 DEF Producers
  <2>3. WakeInv'
    BY <1>14, <2>01, <2>04 DEF IInv, WakeInv, AppendCommand
  <2>4. GuardInv'
    BY <1>14 DEF IInv, GuardInv, AppendCommand, guard
  <2>5. CommandInv'
    <3> SUFFICES ASSUME ~stopping PROVE CommandInv'
      BY <1>14 DEF CommandInv, AppendCommand
    <3>1. ~Queued(p) /\ ~Runs(p) /\ done[p] = "none"
      BY <2>0 DEF IInv, CommandInv
    <3>2. Distinct(normal') /\ Distinct(urgent')
      <4>1. Distinct(normal) /\ Distinct(urgent) /\ ~InQueue(normal, p) /\ ~InQueue(urgent, p)
        BY <3>1 DEF IInv, CommandInv, Queued
      <4>2. CASE p = "watchdog"
        <5>1. Distinct(Append(urgent, p))
          BY <2>02, <4>1, <4>2, p \in {"watchdog"}, AppendFacts
        <5> QED
          BY <2>02, <4>1, <4>2, <5>1
      <4>3. CASE p # "watchdog"
        <5>1. Distinct(Append(normal, p))
          BY <2>02, <4>1, <4>3, p \in Producers \ {"watchdog"}, AppendFacts
        <5> QED
          BY <2>02, <4>1, <4>3, <5>1
      <4> QED
        BY <4>2, <4>3
    <3>3. \A x \in Producers : Runs(x)' = Runs(x) /\ done'[x] = done[x]
      BY <1>14 DEF Runs, AppendCommand
    <3>4. \A x \in Producers \ {p} : Queued(x)' = Queued(x) /\ pc'[x] = pc[x]
      BY <2>01, <2>04 DEF Queued, InQueue
    <3> QED
      BY <2>01, <3>1, <3>2, <3>3, <3>4 DEF IInv, CommandInv, Distinct
  <2>6. WatchInv'
    <3>1. pc["desired"] = "watch" => pc'["desired"] = "watch"
      BY <2>0, <2>01 DEF Producers
    <3> QED
      BY <1>14, <3>1 DEF IInv, WatchInv, AppendCommand, api
  <2>7. FreshInv'
    <3>1. pc'["desired"] \in Submitting => pc["desired"] \in Submitting
      BY <2>0, <2>01 DEF Producers, Submitting
    <3> QED
      BY <1>14, <3>1 DEF IInv, FreshInv, AppendCommand, api
  <2> QED
    BY <2>1, <2>2, <2>3, <2>4, <2>5, <2>6, <2>7 DEF IInv
<1>15. ASSUME NEW p \in Producers, Signal(p) PROVE IInv'
  <2>1. TypeOK'
    BY <1>15 DEF IInv, TypeOK, Producers, Steps, Submitting, Snapshots,
       LaneStates, Polls, Signal, Goto, api
  <2>2. SlotInv'
    BY <1>15 DEF IInv, SlotInv, TypeOK, WatchInv, Owed, Producers, Signal,
       Goto, api
  <2>3. WakeInv'
    BY <1>15 DEF IInv, WakeInv, TypeOK, WatchInv, Queued, InQueue, Producers,
       Signal, Goto, api
  <2>4. GuardInv'
    BY <1>15 DEF IInv, GuardInv, TypeOK, LaneStates, Signal, Goto, api
  <2>5. CommandInv'
    BY <1>15 DEF IInv, CommandInv, TypeOK, WatchInv, Queued, InQueue, Runs,
       Distinct, Producers, GuardInv, Signal, Goto, api
  <2>6. WatchInv'
    BY <1>15 DEF IInv, WatchInv, TypeOK, Polls, CommandInv, Queued, InQueue,
       Producers, Signal, Goto, api
  <2>7. FreshInv'
    BY <1>15 DEF IInv, FreshInv, TypeOK, Snapshots, Polls, CommandInv,
       WatchInv, Queued, InQueue, Submitting, Producers, Signal, Goto, api
  <2> QED
    BY <2>1, <2>2, <2>3, <2>4, <2>5, <2>6, <2>7 DEF IInv
<1>16. ASSUME NEW p \in Producers, Return(p) PROVE IInv'
  <2>1. TypeOK'
    BY <1>16 DEF IInv, TypeOK, Producers, Steps, Submitting, Snapshots,
       LaneStates, Polls, Return, After, Goto, api
  <2>2. SlotInv'
    BY <1>16 DEF IInv, SlotInv, TypeOK, WatchInv, Owed, Producers, Return,
       After, Goto, api
  <2>3. WakeInv'
    BY <1>16 DEF IInv, WakeInv, TypeOK, WatchInv, Queued, InQueue, Producers,
       Return, After, Goto, api
  <2>4. GuardInv'
    BY <1>16 DEF IInv, GuardInv, TypeOK, LaneStates, Return, After, Goto, api
  <2>5. CommandInv'
    BY <1>16 DEF IInv, CommandInv, TypeOK, WatchInv, Queued, InQueue, Runs,
       Distinct, Producers, GuardInv, Return, After, Goto, api
  <2>6. WatchInv'
    BY <1>16 DEF IInv, WatchInv, TypeOK, Polls, CommandInv, Queued, InQueue,
       Producers, Return, After, Goto, api
  <2>7. FreshInv'
    BY <1>16 DEF IInv, FreshInv, TypeOK, Snapshots, Polls, CommandInv,
       WatchInv, Queued, InQueue, Submitting, Producers, Return, After, Goto,
       api
  <2> QED
    BY <2>1, <2>2, <2>3, <2>4, <2>5, <2>6, <2>7 DEF IInv
<1>17. ASSUME NEW p \in Producers, GiveUp(p) PROVE IInv'
  <2>1. TypeOK'
    <3>1. watch' \in Polls /\ token' \in BOOLEAN
      BY <1>17, Constants DEF IInv, TypeOK, GiveUp
    <3>2. pc' \in [Producers -> Steps]
      BY <1>17 DEF IInv, TypeOK, Steps, GiveUp, Goto
    <3> QED
      BY <1>17, <3>1, <3>2 DEF IInv, TypeOK, GiveUp
  <2>2. SlotInv'
    BY <1>17 DEF IInv, SlotInv, TypeOK, WatchInv, Owed, Producers, GiveUp, Goto
  <2>3. WakeInv'
    BY <1>17 DEF IInv, WakeInv, TypeOK, WatchInv, Queued, InQueue, Producers,
       GiveUp, Goto
  <2>4. GuardInv'
    BY <1>17 DEF IInv, GuardInv, TypeOK, LaneStates, GiveUp, Goto
  <2>5. CommandInv'
    BY <1>17 DEF IInv, CommandInv, TypeOK, WatchInv, Queued, InQueue, Runs,
       Distinct, Producers, GuardInv, GiveUp, Goto
  <2>6. WatchInv'
    BY <1>17 DEF IInv, WatchInv, TypeOK, Polls, CommandInv, Queued, InQueue,
       Producers, GiveUp, Goto
  <2>7. FreshInv'
    BY <1>17 DEF IInv, FreshInv, TypeOK, Snapshots, Polls, CommandInv,
       WatchInv, Queued, InQueue, Submitting, Producers, GiveUp, Goto
  <2> QED
    BY <2>1, <2>2, <2>3, <2>4, <2>5, <2>6, <2>7 DEF IInv
<1>18. CASE LanePop
  <2>0. /\ normal \in Seq(Producers \ {"watchdog"}) /\ urgent \in Seq({"watchdog"})
        /\ lane.at = "pop" /\ ~stopping
        /\ UNCHANGED <<pc, stage, snapshot, wake, done, stopping, lease, leases, api, troubles>>
    BY <1>18 DEF IInv, TypeOK, LanePop
  <2>p. PICK p \in Producers :
          /\ Begins(p)
          /\ \/ /\ p = "watchdog" /\ urgent # << >> /\ urgentSlots > 0
                /\ p = Head(urgent) /\ urgent' = Tail(urgent)
                /\ urgentSlots' = urgentSlots - 1 /\ UNCHANGED <<normal, normalSlots>>
             \/ /\ p # "watchdog" /\ normal # << >> /\ normalSlots > 0
                /\ p = Head(normal) /\ normal' = Tail(normal)
                /\ normalSlots' = normalSlots - 1 /\ UNCHANGED <<urgent, urgentSlots>>
    BY <1>18, <2>0, TailFacts DEF LanePop, Producers
  <2>q. /\ normal' \in Seq(Producers \ {"watchdog"}) /\ urgent' \in Seq({"watchdog"})
        /\ Queued(p) /\ \A x : Queued(x)' => Queued(x)
        /\ Len(normal') = Len(normal) - (IF p = "watchdog" THEN 0 ELSE 1)
        /\ Len(urgent') = Len(urgent) - (IF p = "watchdog" THEN 1 ELSE 0)
        /\ Len(normal) \in Nat /\ Len(urgent) \in Nat
    <3>1. CASE p = "watchdog"
      <4>1. /\ Tail(urgent) \in Seq({"watchdog"}) /\ Len(Tail(urgent)) = Len(urgent) - 1
            /\ InQueue(urgent, p) /\ \A x : InQueue(Tail(urgent), x) => InQueue(urgent, x)
        BY <2>0, <2>p, <3>1, TailFacts
      <4> QED
        <5>1. normal' = normal /\ urgent' = Tail(urgent)
          BY <2>p, <3>1
        <5>2. Queued(p) /\ \A x : Queued(x)' => Queued(x)
          BY <4>1, <5>1 DEF Queued, InQueue
        <5> QED
          BY <2>0, <3>1, <4>1, <5>1, <5>2
    <3>2. CASE p # "watchdog"
      <4>1. /\ Tail(normal) \in Seq(Producers \ {"watchdog"})
            /\ Len(Tail(normal)) = Len(normal) - 1 /\ InQueue(normal, p)
            /\ \A x : InQueue(Tail(normal), x) => InQueue(normal, x)
        BY <2>0, <2>p, <3>2, TailFacts
      <4> QED
        <5>1. urgent' = urgent /\ normal' = Tail(normal)
          BY <2>p, <3>2
        <5>2. Queued(p) /\ \A x : Queued(x)' => Queued(x)
          BY <4>1, <5>1 DEF Queued, InQueue
        <5> QED
          BY <2>0, <3>2, <4>1, <5>1, <5>2
    <3> QED
      BY <3>1, <3>2
  <2>r. /\ Distinct(normal') /\ Distinct(urgent') /\ ~Queued(p)'
    <3>1. Distinct(normal) /\ Distinct(urgent)
      BY <2>0 DEF IInv, CommandInv
    <3>2. CASE p = "watchdog"
      <4>1. ~InQueue(normal, p)
        BY <2>0, <3>2 DEF InQueue
      <4> QED
        BY <2>0, <2>p, <3>1, <3>2, <4>1, TailFacts DEF Queued
    <3>3. CASE p # "watchdog"
      <4>1. ~InQueue(urgent, p)
        BY <2>0, <3>3 DEF InQueue
      <4> QED
        BY <2>0, <2>p, <3>1, <3>3, <4>1, TailFacts DEF Queued
    <3> QED
      BY <3>2, <3>3
  <2>s. /\ lane'.at = "run" /\ lane'.cmd = p
        /\ lane'.guarded = (p # "watchdog" /\ lease # "none") /\ lane'.due = (lease = "expired")
        /\ begun' = IF p # "watchdog" /\ lease = "expired" THEN begun + 1 ELSE begun
        /\ version' = IF p = "desired" /\ stage # "lease" THEN snapshot.version ELSE version
    BY <2>p DEF Begins
  <2>t. pc[p] \in {"signal", "wait"} /\ done[p] = "none"
    BY <2>0, <2>q DEF IInv, CommandInv
  <2>1. TypeOK'
    <3>1. lane' \in LaneStates
      BY <2>p DEF Begins, LaneStates
    <3>2. begun' \in Nat /\ version' \in Nat
      BY <2>s DEF IInv, TypeOK, Snapshots
    <3>3. normalSlots' \in 0 .. NormalSlots /\ urgentSlots' \in 0 .. UrgentSlots
      BY <2>p DEF IInv, TypeOK
    <3> QED
      BY <2>0, <2>q, <3>1, <3>2, <3>3 DEF IInv, TypeOK, api
  <2>2. SlotInv'
    <3>1. /\ Owed("desired")' = Owed("desired") /\ Owed("desired") \in Nat
          /\ Owed("owner")' = Owed("owner") /\ Owed("owner") \in Nat
          /\ Owed("watchdog")' = Owed("watchdog") /\ Owed("watchdog") \in Nat
      BY <2>0 DEF Owed
    <3>2. /\ Len(normal) \in Nat /\ Len(urgent) \in Nat
          /\ normalSlots = Len(normal) + Owed("desired") + Owed("owner")
          /\ urgentSlots = Len(urgent) + Owed("watchdog")
      BY <2>q DEF IInv, SlotInv
    <3> QED
      <4>1. CASE p # "watchdog"
        <5>1. /\ normalSlots' = normalSlots - 1 /\ urgentSlots' = urgentSlots
              /\ Len(normal') = Len(normal) - 1 /\ Len(urgent') = Len(urgent)
          BY <2>p, <2>q, <4>1
        <5> QED
          BY <3>1, <3>2, <5>1 DEF SlotInv
      <4>2. CASE p = "watchdog"
        <5>1. /\ urgentSlots' = urgentSlots - 1 /\ normalSlots' = normalSlots
              /\ Len(urgent') = Len(urgent) - 1 /\ Len(normal') = Len(normal)
          BY <2>p, <2>q, <4>2
        <5> QED
          BY <3>1, <3>2, <5>1 DEF SlotInv
      <4> QED
        BY <4>1, <4>2
  <2>3. WakeInv'
    BY <2>s DEF WakeInv
  <2>4. GuardInv'
    <3>1. begun = 0
      BY <2>0 DEF IInv, GuardInv, TypeOK
    <3> QED
      <4>1. CASE p # "watchdog" /\ lease = "expired"
        <5>1. begun' = 1
          BY <2>s, <3>1, <4>1
        <5>2. p # "watchdog" /\ lease # "none" /\ lease = "expired"
          BY <4>1
        <5>3. lane'.guarded /\ lane'.due
          BY <2>s, <5>2, Zenon
        <5> QED
          BY <2>s, <4>1, <5>1, <5>3 DEF GuardInv
      <4>2. CASE ~(p # "watchdog" /\ lease = "expired")
        <5>1. begun' = 0
          BY <2>s, <3>1, <4>2
        <5> QED
          BY <2>s, <5>1 DEF GuardInv
      <4> QED
        BY <4>1, <4>2
  <2>5. CommandInv'
    <3>1. ASSUME NEW x \in Producers, x # p
          PROVE  ~Runs(x)' /\ done'[x] = done[x] /\ pc'[x] = pc[x] /\ (Queued(x)' => Queued(x))
      BY <2>0, <2>q, <2>s, <3>1 DEF Runs
    <3> QED
      BY <2>0, <2>r, <2>t, <3>1 DEF IInv, CommandInv, Distinct
  <2>6. WatchInv'
    <3>1. version' = version \/ watch = NoWatch
      BY <2>s, <2>t DEF IInv, WatchInv
    <3> QED
      BY <2>0, <3>1 DEF IInv, WatchInv, api
  <2>7. FreshInv'
    BY <2>0, <2>s, <2>t DEF IInv, FreshInv, TypeOK, api, Submitting
  <2> QED
    BY <2>1, <2>2, <2>3, <2>4, <2>5, <2>6, <2>7 DEF IInv
<1>19. CASE LaneFindsNothing
  <2>1. TypeOK'
    BY <1>19 DEF IInv, TypeOK, Producers, Steps, Submitting, Snapshots,
       LaneStates, Polls, LaneFindsNothing, api
  <2>2. SlotInv'
    BY <1>19 DEF IInv, SlotInv, TypeOK, WatchInv, Owed, Producers,
       LaneFindsNothing, api
  <2>3. WakeInv'
    BY <1>19 DEF IInv, WakeInv, TypeOK, WatchInv, Queued, InQueue, Producers,
       LaneFindsNothing, api
  <2>4. GuardInv'
    BY <1>19 DEF IInv, GuardInv, TypeOK, LaneStates, LaneFindsNothing, api
  <2>5. CommandInv'
    BY <1>19 DEF IInv, CommandInv, TypeOK, WatchInv, Queued, InQueue, Runs,
       Distinct, Producers, GuardInv, LaneFindsNothing, api
  <2>6. WatchInv'
    BY <1>19 DEF IInv, WatchInv, TypeOK, Polls, CommandInv, Queued, InQueue,
       Producers, LaneFindsNothing, api
  <2>7. FreshInv'
    BY <1>19 DEF IInv, FreshInv, TypeOK, Snapshots, Polls, CommandInv,
       WatchInv, Queued, InQueue, Submitting, Producers, LaneFindsNothing, api
  <2> QED
    BY <2>1, <2>2, <2>3, <2>4, <2>5, <2>6, <2>7 DEF IInv
<1>20. CASE LaneSleep
  <2>1. TypeOK'
    BY <1>20 DEF IInv, TypeOK, Producers, Steps, Submitting, Snapshots,
       LaneStates, Polls, LaneSleep, api
  <2>2. SlotInv'
    BY <1>20 DEF IInv, SlotInv, TypeOK, WatchInv, Owed, Producers, LaneSleep,
       api
  <2>3. WakeInv'
    BY <1>20 DEF IInv, WakeInv, TypeOK, WatchInv, Queued, InQueue, Producers,
       LaneSleep, api
  <2>4. GuardInv'
    BY <1>20 DEF IInv, GuardInv, TypeOK, LaneStates, LaneSleep, api
  <2>5. CommandInv'
    BY <1>20 DEF IInv, CommandInv, TypeOK, WatchInv, Queued, InQueue, Runs,
       Distinct, Producers, GuardInv, LaneSleep, api
  <2>6. WatchInv'
    BY <1>20 DEF IInv, WatchInv, TypeOK, Polls, CommandInv, Queued, InQueue,
       Producers, LaneSleep, api
  <2>7. FreshInv'
    BY <1>20 DEF IInv, FreshInv, TypeOK, Snapshots, Polls, CommandInv,
       WatchInv, Queued, InQueue, Submitting, Producers, LaneSleep, api
  <2> QED
    BY <2>1, <2>2, <2>3, <2>4, <2>5, <2>6, <2>7 DEF IInv
<1>21. CASE LaneWake
  <2>1. TypeOK'
    BY <1>21 DEF IInv, TypeOK, Producers, Steps, Submitting, Snapshots,
       LaneStates, Polls, LaneWake, api
  <2>2. SlotInv'
    BY <1>21 DEF IInv, SlotInv, TypeOK, WatchInv, Owed, Producers, LaneWake, api
  <2>3. WakeInv'
    BY <1>21 DEF IInv, WakeInv, TypeOK, WatchInv, Queued, InQueue, Producers,
       LaneWake, api
  <2>4. GuardInv'
    BY <1>21 DEF IInv, GuardInv, TypeOK, LaneStates, LaneWake, api
  <2>5. CommandInv'
    BY <1>21 DEF IInv, CommandInv, TypeOK, WatchInv, Queued, InQueue, Runs,
       Distinct, Producers, GuardInv, LaneWake, api
  <2>6. WatchInv'
    BY <1>21 DEF IInv, WatchInv, TypeOK, Polls, CommandInv, Queued, InQueue,
       Producers, LaneWake, api
  <2>7. FreshInv'
    BY <1>21 DEF IInv, FreshInv, TypeOK, Snapshots, Polls, CommandInv,
       WatchInv, Queued, InQueue, Submitting, Producers, LaneWake, api
  <2> QED
    BY <2>1, <2>2, <2>3, <2>4, <2>5, <2>6, <2>7 DEF IInv
<1>22. CASE LaneEnd
  <2>1. TypeOK'
    <3>1. lane.cmd \in Producers /\ lane.at = "run"
      BY <1>22 DEF IInv, GuardInv, LaneEnd
    <3>2. lease' \in {"none", "held", "expired"} /\ begun' \in Nat /\ leases' \in Nat
      <4>1. CASE Effect(lane.cmd)
        <5>1. Install \/ UNCHANGED guard \/ (CheckLease(TRUE) /\ UNCHANGED leases)
          BY <3>1, <4>1 DEF Producers, Effect
        <5> QED
          BY <5>1 DEF IInv, TypeOK, Install, CheckLease
      <4>2. CASE Failure(lane.cmd)
        BY <4>2 DEF IInv, TypeOK, Failure
      <4> QED
        BY <1>22, <4>1, <4>2 DEF LaneEnd
    <3>3. troubles' \in Nat /\ done' \in [Producers -> {"none", "ok", "failed"}]
      BY <1>22 DEF IInv, TypeOK, LaneEnd, Trouble
    <3>4. lane' \in LaneStates
      BY <1>22, Constants DEF IInv, TypeOK, LaneStates, LaneEnd, Handover
    <3> QED
      BY <1>22, <3>2, <3>3, <3>4 DEF IInv, TypeOK, LaneEnd, api
  <2>2. SlotInv'
    BY <1>22 DEF IInv, SlotInv, TypeOK, WatchInv, Owed, Producers, LaneEnd,
       Effect, Failure, Install, CheckLease, Handover, Trouble, api
  <2>3. WakeInv'
    BY <1>22 DEF IInv, WakeInv, TypeOK, WatchInv, Queued, InQueue, Producers,
       LaneEnd, Effect, Failure, Install, CheckLease, Handover, Trouble, api
  <2>4. GuardInv'
    <3>1. lane.cmd \in Producers /\ lane.at = "run"
      BY <1>22 DEF IInv, GuardInv, LaneEnd
    <3>2. begun' \in {0, begun} /\ begun \in Nat /\ (lane.cmd = "watchdog" => begun' = 0)
      BY <1>22, <3>1 DEF IInv, TypeOK, Producers, LaneEnd, Effect, Failure,
         Install, CheckLease
    <3>3. lane'.at = IF lane.guarded /\ lane.due /\ ~stopping THEN "check" ELSE "pop"
      BY <1>22 DEF IInv, TypeOK, LaneStates, LaneEnd, Handover
    <3> QED
      BY <1>22, <3>1, <3>2, <3>3 DEF IInv, GuardInv, LaneEnd
  <2>5. CommandInv'
    <3>1. lane.cmd \in Producers /\ Runs(lane.cmd)
      BY <1>22 DEF IInv, GuardInv, LaneEnd, Runs
    <3>2. \A x \in Producers : ~Runs(x)' /\ Queued(x)' = Queued(x) /\ pc'[x] = pc[x]
      BY <1>22 DEF IInv, TypeOK, LaneStates, LaneEnd, Handover, Runs, Queued,
         InQueue
    <3>3. \A x \in Producers \ {lane.cmd} : done'[x] = done[x]
      BY <1>22 DEF IInv, TypeOK, LaneEnd
    <3>4. /\ UNCHANGED stopping
          /\ Distinct(normal)' = Distinct(normal) /\ Distinct(urgent)' = Distinct(urgent)
      BY <1>22 DEF LaneEnd, Distinct
    <3> QED
      BY <3>1, <3>2, <3>3, <3>4 DEF IInv, CommandInv
  <2>6. WatchInv'
    BY <1>22 DEF IInv, WatchInv, TypeOK, Polls, CommandInv, Queued, InQueue,
       Producers, LaneEnd, Effect, Failure, Install, CheckLease, Handover,
       Trouble, api
  <2>7. FreshInv'
    BY <1>22 DEF IInv, FreshInv, TypeOK, Snapshots, Polls, CommandInv,
       WatchInv, Queued, InQueue, Submitting, Producers, LaneEnd, Effect,
       Failure, Install, CheckLease, Handover, Trouble, api
  <2> QED
    BY <2>1, <2>2, <2>3, <2>4, <2>5, <2>6, <2>7 DEF IInv
<1>23. CASE LaneCheck
  <2>1. TypeOK'
    <3>1. lease' \in {"none", "held", "expired"} /\ begun' \in Nat /\ troubles' \in Nat
      BY <1>23 DEF IInv, TypeOK, LaneCheck, CheckLease, Trouble
    <3> QED
      BY <1>23, <3>1, Constants DEF IInv, TypeOK, LaneCheck, api
  <2>2. SlotInv'
    BY <1>23 DEF IInv, SlotInv, TypeOK, WatchInv, Owed, Producers, LaneCheck,
       CheckLease, Trouble, api
  <2>3. WakeInv'
    BY <1>23 DEF IInv, WakeInv, TypeOK, WatchInv, Queued, InQueue, Producers,
       LaneCheck, CheckLease, Trouble, api
  <2>4. GuardInv'
    BY <1>23 DEF IInv, GuardInv, TypeOK, LaneStates, LaneCheck, CheckLease,
       Trouble, api
  <2>5. CommandInv'
    BY <1>23 DEF IInv, CommandInv, TypeOK, WatchInv, Queued, InQueue, Runs,
       Distinct, Producers, GuardInv, LaneCheck, CheckLease, Trouble, api
  <2>6. WatchInv'
    BY <1>23 DEF IInv, WatchInv, TypeOK, Polls, CommandInv, Queued, InQueue,
       Producers, LaneCheck, CheckLease, Trouble, api
  <2>7. FreshInv'
    BY <1>23 DEF IInv, FreshInv, TypeOK, Snapshots, Polls, CommandInv,
       WatchInv, Queued, InQueue, Submitting, Producers, LaneCheck, CheckLease,
       Trouble, api
  <2> QED
    BY <2>1, <2>2, <2>3, <2>4, <2>5, <2>6, <2>7 DEF IInv
<1>24. CASE LaneStops
  <2>1. TypeOK'
    BY <1>24 DEF IInv, TypeOK, Producers, Steps, Submitting, Snapshots,
       LaneStates, Polls, LaneStops, api
  <2>2. SlotInv'
    BY <1>24 DEF IInv, SlotInv, TypeOK, WatchInv, Owed, Producers, LaneStops,
       api
  <2>3. WakeInv'
    BY <1>24 DEF IInv, WakeInv, TypeOK, WatchInv, Queued, InQueue, Producers,
       LaneStops, api
  <2>4. GuardInv'
    BY <1>24 DEF IInv, GuardInv, TypeOK, LaneStates, LaneStops, api
  <2>5. CommandInv'
    BY <1>24 DEF IInv, CommandInv, TypeOK, WatchInv, Queued, InQueue, Runs,
       Distinct, Producers, GuardInv, LaneStops, api
  <2>6. WatchInv'
    BY <1>24 DEF IInv, WatchInv, TypeOK, Polls, CommandInv, Queued, InQueue,
       Producers, LaneStops, api
  <2>7. FreshInv'
    BY <1>24 DEF IInv, FreshInv, TypeOK, Snapshots, Polls, CommandInv,
       WatchInv, Queued, InQueue, Submitting, Producers, LaneStops, api
  <2> QED
    BY <2>1, <2>2, <2>3, <2>4, <2>5, <2>6, <2>7 DEF IInv
<1>25. CASE Expire
  <2>1. TypeOK'
    BY <1>25 DEF IInv, TypeOK, Producers, Steps, Submitting, Snapshots,
       LaneStates, Polls, Expire, api
  <2>2. SlotInv'
    BY <1>25 DEF IInv, SlotInv, TypeOK, WatchInv, Owed, Producers, Expire, api
  <2>3. WakeInv'
    BY <1>25 DEF IInv, WakeInv, TypeOK, WatchInv, Queued, InQueue, Producers,
       Expire, api
  <2>4. GuardInv'
    BY <1>25 DEF IInv, GuardInv, TypeOK, LaneStates, Expire, api
  <2>5. CommandInv'
    BY <1>25 DEF IInv, CommandInv, TypeOK, WatchInv, Queued, InQueue, Runs,
       Distinct, Producers, GuardInv, Expire, api
  <2>6. WatchInv'
    BY <1>25 DEF IInv, WatchInv, TypeOK, Polls, CommandInv, Queued, InQueue,
       Producers, Expire, api
  <2>7. FreshInv'
    BY <1>25 DEF IInv, FreshInv, TypeOK, Snapshots, Polls, CommandInv,
       WatchInv, Queued, InQueue, Submitting, Producers, Expire, api
  <2> QED
    BY <2>1, <2>2, <2>3, <2>4, <2>5, <2>6, <2>7 DEF IInv
<1>26. CASE Stop
  <2>1. TypeOK'
    BY <1>26 DEF IInv, TypeOK, Producers, Steps, Submitting, Snapshots,
       LaneStates, Polls, Stop, api
  <2>2. SlotInv'
    BY <1>26 DEF IInv, SlotInv, TypeOK, WatchInv, Owed, Producers, Stop, api
  <2>3. WakeInv'
    BY <1>26 DEF IInv, WakeInv, TypeOK, WatchInv, Queued, InQueue, Producers,
       Stop, api
  <2>4. GuardInv'
    BY <1>26 DEF IInv, GuardInv, TypeOK, LaneStates, Stop, api
  <2>5. CommandInv'
    BY <1>26 DEF IInv, CommandInv, TypeOK, WatchInv, Queued, InQueue, Runs,
       Distinct, Producers, GuardInv, Stop, api
  <2>6. WatchInv'
    BY <1>26 DEF IInv, WatchInv, TypeOK, Polls, CommandInv, Queued, InQueue,
       Producers, Stop, api
  <2>7. FreshInv'
    BY <1>26 DEF IInv, FreshInv, TypeOK, Snapshots, Polls, CommandInv,
       WatchInv, Queued, InQueue, Submitting, Producers, Stop, api
  <2> QED
    BY <2>1, <2>2, <2>3, <2>4, <2>5, <2>6, <2>7 DEF IInv
<1>27. CASE UNCHANGED vars
  <2> USE <1>27 DEF vars, IInv
  <2>1. TypeOK'
    BY DEF TypeOK
  <2>2. SlotInv' /\ GuardInv' /\ WatchInv' /\ FreshInv'
    BY DEF SlotInv, Owed, GuardInv, WatchInv, FreshInv
  <2>3. WakeInv' /\ CommandInv'
    BY DEF WakeInv, CommandInv, Queued, InQueue, Runs, Distinct
  <2> QED
    BY <2>1, <2>2, <2>3
<1> QED
  BY <1>1, <1>2, <1>3, <1>4, <1>5, <1>6, <1>7, <1>8, <1>9, <1>10, <1>11, <1>12,
     <1>13, <1>14, <1>15, <1>16, <1>17, <1>18, <1>19, <1>20, <1>21, <1>22,
     <1>23, <1>24, <1>25, <1>26, <1>27 DEF Next, Submit, LaneNext

LEMMA Inductive == Spec => []IInv
BY InitIInv, StepIInv, PTL DEF Spec

-----------------------------------------------------------------------------
(* The theorems.                                                           *)

\* The fields of the lane, the agent's producers and the hub keep their types.
THEOREM TypeCorrect == Spec => []TypeOK
<1>1. IInv => TypeOK
  BY DEF IInv
<1> QED
  BY <1>1, Inductive, PTL

\* dataplane_lane.go lets go of its mutex before it waits for a wake-up, and a
\* producer appends under the mutex and signals after it: whatever falls
\* between the two, the lane does not sleep over a queued command unless the
\* producer of it has its signal still to send.
THEOREM WakeTheorem == Spec => []NoLostWake
<1>1. IInv => NoLostWake
  BY DEF IInv, WakeInv, NoLostWake, Queued, InQueue
<1> QED
  BY <1>1, Inductive, PTL

\* pop takes the token of a slot while it holds the mutex of dataplane_lane.go:
\* there is a token for every queued command, so it never waits there, however
\* many producers queue and whatever the capacities.
THEOREM SlotTheorem == Spec => []SlotsCoverQueues
<1>1. IInv => SlotsCoverQueues
  <2> SUFFICES ASSUME IInv PROVE SlotsCoverQueues
    OBVIOUS
  <2>1. Len(normal) \in Nat /\ Len(urgent) \in Nat
    BY DEF IInv, TypeOK
  <2>2. Owed("desired") \in Nat /\ Owed("owner") \in Nat /\ Owed("watchdog") \in Nat
    BY DEF Owed
  <2> QED
    BY <2>1, <2>2 DEF IInv, SlotInv, SlotsCoverQueues
<1> QED
  BY <1>1, Inductive, PTL

\* The handler of the long poll subscribes before it compares versions, and
\* the desired state is read after the version that goes with it: a poll that
\* is parked with no signal pending holds back no change, through restarts of
\* the control plane between a commit and its Notify.
THEOREM ParkedTheorem == Spec => []ParkedIsCurrent
<1>1. IInv => ParkedIsCurrent
  <2> SUFFICES ASSUME IInv, watch.at = "parked", ~token, unsent = 0
               PROVE  snapshot.data = committed
    BY DEF ParkedIsCurrent
  <2>1. watch.since = hubVersion /\ watch.since = version
    BY DEF IInv, WatchInv, NoWatch
  <2> QED
    BY <2>1 DEF IInv, FreshInv
<1> QED
  BY <1>1, Inductive, PTL

\* The lane runs the check of the lease after a command that ended past the
\* deadline, before it looks at its queues: at most one normal command begins
\* between the deadline of a lease and a check of it.
THEOREM DeadlineTheorem == Spec => []DeadlineHandsOver
<1>1. IInv => DeadlineHandsOver
  BY DEF IInv, GuardInv, DeadlineHandsOver
<1> QED
  BY <1>1, Inductive, PTL
=============================================================================
