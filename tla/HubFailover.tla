---------------------------- MODULE HubFailover ----------------------------
(***************************************************************************)
(* The failover of an organization's transit hubs.  The row org_hub_set    *)
(* has two fields with a writer each: ReconcileHubSet, at the end of every *)
(* request that changes a gateway, writes the elected members; the tick of *)
(* the leading replica writes the members it passes over for staleness and *)
(* corrects the first field on the way.  The counters behind a demotion    *)
(* are memory of the process.                                              *)
(*                                                                         *)
(* A gateway's binding, endpoint, key and status are one flag (capable), a *)
(* handshake's age is a verdict (fresh, stale, or none when no peer        *)
(* reports it), and the generation of the row, which counts its changes,   *)
(* is left out.  LeaderElection shows which replica leads; here leadership *)
(* is lost at any time and comes to any replica after.                     *)
(***************************************************************************)
EXTENDS Integers, FiniteSets, Sequences, SequencesExt

CONSTANTS
    Replicas,       \* processes of the control plane
    Members,        \* gateways, numbered in the order of their ids
    Handlers,       \* requests that may be under way at once
    MaxPin,         \* priorities 1..MaxPin; 0 is no pin
    DemoteTicks,    \* failoverDemoteTicks
    RestoreTicks,   \* failoverRestoreTicks
    Pinned,         \* the members pinned at the start, with priority 1
    NoLeader,       \* nobody leads
    MaxTroubles     \* bound on restarts, lost leaderships, failed
                    \* transactions and edits

ASSUME Bounds ==
    /\ Members \subseteq Nat
    /\ IsFiniteSet(Members)
    /\ Pinned \in SUBSET Members
    /\ MaxPin \in Nat \ {0}
    /\ DemoteTicks \in Nat \ {0}
    /\ RestoreTicks \in Nat
    /\ RestoreTicks > DemoteTicks
    /\ NoLeader \notin Replicas
    /\ MaxTroubles \in Nat

VARIABLES
    gw,         \* a gateway's capability, pin and health
    row,        \* org_hub_set
    leader,     \* the replica that leads, or NoLeader
    fc,         \* the FailoverController of each replica
    tick,       \* where the tick of each replica is, and what it has read
    req,        \* where each request is, and the set it elected
    troubles,   \* the events MaxTroubles bounds, so far
    runs,       \* history: the consecutive verdicts of all ticks
    convicted,  \* history: a stale run since a controller restored it, or
                \* a demotion that a new controller took over from the row
    cleared     \* history: a fresh run since its last stale run

history == <<runs, convicted, cleared>>
vars == <<gw, row, leader, fc, tick, req, troubles,
          runs, convicted, cleared>>

-----------------------------------------------------------------------------
(* The election and the active order.                                      *)

Gateway == [capable : BOOLEAN, pin : 0..MaxPin, healthy : BOOLEAN]
Gateways == [Members -> Gateway]

\* By pin, then health, then id.
hubLess(g, a, b) ==
    \/ g[a].pin # 0 /\ (g[b].pin = 0 \/ g[a].pin < g[b].pin)
    \/ /\ g[a].pin = g[b].pin
       /\ \/ g[a].healthy /\ ~g[b].healthy
          \/ g[a].healthy = g[b].healthy /\ a < b

\* Sequences of members without repetition.
Orders == {s \in SeqOf(Members, Cardinality(Members)) : IsInjective(s)}

\* The members of S, one before another as the pairs of R have them.
Ordered(S, R) ==
    CHOOSE s \in [1..Cardinality(S) -> S] :
        \A i, j \in DOMAIN s : i < j => <<s[i], s[j]>> \in R

HubOrder(g) == {p \in Members \X Members : hubLess(g, p[1], p[2])}

Capable(g) == {m \in Members : g[m].capable}
Pins(g) == {m \in Capable(g) : g[m].pin # 0}

\* Faulty variant: the pinned members and then all capable ones.
ElectBoth ==
    [g \in Gateways |-> Ordered(Pins(g), HubOrder(g)) \o Ordered(Capable(g), HubOrder(g))]

\* The pinned gateways of the capable ones, or the first of them.
electSiteHubSet ==
    [g \in Gateways |->
        IF Pins(g) # {} \/ Capable(g) = {} THEN Ordered(Pins(g), HubOrder(g))
        ELSE <<Ordered(Capable(g), HubOrder(g))[1]>>]

\* ActiveOrder: the demoted members behind the others.
Active(r) ==
    LET dead == ToSet(r.demoted)
    IN  SelectSeq(r.configured, LAMBDA m : m \notin dead)
          \o SelectSeq(r.configured, LAMBDA m : m \in dead)

-----------------------------------------------------------------------------
(* The controller of one process.                                          *)

Verdicts == {"fresh", "stale", "none"}
NewRun == [stale |-> 0, fresh |-> 0]
Cap(n, k) == IF n < k THEN n + 1 ELSE k

\* One verdict counted.  Counts stop at their thresholds, past which the
\* code only compares.
Count(c, v) ==
    CASE v = "fresh" -> [stale |-> 0, fresh |-> Cap(c.fresh, RestoreTicks)]
      [] v = "stale" -> [stale |-> Cap(c.stale, DemoteTicks), fresh |-> 0]
      [] OTHER -> c

NewFailoverController ==
    [seeded |-> FALSE, count |-> [m \in Members |-> NewRun], demoted |-> {}]

\* Faulty variant: the demotions of before the restart are forgotten.
SeedNothing(f, persisted) == [f EXCEPT !.seeded = TRUE]

seedDemoted(f, persisted) ==
    IF f.seeded THEN f
    ELSE [f EXCEPT !.seeded = TRUE, !.demoted = @ \cup ToSet(persisted)]

\* Faulty variant: a fresh verdict leaves the stale count.
StepKeepsStale(f, configured, seen) ==
    LET members == ToSet(configured)
        n == [m \in Members |->
                IF m \notin members THEN f.count[m]
                ELSE IF seen[m] = "fresh"
                     THEN [f.count[m] EXCEPT !.fresh = Cap(@, RestoreTicks)]
                     ELSE Count(f.count[m], seen[m])]
        Down(m) ==
          IF m \notin members \/ seen[m] = "none" THEN m \in f.demoted
          ELSE IF seen[m] = "fresh"
               THEN m \in f.demoted /\ n[m].fresh < RestoreTicks
               ELSE m \in f.demoted \/ n[m].stale >= DemoteTicks
    IN  [f EXCEPT !.count = n, !.demoted = {m \in Members : Down(m)}]

\* FailoverController.Step: only the members are counted, and a member that
\* nobody reports is left as it is.
Step(f, configured, seen) ==
    LET members == ToSet(configured)
        n == [m \in Members |-> IF m \in members THEN Count(f.count[m], seen[m])
                                ELSE f.count[m]]
        Down(m) ==
          IF m \notin members \/ seen[m] = "none" THEN m \in f.demoted
          ELSE IF seen[m] = "fresh"
               THEN m \in f.demoted /\ n[m].fresh < RestoreTicks
               ELSE m \in f.demoted \/ n[m].stale >= DemoteTicks
    IN  [f EXCEPT !.count = n, !.demoted = {m \in Members : Down(m)}]

\* The demoted members in the configured order, which Step returns.
DemotedOrder ==
    [configured \in Orders |-> [demoted \in SUBSET Members |->
        Ordered(ToSet(configured) \cap demoted,
                {p \in Members \X Members : \E i, j \in DOMAIN configured :
                    i < j /\ p = <<configured[i], configured[j]>>})]]

-----------------------------------------------------------------------------

NoRow == [configured |-> << >>, demoted |-> << >>]
Idle == [at |-> "idle", current |-> NoRow, next |-> NoRow]
NoRequest == [at |-> "idle", configured |-> << >>]

RowType == [configured : Orders, demoted : Orders]
RunType == [stale : 0..DemoteTicks, fresh : 0..RestoreTicks]
Controller == [seeded : BOOLEAN, count : [Members -> RunType], demoted : SUBSET Members]
TickState == [at : {"idle", "write"}, current : RowType, next : RowType]
Request == [at : {"idle", "edited", "write"}, configured : Orders]

TypeOK ==
    /\ gw \in Gateways
    /\ row \in RowType
    /\ leader \in Replicas \cup {NoLeader}
    /\ fc \in [Replicas -> Controller]
    /\ tick \in [Replicas -> TickState]
    /\ req \in [Handlers -> Request]
    /\ troubles \in 0..MaxTroubles
    /\ runs \in [Members -> RunType]
    /\ convicted \in SUBSET Members
    /\ cleared \in SUBSET Members

\* An organization whose pinned gateways are elected and reported fresh.
Init ==
    /\ gw = [m \in Members |-> [capable |-> TRUE, healthy |-> TRUE,
                                pin |-> IF m \in Pinned THEN 1 ELSE 0]]
    /\ row = [configured |-> electSiteHubSet[gw], demoted |-> << >>]
    /\ leader = NoLeader
    /\ fc = [r \in Replicas |-> NewFailoverController]
    /\ tick = [r \in Replicas |-> Idle]
    /\ req = [h \in Handlers |-> NoRequest]
    /\ troubles = 0
    /\ runs = [m \in Members |-> NewRun]
    /\ convicted = {}
    /\ cleared = Members

-----------------------------------------------------------------------------
(* The tick.                                                               *)

Trouble == troubles < MaxTroubles /\ troubles' = troubles + 1

\* The history of a tick over the members it counted: taken are the members
\* seeded from the row, restored the ones the controller restored.
Witness(members, seen, taken, restored) ==
    LET n == [m \in Members |-> IF m \in members THEN Count(runs[m], seen[m])
                                ELSE runs[m]]
        stale == {m \in members : n[m].stale >= DemoteTicks}
        fresh == {m \in members : n[m].fresh >= RestoreTicks}
    IN  /\ runs' = n
        /\ convicted' = ((convicted \cup taken) \ restored) \cup stale
        /\ cleared' = (cleared \cup fresh) \ stale

\* failoverOrg up to its transaction, with the controller of r seeded to
\* before.  It reads the row, elects from the gateways as they are, and lets
\* the controller count the reported handshakes.  A set of one has nothing to
\* demote, and a stable world is not written.
failoverOrg(r, before, seen) ==
    /\ leader = r
    /\ tick[r] = Idle
    /\ Len(row.configured) > 1
    /\ UNCHANGED <<gw, row, leader, req, troubles>>
    /\ \E configured \in {electSiteHubSet[gw]} :
       LET several == Len(configured) >= 2
       IN  \E after \in {IF several THEN Step(before, configured, seen) ELSE before} :
           LET demoted == IF several THEN DemotedOrder[configured][after.demoted]
                          ELSE << >>
               next == [configured |-> configured, demoted |-> demoted]
           IN  /\ Witness(IF several THEN ToSet(configured) ELSE {},
                          seen, before.demoted \ fc[r].demoted,
                          before.demoted \ after.demoted)
               /\ fc' = [fc EXCEPT ![r] = after]
               /\ tick' = [tick EXCEPT ![r] =
                    IF next = row THEN Idle
                    ELSE [at |-> "write", current |-> row, next |-> next]]

\* Faulty variant: every tick counts with a controller of its own.
TickAlone(r, seen) ==
    failoverOrg(r, seedDemoted(NewFailoverController, row.demoted), seen)

\* The tick of the confirmed leader visits the organization, whose persisted
\* set has more than one member.
Tick(r, seen) == failoverOrg(r, seedDemoted(fc[r], row.demoted), seen)

\* Faulty variant: a set that fell below two members is written with a null
\* in place of the empty demotion, which the database refuses.
TickWriteNull(r) ==
    LET t == tick[r]
        null == Len(t.next.configured) < 2 /\ t.current.demoted # << >>
    IN  /\ t.at = "write"
        /\ row' = IF null THEN row
                  ELSE [configured |->
                          IF t.next.configured # t.current.configured
                          THEN t.next.configured ELSE row.configured,
                        demoted |->
                          IF t.next.demoted # t.current.demoted
                          THEN t.next.demoted ELSE row.demoted]
        /\ tick' = [tick EXCEPT ![r] = Idle]
        /\ UNCHANGED <<gw, leader, fc, req, troubles, history>>

\* The transaction: a field is written where the tick changed it against the
\* row it read, whatever the row holds by now.
TickWrite(r) ==
    LET t == tick[r]
    IN  /\ t.at = "write"
        /\ row' = [configured |->
                     IF t.next.configured # t.current.configured
                     THEN t.next.configured ELSE row.configured,
                   demoted |->
                     IF t.next.demoted # t.current.demoted
                     THEN t.next.demoted ELSE row.demoted]
        /\ tick' = [tick EXCEPT ![r] = Idle]
        /\ UNCHANGED <<gw, leader, fc, req, troubles, history>>

\* The transaction fails, its audit included, and the controller keeps what
\* it counted.
TickFail(r) ==
    /\ tick[r].at = "write"
    /\ tick' = [tick EXCEPT ![r] = Idle]
    /\ Trouble
    /\ UNCHANGED <<gw, row, leader, fc, req, history>>

-----------------------------------------------------------------------------
(* The requests.                                                           *)

\* A request binds, unbinds, revokes or pins a gateway and commits.
Edit(h, m) ==
    /\ req[h].at = "idle"
    /\ \E capable \in BOOLEAN, pin \in 0..MaxPin :
          /\ gw' = [gw EXCEPT ![m].capable = capable, ![m].pin = pin]
          /\ gw' # gw
    /\ req' = [req EXCEPT ![h] = [NoRequest EXCEPT !.at = "edited"]]
    /\ Trouble
    /\ UNCHANGED <<row, leader, fc, tick, history>>

\* ReconcileHubSet loads the topology and elects.
ReconcileRead(h) ==
    /\ req[h].at = "edited"
    /\ req' = [req EXCEPT ![h] = [at |-> "write", configured |-> electSiteHubSet[gw]]]
    /\ UNCHANGED <<gw, row, leader, fc, tick, troubles, history>>

\* It writes the elected members and never the demoted ones.
ReconcileWrite(h) ==
    /\ req[h].at = "write"
    /\ row' = [row EXCEPT !.configured = req[h].configured]
    /\ req' = [req EXCEPT ![h] = NoRequest]
    /\ UNCHANGED <<gw, leader, fc, tick, troubles, history>>

\* The reconcile fails, which a bind, an unbind and a revoke only log.
ReconcileFail(h) ==
    /\ req[h].at # "idle"
    /\ req' = [req EXCEPT ![h] = NoRequest]
    /\ Trouble
    /\ UNCHANGED <<gw, row, leader, fc, tick, history>>

-----------------------------------------------------------------------------
(* What the gateways and the processes do by themselves.                   *)

\* A gateway stops or starts to report itself.
Report(m) ==
    /\ gw' = [gw EXCEPT ![m].healthy = ~@]
    /\ Trouble
    /\ UNCHANGED <<row, leader, fc, tick, req, history>>

\* The process dies with its counters, its tick and its leadership.
Restart(r) ==
    /\ fc' = [fc EXCEPT ![r] = NewFailoverController]
    /\ tick' = [tick EXCEPT ![r] = Idle]
    /\ leader' = IF leader = r THEN NoLeader ELSE leader
    /\ Trouble
    /\ UNCHANGED <<gw, row, req, history>>

\* The leader's session is lost.  The context of a tick under way is that of
\* the process, so the tick goes on, and so do the counters.
LoseLeadership ==
    /\ leader # NoLeader
    /\ leader' = NoLeader
    /\ Trouble
    /\ UNCHANGED <<gw, row, fc, tick, req, history>>

GainLeadership(r) ==
    /\ leader = NoLeader
    /\ leader' = r
    /\ UNCHANGED <<gw, row, fc, tick, req, troubles, history>>

Next ==
    \/ \E r \in Replicas : \/ \E seen \in [Members -> Verdicts] : Tick(r, seen)
                           \/ TickWrite(r)
                           \/ TickFail(r)
                           \/ Restart(r)
                           \/ GainLeadership(r)
    \/ LoseLeadership
    \/ \E h \in Handlers : \/ \E m \in Members : Edit(h, m)
                           \/ ReconcileRead(h)
                           \/ ReconcileWrite(h)
                           \/ ReconcileFail(h)
    \/ \E m \in Members : Report(m)

Spec == Init /\ [][Next]_vars

\* The ticker of the leader fires every FailoverTickInterval, a tick that is
\* under way ends, and some replica leads in the end (LeaderElection's
\* LeadershipReturns).
FairSpec ==
    /\ Spec
    /\ WF_vars(\E r \in Replicas : GainLeadership(r))
    /\ \A r \in Replicas :
          WF_vars(\/ \E seen \in [Members -> Verdicts] : Tick(r, seen)
                  \/ TickWrite(r))

-----------------------------------------------------------------------------
(* Properties.                                                             *)

\* A member enters the persisted demotion only when DemoteTicks ticks in a
\* row reported it stale since a controller last restored it, or when a new
\* process took its demotion over from the row, whatever was restarted,
\* failed to commit or edited in between (failover.go: a restart delays a
\* failover and never causes a spurious one).
NoSpuriousDemotion ==
    [][\A m \in Members :
          m \in ToSet(row'.demoted) \ ToSet(row.demoted) => m \in convicted]_vars

\* A tick takes a member of the set it elected out of the persisted demotion
\* only when RestoreTicks ticks in a row reported it fresh after its last
\* stale run: a still-stale primary is never restored by a restart or by a
\* failed transaction.  A set that shrank to one member drops its demotion
\* without a witness, and a member that had left the set is no failback,
\* though a request may have brought it back before the tick writes.
RestoreWitnessed ==
    [][\A r \in Replicas, m \in ToSet(row.demoted) \ ToSet(row'.demoted) :
          LET elected == tick[r].next.configured
          IN  tick'[r] # tick[r] /\ m \in ToSet(elected) /\ Len(elected) > 1
                => m \in cleared]_vars

\* A hub that stays stale while another member of the set stays fresh does
\* not stay the active head, through restarts and failed transactions.
DeadHubIsPassed ==
    \A m \in Members : \A k \in Members \ {m} :
        <>[](/\ runs[m].stale > 0 /\ runs[k].fresh > 0
             /\ {m, k} \subseteq ToSet(electSiteHubSet[gw])
             /\ row.configured = electSiteHubSet[gw])
          => <>[](Active(row) # << >> /\ Active(row)[1] # m)

\* A persisted set of several members that is not the elected one, because a
\* reconcile failed or wrote late, is corrected by the tick.  A late write
\* of a single member is out of its reach: ListFailoverOrgs skips the set.
StaleSetHeals ==
    [](Len(row.configured) > 1 /\ row.configured # electSiteHubSet[gw]
         => <>(row.configured = electSiteHubSet[gw] \/ Len(row.configured) <= 1))
=============================================================================
