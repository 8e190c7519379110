--------------------------- MODULE BaseAuthority ---------------------------
(***************************************************************************)
(* How a connector pool enters and leaves fenced HA.  While a pool is      *)
(* fenced, every member gateway suppresses the pool's fields in the        *)
(* ordinary desired state (the base), durably, and only the owner's lease  *)
(* serves them.  The control plane's leader arms, maintains and releases   *)
(* the fences by base authorities: numbered statements about one exact     *)
(* base, delivered with it, acknowledged after it is applied               *)
(* (apps/api/internal/nodes/handoff_ha_transition.go,                      *)
(* handoff_base_authority_maintenance.go, k8s_base_authority_store.go,     *)
(* handoff_ha_runtime.go, http/k8s_base_authority.go, k8s/ha_activation.go;*)
(* apps/node/internal/ownershiplease/coordinator.go, fence.go,             *)
(* fence_store.go, base_authority.go, projector.go and                     *)
(* apps/node/cmd/agent/dataplane_lane.go).                                 *)
(*                                                                         *)
(* A database transaction is one action, and what the leader read in one   *)
(* is kept in draft until the next uses it.  A gateway takes one step per  *)
(* durable write or message; it crashes between any two.  What it records  *)
(* of a receipt on its way only fixes the receipt's date and is left out.  *)
(*                                                                         *)
(* The fields of a pool are a set of services; the rest of the base is one *)
(* value; a hash is the content it is of.  Every node is a member of every *)
(* pool and sees the same content; membership and generation do not change *)
(* (PoolHandoff has the handoffs).  Time is the age of a delivery in       *)
(* AuthorityTTL buckets and a receipt's turning stale.                     *)
(***************************************************************************)
EXTENDS Integers, Sequences, FiniteSets

CONSTANTS
  Nodes,       \* the members of every pool, in the order of their ids
  Pools, Services,
  Owner,       \* Owner[p]: the pool's active node
  None,        \* a nil pointer, a missing row
  Torn,        \* a fence file that does not read back
  MaxRev,      \* bound on a pool's transition revision
  MaxAuth,     \* bound on the authorities issued to a node
  MaxEdits,    \* bound on the changes of the base
  MaxVer,      \* bound on the push hub's version
  MaxTroubles  \* bound on the crashes, failed and torn writes of the
               \* gateways and the expiries of deliveries and receipts

ASSUME AuthorityAssumption ==
  /\ Nodes \subseteq Nat /\ IsFiniteSet(Nodes) /\ Cardinality(Nodes) >= 2
  /\ Owner \in [Pools -> Nodes]
  /\ {MaxRev, MaxAuth, MaxEdits, MaxTroubles} \subseteq Nat /\ MaxVer \in Nat \ {0}

Content == [fields : [Pools -> SUBSET Services], rest : {0, 1}]
\* at and ver are of the base that armed the fence, or released it.
Fence   == [armed : BOOLEAN, sup : SUBSET Services, at : Content, ver : Nat]
Fences  == [Pools -> Fence \cup {None}]
Stored  == [content : Content, ver : Nat]

\* A row of k8s_base_authority_deliveries, its pools and its receipt.  The
\* authority revision is its place in the node's sequence.  rev is the
\* transition revision, 0 for an ordinary base.  age 0 is the bucket of issue.
Delivery ==
  [kind : {"arm", "maintain", "unfence", "ordinary"}, pools : SUBSET Pools,
   cls : [Pools -> SUBSET Services], rev : Nat, ver : Nat, content : Content,
   age : 0 .. 2, receipt : {"none", "fresh", "stale"}]

\* What the leader carries from one transaction of a tick to the next: the
\* plan's pools, revision and fields, the base read for each node, and the
\* nodes whose transaction of this stage has committed.
Draft ==
  [what : {"none", "arm", "maintain", "drain"}, pools : SUBSET Pools, rev : Nat,
   cls : [Pools -> SUBSET Services], got : [Nodes -> Stored \cup {None}],
   stage : {"planned", "issued", "ready", "leased"}, done : SUBSET Nodes]

PoolRow  == [req : {"legacy", "fenced_ha"},
             act : {"legacy", "bootstrap_pending", "fenced_ha", "drain_pending"},
             rev : Nat]
LeaseRow == [st : {"none", "issued", "acked", "renewed"}, cls : SUBSET Services]
Hand     == [stage : {"idle", "fetched", "accepted", "acking"},
             auth : Nat, content : Content, ver : Nat]

\* A nil pointer and a damaged file are no value that could be read.
ASSUME NilAssumption ==
  /\ None \notin Fences \cup Fence \cup Stored \cup Pools \cup Delivery
  /\ Torn \notin Fences

VARIABLES
  base,        \* what the compiler makes of the tables: the ordinary base
  ver,         \* nodepush.Hub's version
  spent,       \* what of the bounds on edits and troubles is used up
  enabled,     \* k8s_ha_settings.enabled
  pool,        \* pool[p]: k8s_connector_pool_ha_transitions
  lease,       \* lease[p]: the serving rows of p that have not expired
  draft,       \* the leader between two of its transactions
  deliveries,  \* deliveries[n]: the authorities issued to n
  auth,        \* auth[n]: the revision in the gateway's authority file
  file,        \* file[n]: its fence file
  mem,         \* mem[n]: Coordinator.fences, None until loaded
  proj,        \* proj[n]: Projector.base, None until one is installed
  serving,     \* serving[n]: the pool of Projector.active, or None
  hand         \* hand[n]: the desired state under way on n

baseVars == <<base, ver>>
poolVars == <<enabled, pool, lease>>
nodeVars == <<auth, file, mem, proj, serving, hand>>
vars     == <<baseVars, spent, poolVars, draft, deliveries, nodeVars>>

NoCls    == [p \in Pools |-> {}]
NoFences == [p \in Pools |-> None]
NoBase   == [fields |-> NoCls, rest |-> 0]
NoDraft  == [what |-> "none", pools |-> {}, rev |-> 0, cls |-> NoCls,
             got |-> [n \in Nodes |-> None], stage |-> "planned", done |-> {}]
Idle     == [stage |-> "idle", auth |-> 0, content |-> NoBase, ver |-> 0]

TypeOK ==
  /\ base \in Content /\ ver \in 1 .. MaxVer
  /\ spent \in [{"edits", "troubles"} -> Nat]
  /\ enabled \in BOOLEAN
  /\ pool \in [Pools -> PoolRow]
  /\ lease \in [Pools -> LeaseRow]
  /\ draft \in Draft
  /\ deliveries \in [Nodes -> Seq(Delivery)]
  /\ auth \in [Nodes -> Nat]
  /\ file \in [Nodes -> Fences \cup {Torn}]
  /\ mem \in [Nodes -> Fences \cup {None}]
  /\ proj \in [Nodes -> Stored \cup {None}]
  /\ serving \in [Nodes -> Pools \cup {None}]
  /\ hand \in [Nodes -> Hand]
  /\ \A n \in Nodes : {auth[n], hand[n].auth} \subseteq 0 .. Len(deliveries[n])

Spend(what, bound) == spent[what] < bound /\ spent' = [spent EXCEPT ![what] = @ + 1]
Trouble == Spend("troubles", MaxTroubles)

Init ==
  /\ base \in [fields : {[p \in Pools |-> {s}] : s \in Services}, rest : {0}]
  /\ ver = 1 /\ spent = [x \in {"edits", "troubles"} |-> 0]
  /\ enabled = TRUE
  /\ pool = [p \in Pools |-> [req |-> "legacy", act |-> "legacy", rev |-> 0]]
  /\ lease = [p \in Pools |-> [st |-> "none", cls |-> {}]]
  /\ draft = NoDraft
  /\ deliveries = [n \in Nodes |-> << >>]
  /\ auth = [n \in Nodes |-> 0]
  /\ file = [n \in Nodes |-> NoFences]
  /\ mem = [n \in Nodes |-> None]
  /\ proj = [n \in Nodes |-> None]
  /\ serving = [n \in Nodes |-> None]
  /\ hand = [n \in Nodes |-> Idle]

-----------------------------------------------------------------------------
(* The gateway's fences.                                                   *)

\* mergeFence: what was suppressed stays so, and a release is forgotten.
Merge(f, fields, content, v) ==
  [armed |-> TRUE, sup |-> (IF f = None THEN {} ELSE f.sup) \cup fields,
   at |-> content, ver |-> v]

Armed(fences) == {p \in Pools : fences[p] # None /\ fences[p].armed}

\* Not fenceReleasedForBase: a released fence still holds for older bases.
Suppresses(f, content, v) ==
  /\ f # None
  /\ f.armed \/ v < f.ver \/ (v = f.ver /\ content # f.at)

\* filterFencedBase: what of p's fields is left of the base.
Visible(fences, stored, p) ==
  stored.content.fields[p] \
    (IF Suppresses(fences[p], stored.content, stored.ver) THEN fences[p].sup ELSE {})

\* The disposition of p in authority d, None when d says nothing of it.
Classifies(d, p) == d # None /\ p \in d.pools /\ d.kind # "unfence"
Unfences(d, p)   == d # None /\ p \in d.pools /\ d.kind = "unfence"

\* Faulty variant: an unclassified fence does not stop a changed base.
MayUpdateAnyBase(fences, content, d, srv) ==
  /\ d # None /\ d.kind \in {"maintain", "ordinary"} => d.pools \subseteq Armed(fences)
  /\ d # None /\ d.kind = "unfence" =>
       srv = None /\ \A p \in d.pools : fences[p] # None

\* UpdateBase goes through: a maintained pool is armed, every armed pool is
\* named by the authority or is bound to this very content, and nothing is
\* released while the gateway serves.
MayUpdate(fences, content, d, srv) ==
  /\ d # None /\ d.kind \in {"maintain", "ordinary"} => d.pools \subseteq Armed(fences)
  /\ \A p \in Armed(fences) :
       Classifies(d, p) \/ Unfences(d, p) \/ fences[p].at = content
  /\ d # None /\ d.kind = "unfence" =>
       srv = None /\ \A p \in d.pools : fences[p] # None

\* The fences UpdateBase leaves.
Updated(fences, h, d) ==
  [p \in Pools |->
     IF Classifies(d, p) THEN Merge(fences[p], d.cls[p], h.content, h.ver)
     ELSE IF Unfences(d, p)
          THEN [fences[p] EXCEPT !.armed = FALSE, !.at = h.content, !.ver = h.ver]
          ELSE fences[p]]

\* ensureLoaded
Readable(n)  == mem[n] # None \/ file[n] # Torn
FencesOf(n)  == IF mem[n] # None THEN mem[n] ELSE file[n]
Authority(n) == IF hand[n].auth = 0 THEN None ELSE deliveries[n][hand[n].auth]

\* SaveFences leaves one of contents in the file, or a torn file in its place:
\* Chmod's err shadows the one the copy sets, so a short write is renamed too.
SaveFences(n, contents) ==
  \E w \in contents \cup {Torn} :
    /\ file' = [file EXCEPT ![n] = w]
    /\ IF w \in contents THEN UNCHANGED spent ELSE Trouble

-----------------------------------------------------------------------------
(* The gateway: fetch, apply, acknowledge.                                 *)

\* LoadPending: the newest authority, unless acknowledged or expired.
Pending(n) ==
  LET i == Len(deliveries[n])
  IN  IF i # 0 /\ deliveries[n][i].receipt = "none" /\ deliveries[n][i].age < 2
      THEN i ELSE 0

\* The agent route answers with the base and the pending authority; it fails
\* when they are not of the same content.  The version is the authority's.
Fetch(n) ==
  /\ hand[n].stage = "idle"
  /\ LET i == Pending(n)
         d == deliveries[n][i]
     IN  /\ i # 0 => d.content = base /\ d.ver <= ver
         /\ hand' = [hand EXCEPT ![n] =
              [stage |-> "fetched", auth |-> i, content |-> base,
               ver |-> IF i = 0 THEN ver ELSE d.ver]]
  /\ UNCHANGED <<baseVars, spent, poolVars, draft, deliveries, auth, file, mem, proj, serving>>

\* UpdateBase up to acceptBaseAuthority: the revision is on disk before the
\* fences are.
Accept(n) ==
  /\ hand[n].stage = "fetched" /\ Readable(n)
  /\ MayUpdate(FencesOf(n), hand[n].content, Authority(n), serving[n])
  /\ hand[n].auth # 0 => hand[n].auth >= auth[n]
  /\ mem' = [mem EXCEPT ![n] = FencesOf(n)]
  /\ auth' = [auth EXCEPT ![n] = IF hand[n].auth = 0 THEN @ ELSE hand[n].auth]
  /\ hand' = [hand EXCEPT ![n].stage = "accepted"]
  /\ UNCHANGED <<baseVars, spent, poolVars, draft, deliveries, file, proj, serving>>

\* UpdateBase refuses: the base is not installed, the last one stays.
Reject(n) ==
  /\ hand[n].stage = "fetched"
  /\ Readable(n) =>
       \/ ~MayUpdate(FencesOf(n), hand[n].content, Authority(n), serving[n])
       \/ hand[n].auth # 0 /\ hand[n].auth < auth[n]
  /\ mem' = [mem EXCEPT ![n] = IF Readable(n) THEN FencesOf(n) ELSE @]
  /\ hand' = [hand EXCEPT ![n] = Idle]
  /\ UNCHANGED <<baseVars, spent, poolVars, draft, deliveries, auth, file, proj, serving>>

\* What follows an installed base: with an authority, ReconcileCurrent and
\* PrepareBaseAuthorityAck must find the data plane as projected, or fail.
Acking(h) == IF h.auth = 0 THEN {Idle} ELSE {Idle, [h EXCEPT !.stage = "acking"]}

\* Faulty variant: the fences reach the projector but not the disk.
InstallUnsaved(n) ==
  /\ hand[n].stage = "accepted"
  /\ mem' = [mem EXCEPT ![n] = Updated(mem[n], hand[n], Authority(n))]
  /\ proj' = [proj EXCEPT ![n] = [content |-> hand[n].content, ver |-> hand[n].ver]]
  /\ \E h \in Acking(hand[n]) : hand' = [hand EXCEPT ![n] = h]
  /\ UNCHANGED <<baseVars, spent, poolVars, draft, deliveries, auth, file, serving>>

\* Faulty variant: the projector takes the base with the fences it had.
InstallOldFences(n) ==
  /\ hand[n].stage = "accepted"
  /\ SaveFences(n, {Updated(mem[n], hand[n], Authority(n))})
  /\ proj' = [proj EXCEPT ![n] = [content |-> hand[n].content, ver |-> hand[n].ver]]
  /\ \E h \in Acking(hand[n]) : hand' = [hand EXCEPT ![n] = h]
  /\ UNCHANGED <<baseVars, poolVars, draft, deliveries, auth, mem, serving>>

\* The rest of UpdateBase: the fences are saved if they changed, then the
\* projector takes base and fences at once.
Install(n) ==
  /\ hand[n].stage = "accepted"
  /\ LET next == Updated(mem[n], hand[n], Authority(n))
     IN  /\ IF next = mem[n] THEN UNCHANGED <<file, spent>> ELSE SaveFences(n, {next})
         /\ mem' = [mem EXCEPT ![n] = next]
  /\ proj' = [proj EXCEPT ![n] = [content |-> hand[n].content, ver |-> hand[n].ver]]
  /\ \E h \in Acking(hand[n]) : hand' = [hand EXCEPT ![n] = h]
  /\ UNCHANGED <<baseVars, poolVars, draft, deliveries, auth, serving>>

\* What the file may hold when SaveFences has returned an error, or the process
\* died in it: the rename may have happened.
MaybeWritten(n, fences) == {file[n], fences, Torn}

\* SaveFences fails, or the projector refuses the base under the active
\* overlay, which the probe before Accept did not have: memory keeps the old
\* fences although the file may hold the new ones.
InstallFails(n) ==
  /\ hand[n].stage = "accepted"
  /\ \E w \in MaybeWritten(n, Updated(mem[n], hand[n], Authority(n))) :
       file' = [file EXCEPT ![n] = w]
  /\ hand' = [hand EXCEPT ![n] = Idle]
  /\ Trouble
  /\ UNCHANGED <<baseVars, poolVars, draft, deliveries, auth, mem, proj, serving>>

\* AcknowledgeKubernetesOwnershipBaseAuthority: only the newest authority may
\* still get its receipt, and not when it has expired.  The request may be
\* lost.
Post(n) ==
  /\ hand[n].stage = "acking"
  /\ LET i == hand[n].auth
         d == deliveries[n][i]
     IN  \/ /\ d.receipt = "none" /\ d.age < 2 /\ i = Len(deliveries[n])
            /\ deliveries' = [deliveries EXCEPT ![n][i].receipt = "fresh"]
         \/ UNCHANGED deliveries
  /\ hand' = [hand EXCEPT ![n] = Idle]
  /\ UNCHANGED <<baseVars, spent, poolVars, draft, auth, file, mem, proj, serving>>

\* The agent's command lane and the coordinator's mutex are free.
LaneFree(n) == hand[n].stage # "accepted"

\* The fences that armFence makes for the lease of p.
Rearmed(n, p) == [FencesOf(n) EXCEPT ![p] = Merge(@, lease[p].cls, proj[n].content, proj[n].ver)]

\* ApplyAndReadback is called with the serving lease of p, and has a base.
MayServe(n, p) ==
  n = Owner[p] /\ lease[p].st # "none" /\ LaneFree(n) /\ Readable(n) /\ proj[n] # None

\* ApplyAndReadback of a serving lease: armFence, then the overlay.  A stage
\* fails and is compensated, which leaves the fence; or the lease is served, and
\* its receipt may be lost.
Serve(n, p) ==
  /\ MayServe(n, p)
  /\ mem' = [mem EXCEPT ![n] = Rearmed(n, p)]
  /\ SaveFences(n, {Rearmed(n, p)})
  /\ \/ serving' = [serving EXCEPT ![n] = None] /\ UNCHANGED lease
     \/ /\ serving' = [serving EXCEPT ![n] = p]
        /\ lease' \in {lease, [lease EXCEPT ![p].st = "acked"]}
  /\ UNCHANGED <<baseVars, enabled, pool, draft, deliveries, auth, proj, hand>>

\* armFence fails: nothing is served anew, but its save may have happened.
ServeFails(n, p) ==
  /\ MayServe(n, p)
  /\ mem' = [mem EXCEPT ![n] = FencesOf(n)]
  /\ \E w \in MaybeWritten(n, Rearmed(n, p)) : file' = [file EXCEPT ![n] = w]
  /\ Trouble
  /\ UNCHANGED <<baseVars, poolVars, draft, deliveries, auth, proj, serving, hand>>

\* The lease lifecycle withdraws the overlay (OwnershipLease says when).
Withdraw(n) ==
  /\ serving[n] # None /\ LaneFree(n)
  /\ serving' = [serving EXCEPT ![n] = None]
  /\ UNCHANGED <<baseVars, spent, poolVars, draft, deliveries, auth, file, mem, proj, hand>>

\* The process dies; a save in flight happened or did not.
Crash(n) ==
  /\ mem[n] # None \/ hand[n].stage # "idle"
  /\ \E w \in (IF hand[n].stage = "accepted"
               THEN MaybeWritten(n, Updated(mem[n], hand[n], Authority(n)))
               ELSE {file[n]}) :
       file' = [file EXCEPT ![n] = w]
  /\ mem' = [mem EXCEPT ![n] = None] /\ proj' = [proj EXCEPT ![n] = None]
  /\ serving' = [serving EXCEPT ![n] = None] /\ hand' = [hand EXCEPT ![n] = Idle]
  /\ Trouble
  /\ UNCHANGED <<baseVars, poolVars, draft, deliveries, auth>>

-----------------------------------------------------------------------------
(* What the control plane's ledger says.                                   *)

Acked(d)   == d.receipt # "none"
Expired(d) == d.age = 2
Newest(n)  == deliveries[n][Len(deliveries[n])]

\* The acknowledged authorities of n that name p.
AckedOf(n, p) ==
  {i \in DOMAIN deliveries[n] : Acked(deliveries[n][i]) /\ p \in deliveries[n][i].pools}

\* loadAcceptedKubernetesOwnershipClassificationPools: the pools whose last
\* acknowledged authority on n is a classification.
Accepted(n) ==
  {p \in Pools : \E i \in AckedOf(n, p) :
     /\ Classifies(deliveries[n][i], p)
     /\ \A j \in AckedOf(n, p) : j <= i}

\* The transition authorities of p on n at revision r.
AtRevision(n, p, r) ==
  {i \in DOMAIN deliveries[n] :
     /\ deliveries[n][i].kind # "ordinary"
     /\ deliveries[n][i].rev = r /\ p \in deliveries[n][i].pools}

\* classifyHandoffHAAuthorityRetry: evidence of that kind expired without a
\* receipt, or its receipt is older than MaxAckAge.
Retryable(kind, p, r) ==
  \E n \in Nodes : \E i \in AtRevision(n, p, r) :
    LET d == deliveries[n][i]
    IN  d.kind = kind /\ (d.receipt = "stale" \/ (~Acked(d) /\ Expired(d)))

\* Faulty variant: an issued authority counts as acknowledged.
ReceiptIssued(n, kind, p, r) ==
  \E i \in AtRevision(n, p, r) : deliveries[n][i].kind = kind

\* exactHandoffHAAuthorityReceipts: what the draft issued as kind at r has a
\* fresh receipt of n.
Receipt(n, kind, p, r) ==
  \E i \in AtRevision(n, p, r) :
    deliveries[n][i].kind = kind /\ deliveries[n][i].receipt = "fresh"

Issued(kind, P, cls, r, stored) ==
  [kind |-> kind, pools |-> P, cls |-> [p \in Pools |-> IF p \in P THEN cls[p] ELSE {}],
   rev |-> r, ver |-> stored.ver, content |-> stored.content,
   age |-> 0, receipt |-> "none"]

SameAuthority(d, e) ==
  d.kind = e.kind /\ d.pools = e.pools /\ d.cls = e.cls
    /\ d.content = e.content /\ d.ver = e.ver

\* issueKubernetesOwnershipBaseAuthorityTx for a transition: n's ledger after e
\* was issued about p, or nothing when it is refused.  An authority of p at this
\* revision is replayed when it is the same, its expiry (age) included.
Transition(n, p, e, ages) ==
  LET at == AtRevision(n, p, e.rev)
  IN  IF at = {} THEN {l \in {Append(deliveries[n], e)} : Len(l) <= MaxAuth}
      ELSE {l \in {deliveries[n]} :
              \E i \in at : at = {i} /\ SameAuthority(l[i], e) /\ l[i].age \in ages}

\* issueKubernetesOwnershipBaseAuthorityTx for an ordinary base: refused while
\* the newest authority is a transition without receipt; the newest is
\* replayed when it is the same and can still be fetched or is acknowledged,
\* and then its version is not compared.
SameOrdinary(d, e) ==
  /\ d.kind \in {"maintain", "ordinary"}
  /\ d.pools = e.pools /\ d.cls = e.cls /\ d.content = e.content
  /\ d.ver = e.ver \/ (d.kind = "ordinary" /\ Acked(d))
  /\ Acked(d) \/ ~Expired(d)

Ordinary(n, e) ==
  IF Newest(n).kind # "ordinary" /\ ~Acked(Newest(n)) THEN {}
  ELSE IF SameOrdinary(Newest(n), e) THEN {deliveries[n]}
  ELSE {l \in {Append(deliveries[n], e)} : Len(l) <= MaxAuth}

-----------------------------------------------------------------------------
(* The leader's tick: arm, maintain, drain.                                *)

Holds(p, req, act) == pool[p].req = req /\ pool[p].act = act
Draining(p)        == Holds(p, "legacy", "drain_pending")
Arming(p)          == enabled /\ Holds(p, "fenced_ha", "bootstrap_pending")
Fenced(p)          == enabled /\ Holds(p, "fenced_ha", "fenced_ha")

\* The live serving rows of p that are acknowledged, and the newest row.
LiveAcked(p) == lease[p].st \in {"acked", "renewed"}
Leased(p, fields) ==
  [st |-> IF LiveAcked(p) THEN "renewed" ELSE "issued", cls |-> fields]

\* The pool's revision after a retry: the evidence at the old one is left as
\* it is.
Retried(kind, p) == pool[p].rev + (IF Retryable(kind, p, pool[p].rev) THEN 1 ELSE 0)

Plan(what, P, r, cls) ==
  draft' = [NoDraft EXCEPT !.what = what, !.pools = P, !.rev = r, !.cls = cls]

\* LoadHandoffBootstrapPlanWithLeadership and
\* advanceRetryableHandoffAuthorityWithLeadership
ArmPlan(p) ==
  /\ draft = NoDraft /\ Arming(p) /\ base.fields[p] # {}
  /\ Retried("arm", p) <= MaxRev
  /\ pool' = [pool EXCEPT ![p].rev = Retried("arm", p)]
  /\ Plan("arm", {p}, Retried("arm", p), base.fields)
  /\ UNCHANGED <<baseVars, spent, enabled, lease, deliveries, nodeVars>>

\* The fenced scopes and their plans, read for reconcileFencedPools.
MaintainPlan ==
  LET P == {p \in Pools : Fenced(p) /\ base.fields[p] # {}}
  IN  /\ draft = NoDraft /\ P # {}
      /\ Plan("maintain", P, 0, base.fields)
      /\ UNCHANGED <<baseVars, spent, poolVars, deliveries, nodeVars>>

\* The reads of ReconcileHandoffOwnershipDrainWithLeadership and its retry.  It
\* waits for acknowledged leases to run out, and takes the fields of the last
\* acknowledged classification; which node's receipt is the last is left open.
DrainPlan(p) ==
  /\ draft = NoDraft /\ Draining(p) /\ ~LiveAcked(p)
  /\ Retried("maintain", p) <= MaxRev
  /\ pool' = [pool EXCEPT ![p].rev = Retried("maintain", p)]
  /\ \E n \in Nodes : \E i \in AckedOf(n, p) :
       /\ Classifies(deliveries[n][i], p)
       /\ \A j \in AckedOf(n, p) : Classifies(deliveries[n][j], p) => j <= i
       /\ Plan("drain", {p}, Retried("maintain", p), deliveries[n][i].cls)
  /\ UNCHANGED <<baseVars, spent, enabled, lease, deliveries, nodeVars>>

\* Nodes are visited in the order of their ids.
First(S) == CHOOSE n \in S : \A k \in S : n <= k
Unread   == {n \in Nodes : draft.got[n] = None}
Undone   == Nodes \ draft.done

\* HandoffBaseState of the next node, outside any transaction.  A drain reads
\* it just before it issues to that node.
ReadBase ==
  /\ draft.what # "none" /\ draft.stage = "planned" /\ Unread # {}
  /\ draft.what = "drain" => First(Unread) = First(Undone)
  /\ draft' = [draft EXCEPT !.got[First(Unread)] = [content |-> base, ver |-> ver]]
  /\ UNCHANGED <<baseVars, spent, poolVars, deliveries, nodeVars>>

\* loadHandoffHATransitionSnapshot finds what the plan was made from.
ArmCurrent(p) == Arming(p) /\ pool[p].rev = draft.rev

\* The issuing transaction of ArmHandoffOwnershipBaseWithLeadership: all nodes
\* or none.
ArmIssue(p) ==
  /\ draft.what = "arm" /\ draft.pools = {p} /\ draft.stage = "planned" /\ Unread = {}
  /\ ArmCurrent(p)
  /\ LET ledgers == [n \in Nodes |->
           Transition(n, p, Issued("arm", {p}, draft.cls, draft.rev, draft.got[n]), 0 .. 1)]
     IN  /\ \A n \in Nodes : ledgers[n] # {}
         /\ deliveries' = [n \in Nodes |-> CHOOSE l \in ledgers[n] : TRUE]
  /\ draft' = [draft EXCEPT !.stage = "issued"]
  /\ UNCHANGED <<baseVars, spent, poolVars, nodeVars>>

\* Its ready transaction: every member has a fresh arm receipt.
ArmReady(p) ==
  /\ draft.what = "arm" /\ draft.pools = {p} /\ draft.stage = "issued"
  /\ ArmCurrent(p) /\ \A n \in Nodes : Receipt(n, "arm", p, draft.rev)
  /\ draft' = [draft EXCEPT !.stage = "ready"]
  /\ UNCHANGED <<baseVars, spent, poolVars, deliveries, nodeVars>>

\* IssueHandoffBootstrapEnvelopeWithLeadership of the owner's serving lease:
\* the plan is derived again from the tables, the mode is not looked at.  A
\* lease of these fields is replayed, or issued anew in a later expiry bucket.
ArmLease(p) ==
  /\ draft.what = "arm" /\ draft.pools = {p} /\ draft.stage = "ready"
  /\ base.fields[p] = draft.cls[p]
  /\ \/ lease' = [lease EXCEPT ![p] = Leased(p, draft.cls[p])]
     \/ lease[p].st # "none" /\ lease[p].cls = draft.cls[p] /\ UNCHANGED lease
  /\ draft' = [draft EXCEPT !.stage = "leased"]
  /\ UNCHANGED <<baseVars, spent, enabled, pool, deliveries, nodeVars>>

\* ConfirmHandoffOwnershipModeTransitionWithLeadership
ArmConfirm(p) ==
  /\ draft.what = "arm" /\ draft.pools = {p} /\ draft.stage = "leased"
  /\ ArmCurrent(p)
  /\ \A n \in Nodes : Receipt(n, "arm", p, draft.rev)
  /\ lease[p] = [st |-> "acked", cls |-> draft.cls[p]]
  /\ draft.cls[p] \subseteq base.fields[p]
  /\ pool' = [pool EXCEPT ![p].act = "fenced_ha"]
  /\ draft' = NoDraft
  /\ UNCHANGED <<baseVars, spent, enabled, lease, deliveries, nodeVars>>

\* The transaction of maintainHandoffOrdinaryBase: every node gets, or still
\* has, one authority for all its fenced pools; when all have acknowledged it
\* the leases are renewed.
MaintainIssue ==
  /\ draft.what = "maintain" /\ Unread = {}
  /\ \A p \in draft.pools : Fenced(p) /\ base.fields[p] = draft.cls[p]
  /\ \A n \in Nodes : Accepted(n) = draft.pools
  /\ LET ledgers == [n \in Nodes |->
           Ordinary(n, Issued("ordinary", draft.pools, draft.cls, 0, draft.got[n]))]
     IN  /\ \A n \in Nodes : ledgers[n] # {}
         /\ deliveries' = [n \in Nodes |-> CHOOSE l \in ledgers[n] : TRUE]
  /\ lease' = [p \in Pools |->
       IF p \in draft.pools /\ \A n \in Nodes : deliveries'[n] = deliveries[n] /\ Acked(Newest(n))
       THEN Leased(p, draft.cls[p]) ELSE lease[p]]
  /\ draft' = NoDraft
  /\ UNCHANGED <<baseVars, spent, enabled, pool, nodeVars>>

\* The drain's maintain authority, a transaction of its own per node.  The
\* expiry is computed anew, so only a row of this very bucket is replayed.
DrainIssue(p) ==
  LET n == First(Undone)
  IN  /\ draft.what = "drain" /\ draft.pools = {p} /\ draft.stage = "planned"
      /\ Undone # {} /\ draft.got[n] # None
      /\ \E l \in Transition(n, p, Issued("maintain", {p}, draft.cls, draft.rev, draft.got[n]), {0}) :
           deliveries' = [deliveries EXCEPT ![n] = l]
      /\ draft' = [draft EXCEPT !.done = @ \cup {n}]
      /\ UNCHANGED <<baseVars, spent, poolVars, nodeVars>>

\* Faulty variant: only the owner's maintain receipt is awaited.
DrainReadyOwnerOnly(p) ==
  /\ draft.what = "drain" /\ draft.pools = {p} /\ draft.stage = "planned"
  /\ Undone = {} /\ Receipt(Owner[p], "maintain", p, draft.rev)
  /\ draft' = [draft EXCEPT !.stage = "issued", !.done = {}]
  /\ UNCHANGED <<baseVars, spent, poolVars, deliveries, nodeVars>>

\* Every member has a fresh maintain receipt.
DrainReady(p) ==
  /\ draft.what = "drain" /\ draft.pools = {p} /\ draft.stage = "planned"
  /\ Undone = {} /\ \A n \in Nodes : Receipt(n, "maintain", p, draft.rev)
  /\ draft' = [draft EXCEPT !.stage = "issued", !.done = {}]
  /\ UNCHANGED <<baseVars, spent, poolVars, deliveries, nodeVars>>

\* The release, at the next revision and about the base that was maintained; the
\* pool's row is not read again.
DrainUnfence(p) ==
  LET n == First(Undone)
  IN  /\ draft.what = "drain" /\ draft.pools = {p} /\ draft.stage = "issued"
      /\ Undone # {}
      /\ \E l \in Transition(n, p, Issued("unfence", {p}, NoCls, draft.rev + 1, draft.got[n]), {0}) :
           deliveries' = [deliveries EXCEPT ![n] = l]
      /\ draft' = [draft EXCEPT !.done = @ \cup {n}]
      /\ UNCHANGED <<baseVars, spent, poolVars, nodeVars>>

\* The last transaction of the drain.
DrainFinish(p) ==
  /\ draft.what = "drain" /\ draft.pools = {p} /\ draft.stage = "issued"
  /\ Undone = {} /\ \A n \in Nodes : Receipt(n, "unfence", p, draft.rev + 1)
  /\ Draining(p) /\ pool[p].rev = draft.rev /\ ~LiveAcked(p)
  /\ pool' = [pool EXCEPT ![p].act = "legacy", ![p].rev = draft.rev + 1]
  /\ draft' = NoDraft
  /\ UNCHANGED <<baseVars, spent, enabled, lease, deliveries, nodeVars>>

\* A step of the tick is refused, finds no receipt or loses its session, or the
\* leader dies: the tick ends, and the next one starts from the tables.
Abandon ==
  /\ draft # NoDraft
  /\ draft' = NoDraft
  /\ UNCHANGED <<baseVars, spent, poolVars, deliveries, nodeVars>>

-----------------------------------------------------------------------------
(* Operators, other writers, time.                                         *)

\* Faulty variant: requested and actual mode are written to each other's column.
RequestSwapped(p, mode) ==
  /\ pool[p].req # mode /\ (mode = "fenced_ha" => enabled)
  /\ pool[p].rev < MaxRev
  /\ pool' = [pool EXCEPT ![p] =
       [act |-> mode, rev |-> @.rev + 1,
        req |-> IF mode = "fenced_ha" THEN "bootstrap_pending" ELSE "drain_pending"]]
  /\ UNCHANGED <<baseVars, spent, enabled, lease, draft, deliveries, nodeVars>>

\* SetConnectorPoolHAMode; the revision row does not exist at 0.
Request(p, mode) ==
  /\ pool[p].req # mode /\ (mode = "fenced_ha" => enabled)
  /\ pool[p].rev < MaxRev
  /\ pool' = [pool EXCEPT ![p] =
       [req |-> mode, rev |-> @.rev + 1,
        act |-> IF mode = "fenced_ha" THEN "bootstrap_pending" ELSE "drain_pending"]]
  /\ UNCHANGED <<baseVars, spent, enabled, lease, draft, deliveries, nodeVars>>

\* SetHASettings, switched off: every pool that is not legacy through and
\* through is sent to drain at a new revision, one already draining too.
OptOut ==
  LET P == {p \in Pools : ~Holds(p, "legacy", "legacy")}
  IN  /\ enabled /\ \A p \in P : pool[p].rev < MaxRev
      /\ enabled' = FALSE
      /\ pool' = [p \in Pools |->
           IF p \notin P THEN pool[p]
           ELSE [req |-> "legacy", rev |-> pool[p].rev + 1,
                 act |-> IF pool[p].act = "legacy" THEN "legacy" ELSE "drain_pending"]]
      /\ UNCHANGED <<baseVars, spent, lease, draft, deliveries, nodeVars>>

OptIn ==
  /\ ~enabled /\ enabled' = TRUE
  /\ UNCHANGED <<baseVars, spent, pool, lease, draft, deliveries, nodeVars>>

\* A service of a pool appears or goes, or another part of the base changes.
Edit ==
  /\ Spend("edits", MaxEdits)
  /\ \/ \E p \in Pools, s \in Services :
          base' = [base EXCEPT !.fields[p] = (@ \ {s}) \cup ({s} \ @)]
     \/ base' = [base EXCEPT !.rest = 1 - @]
  /\ UNCHANGED <<ver, poolVars, draft, deliveries, nodeVars>>

\* nodepush.Hub.Notify
Notify ==
  /\ ver < MaxVer /\ ver' = ver + 1
  /\ UNCHANGED <<base, spent, poolVars, draft, deliveries, nodeVars>>

\* The next AuthorityTTL bucket begins.
NextBucket ==
  /\ \E n \in Nodes : \E i \in DOMAIN deliveries[n] : ~Expired(deliveries[n][i])
  /\ deliveries' = [n \in Nodes |-> [i \in DOMAIN deliveries[n] |->
       [deliveries[n][i] EXCEPT !.age = IF @ = 2 THEN 2 ELSE @ + 1]]]
  /\ Trouble
  /\ UNCHANGED <<baseVars, poolVars, draft, nodeVars>>

\* A node's oldest fresh receipt is now older than MaxAckAge.
GoStale(n) ==
  LET fresh == {i \in DOMAIN deliveries[n] : deliveries[n][i].receipt = "fresh"}
  IN  /\ fresh # {}
      /\ deliveries' = [deliveries EXCEPT ![n][First(fresh)].receipt = "stale"]
      /\ Trouble
      /\ UNCHANGED <<baseVars, poolVars, draft, nodeVars>>

\* The older of a pool's live serving rows expires.
LeaseLapse(p) ==
  /\ lease[p].st # "none"
  /\ lease' = [lease EXCEPT ![p] =
       IF @.st = "renewed" THEN [@ EXCEPT !.st = "issued"] ELSE [st |-> "none", cls |-> {}]]
  /\ UNCHANGED <<baseVars, spent, enabled, pool, draft, deliveries, nodeVars>>

-----------------------------------------------------------------------------
Next ==
  \/ \E n \in Nodes :
       \/ Fetch(n) \/ Accept(n) \/ Reject(n) \/ Install(n) \/ InstallFails(n)
       \/ Post(n) \/ Withdraw(n) \/ Crash(n) \/ GoStale(n)
       \/ \E p \in Pools : Serve(n, p) \/ ServeFails(n, p)
  \/ \E p \in Pools :
       \/ ArmPlan(p) \/ ArmIssue(p) \/ ArmReady(p) \/ ArmLease(p) \/ ArmConfirm(p)
       \/ DrainPlan(p) \/ DrainIssue(p) \/ DrainReady(p) \/ DrainUnfence(p) \/ DrainFinish(p)
       \/ Request(p, "fenced_ha") \/ Request(p, "legacy") \/ LeaseLapse(p)
  \/ ReadBase \/ MaintainPlan \/ MaintainIssue \/ Abandon
  \/ OptOut \/ OptIn \/ Edit \/ Notify \/ NextBucket

Spec == Init /\ [][Next]_vars

-----------------------------------------------------------------------------
(* What must hold.                                                         *)

\* The authorities with which n acknowledged p as fenced, unless it has since
\* been sent a release of p.
Classified(n, p) ==
  {k \in AckedOf(n, p) :
     /\ Classifies(deliveries[n][k], p)
     /\ ~\E j \in DOMAIN deliveries[n] : j > k /\ Unfences(deliveries[n][j], p)}

\* No release of p that n was sent is without its receipt.
ReleasesSettled(n, p) ==
  \A j \in DOMAIN deliveries[n] : Unfences(deliveries[n][j], p) => Acked(deliveries[n][j])

\* The fields that n has acknowledged as fenced for p.
Promised(n, p) == UNION {deliveries[n][k].cls[p] : k \in Classified(n, p)}

\* What a gateway acknowledged as fenced is armed and suppressed by its fence
\* file, if that reads back, whatever has crashed or failed since and until a
\* release is issued to it: UpdateBase saves the fences before
\* PrepareBaseAuthorityAck, and no later save drops them.  After a release that
\* it did not acknowledge it need not be so (AcknowledgedStaysArmed).
AcceptedIsDurable ==
  \A n \in Nodes, p \in Pools :
    Promised(n, p) # {} /\ ReleasesSettled(n, p) /\ file[n] # Torn =>
      p \in Armed(file[n]) /\ Promised(n, p) \subseteq file[n][p].sup

\* None of those fields is in the projection of whatever base the gateway shows.
AcceptedIsHidden ==
  \A n \in Nodes, p \in Pools :
    proj[n] # None /\ ReleasesSettled(n, p) =>
      Visible(mem[n], proj[n], p) \cap Promised(n, p) = {}

\* What the type PoolFence says: "Once armed, the exact fields adopted by v3 stay
\* suppressed after withdrawal and restart", and nothing but an authoritative
\* base update removes the fence.  Not so after a release that reached the disk
\* although its save was reported as failed: memory has the armed fence still,
\* and the next classification is not saved because it changes nothing there.
AcknowledgedStaysArmed ==
  \A n \in Nodes, p \in Pools :
    Classified(n, p) # {} /\ file[n] # Torn => p \in Armed(file[n])

\* An armed fence is bound to the base on show: UpdateBase lets no base pass
\* an armed fence that was not classified for its content.
FenceBoundToBase ==
  \A n \in Nodes : proj[n] # None =>
    \A p \in Armed(mem[n]) : mem[n][p].at = proj[n].content

\* Once fenced_ha is recorded, and until an operator asks otherwise, the fence
\* of the pool is armed on the disk of every member, if that reads back and no
\* release was left without receipt
\* (ConfirmHandoffOwnershipModeTransitionWithLeadership).
FencedEverywhere ==
  \A p \in Pools : pool[p].act = "fenced_ha" =>
    \A n \in Nodes : file[n] # Torn /\ ReleasesSettled(n, p) => p \in Armed(file[n])

\* A release is issued to any member only after every member has acknowledged
\* the maintain authority of the revision before it
\* (ReconcileHandoffOwnershipDrainWithLeadership).
ReleaseAfterBarrier ==
  \A n \in Nodes : \A i \in DOMAIN deliveries[n] :
    LET d == deliveries[n][i]
    IN  d.kind = "unfence" =>
          \A m \in Nodes, p \in d.pools : \E k \in AtRevision(m, p, d.rev - 1) :
            deliveries[m][k].kind = "maintain" /\ Acked(deliveries[m][k])
=============================================================================
