------------------------ MODULE BaseAuthorityProofs ------------------------
(***************************************************************************)
(* Proofs about BaseAuthority for any members, pools and services and any  *)
(* bound on revisions, authorities, edits and troubles: what a gateway     *)
(* acknowledged as fenced stays fenced, on its disk and on show, and no    *)
(* release overtakes the barrier before it.                                *)
(***************************************************************************)
EXTENDS BaseAuthority, WellFoundedInduction, TLAPS

-----------------------------------------------------------------------------
(* The inductive invariant: the gateways.                                  *)

\* A set of fences arms p and suppresses these fields of it.
Has(fences, p, fields) == p \in Armed(fences) /\ fields \subseteq fences[p].sup

\* The authorities that n acknowledged, or is about to.
Attested(n) ==
  {k \in DOMAIN deliveries[n] :
     Acked(deliveries[n][k]) \/ (hand[n].stage = "acking" /\ k = hand[n].auth)}

\* No release of p was issued to n after its k-th authority.
Firm(n, k, p) == \A j \in DOMAIN deliveries[n] : j > k => ~Unfences(deliveries[n][j], p)

\* Nor is one without receipt, other than one about to be acknowledged.
Settled(n, p) ==
  \A j \in DOMAIN deliveries[n] : Unfences(deliveries[n][j], p) => j \in Attested(n)

\* The authorities that bind n to fence p.
Owed(n, p) ==
  {k \in Attested(n) : Classifies(deliveries[n][k], p) /\ Firm(n, k, p) /\ Settled(n, p)}

\* The fences arm and suppress what those classify.
Keeps(fences, n) ==
  \A p \in Pools : \A k \in Owed(n, p) : Has(fences, p, deliveries[n][k].cls[p])

\* The gateway keeps its word in memory and on disk.
KeepInv(n) ==
  /\ mem[n] # None => Keeps(mem[n], n)
  /\ file[n] # Torn => Keeps(file[n], n)

\* What is armed in memory is so on disk, but for a release under way: a
\* classification that changes nothing in memory is not saved again.
FileInv(n) ==
  mem[n] # None /\ file[n] # Torn =>
    \A p \in Armed(mem[n]) : Settled(n, p) => Has(file[n], p, mem[n][p].sup)

\* A gateway works on an authority without receipt, the one it recorded, and has
\* acknowledged none that it did not record.
LaneInv(n) ==
  /\ proj[n] # None => mem[n] # None
  /\ hand[n].auth # 0 => ~Acked(deliveries[n][hand[n].auth])
  /\ hand[n].stage \in {"accepted", "acking"} =>
       mem[n] # None /\ (hand[n].auth # 0 => auth[n] = hand[n].auth)
  /\ hand[n].stage = "acking" => hand[n].auth # 0
  /\ \A k \in DOMAIN deliveries[n] : Acked(deliveries[n][k]) => k <= auth[n]

\* The base under way passed UpdateBase's tests.
PassInv(n) ==
  hand[n].stage = "accepted" =>
    /\ \A p \in Armed(mem[n]) :
         \/ Classifies(Authority(n), p) \/ Unfences(Authority(n), p)
         \/ mem[n][p].at = hand[n].content
    /\ \A p \in Pools : Unfences(Authority(n), p) => mem[n][p] # None

BoundInv(n) == proj[n] # None => \A p \in Armed(mem[n]) : mem[n][p].at = proj[n].content

GatewayInv(n) == KeepInv(n) /\ FileInv(n) /\ LaneInv(n) /\ PassInv(n) /\ BoundInv(n)

-----------------------------------------------------------------------------
(* The inductive invariant: the ledger.                                    *)

\* Every member acknowledged the maintain authority of p at revision r.
Barrier(p, r) ==
  \A m \in Nodes : \E k \in AtRevision(m, p, r) :
    deliveries[m][k].kind = "maintain" /\ Acked(deliveries[m][k])

\* An arm authority of p.
Arms(d, p) == d.kind = "arm" /\ p \in d.pools

\* A drain under way is of pools that are not fenced; one that an operator has
\* asked to arm again in the meantime has no arm authority of its revision yet.
DrainInv ==
  draft.what = "drain" =>
    \A p \in draft.pools :
      /\ pool[p].act # "fenced_ha"
      /\ pool[p].act = "bootstrap_pending" =>
           \A n \in Nodes : \A i \in DOMAIN deliveries[n] :
             Arms(deliveries[n][i], p) => deliveries[n][i].rev < pool[p].rev
      /\ draft.stage = "issued" => Barrier(p, draft.rev)

\* No release follows an arm authority of the current revision while the pool
\* is being armed.
ArmInv ==
  \A n \in Nodes, p \in Pools : \A i \in DOMAIN deliveries[n] :
    Arms(deliveries[n][i], p) =>
      /\ deliveries[n][i].rev <= pool[p].rev
      /\ deliveries[n][i].rev = pool[p].rev /\ pool[p].act = "bootstrap_pending" => Firm(n, i, p)

\* Every member of a fenced pool acknowledged it as fenced, and was sent no
\* release since.
FencedInv ==
  \A p \in Pools : pool[p].act = "fenced_ha" =>
    \A n \in Nodes : \E k \in DOMAIN deliveries[n] :
      /\ Acked(deliveries[n][k]) /\ Classifies(deliveries[n][k], p) /\ Firm(n, k, p)

LedgerInv == DrainInv /\ ArmInv /\ FencedInv /\ ReleaseAfterBarrier

\* A drain releases on a base that it has read.
GotInv ==
  draft.what = "drain" =>
    \A n \in Nodes : n \in draft.done \/ draft.stage = "issued" => draft.got[n] # None

IInv == TypeOK /\ (\A n \in Nodes : GatewayInv(n)) /\ LedgerInv /\ GotInv

-----------------------------------------------------------------------------
(* Types.                                                                  *)

LEMMA Least == ASSUME NEW T, T \subseteq Nat, T # {} PROVE \E x \in T : \A y \in T : x <= y
<1>1. PICK x \in T : \A y \in T : ~(<<y, x>> \in OpToRel(<, Nat))
  BY WFMin, NatLessThanWellFounded
<1>2. \A y \in T : ~(y < x)
  BY <1>1 DEF OpToRel
<1> QED
  BY <1>2

\* The nodes, and the places of a ledger, have a first one.
LEMMA FirstIn == ASSUME NEW S, S \subseteq Nat, S # {} PROVE First(S) \in S
  BY Least DEF First

LEMMA RowTyped ==
  ASSUME TypeOK, NEW n \in Nodes, NEW i \in DOMAIN deliveries[n]
  PROVE  /\ deliveries[n][i] \in Delivery
         /\ deliveries[n][i].kind \in {"arm", "maintain", "unfence", "ordinary"}
         /\ deliveries[n][i].pools \subseteq Pools
         /\ deliveries[n][i].cls \in [Pools -> SUBSET Services]
         /\ deliveries[n][i].rev \in Nat /\ deliveries[n][i].ver \in Nat
         /\ deliveries[n][i].content \in Content /\ deliveries[n][i] # None
         /\ deliveries[n] \in Seq(Delivery) /\ Len(deliveries[n]) \in Nat
         /\ DOMAIN deliveries[n] = 1 .. Len(deliveries[n]) /\ i \in 1 .. Len(deliveries[n])
<1>1. deliveries[n] \in Seq(Delivery)
  BY DEF TypeOK
<1>2. deliveries[n][i] \in Delivery
  BY <1>1
<1>3. deliveries[n][i] # None
  BY <1>2, NilAssumption
<1> QED
  BY <1>1, <1>2, <1>3 DEF Delivery

LEMMA DraftTyped ==
  ASSUME TypeOK
  PROVE  /\ draft.what \in {"none", "arm", "maintain", "drain"} /\ draft.pools \subseteq Pools
         /\ draft.rev \in Nat /\ draft.cls \in [Pools -> SUBSET Services]
         /\ draft.got \in [Nodes -> Stored \cup {None}]
         /\ draft.stage \in {"planned", "issued", "ready", "leased"}
         /\ draft.done \subseteq Nodes
  BY DEF TypeOK, Draft

LEMMA PoolTyped ==
  ASSUME TypeOK, NEW p \in Pools
  PROVE  /\ pool[p] \in PoolRow /\ pool[p].rev \in Nat /\ pool[p].req \in {"legacy", "fenced_ha"}
         /\ pool[p].act \in {"legacy", "bootstrap_pending", "fenced_ha", "drain_pending"}
<1>1. pool[p] \in PoolRow
  BY DEF TypeOK
<1> QED
  BY <1>1 DEF PoolRow

LEMMA HandTyped ==
  ASSUME TypeOK, NEW n \in Nodes
  PROVE  /\ hand[n] \in Hand /\ hand[n].auth \in Nat /\ hand[n].content \in Content
         /\ hand[n].stage \in {"idle", "fetched", "accepted", "acking"}
         /\ hand[n].ver \in Nat /\ auth[n] \in Nat
         /\ deliveries[n] \in Seq(Delivery) /\ Len(deliveries[n]) \in Nat
         /\ DOMAIN deliveries[n] = 1 .. Len(deliveries[n])
         /\ hand[n].auth # 0 => hand[n].auth \in DOMAIN deliveries[n]
         /\ hand[n].auth # 0 => Authority(n) = deliveries[n][hand[n].auth] /\ Authority(n) \in Delivery
         /\ hand[n].auth = 0 => Authority(n) = None
<1>1. hand[n] \in Hand /\ auth[n] \in Nat /\ deliveries[n] \in Seq(Delivery)
  BY DEF TypeOK
<1>2. hand[n].auth \in 0 .. Len(deliveries[n])
  BY DEF TypeOK
<1>3. hand[n].auth # 0 => hand[n].auth \in DOMAIN deliveries[n]
  BY <1>1, <1>2 DEF Hand
<1>4. /\ hand[n].auth # 0 => Authority(n) = deliveries[n][hand[n].auth] /\ Authority(n) \in Delivery
      /\ hand[n].auth = 0 => Authority(n) = None
  BY <1>1, <1>3 DEF Authority
<1> QED
  BY <1>1, <1>3, <1>4 DEF Hand

LEMMA EmptyTyped ==
  /\ NoCls \in [Pools -> SUBSET Services] /\ NoFences \in Fences /\ NoBase \in Content
  /\ NoDraft \in Draft /\ Idle \in Hand
  BY DEF NoCls, NoFences, NoBase, NoDraft, Idle, Fences, Content, Draft, Hand

\* mergeFence and the rest of UpdateBase make fences of fences.
LEMMA MergeTyped ==
  ASSUME NEW f \in Fence \cup {None}, NEW fields \in SUBSET Services,
         NEW c \in Content, NEW v \in Nat
  PROVE  /\ Merge(f, fields, c, v) \in Fence /\ Merge(f, fields, c, v) # None
         /\ Merge(f, fields, c, v).armed = TRUE /\ Merge(f, fields, c, v).at = c
         /\ fields \subseteq Merge(f, fields, c, v).sup
         /\ f # None => f.sup \subseteq Merge(f, fields, c, v).sup
<1>1. (IF f = None THEN {} ELSE f.sup) \in SUBSET Services
  BY DEF Fence
<1>2. Merge(f, fields, c, v) \in Fence
  BY <1>1 DEF Merge, Fence
<1>3. Merge(f, fields, c, v) # None
  BY <1>2, NilAssumption
<1> QED
  BY <1>2, <1>3 DEF Merge

LEMMA UpdatedTyped ==
  ASSUME NEW F \in Fences, NEW h \in Hand, NEW d \in Delivery \cup {None},
         \A p \in Pools : Unfences(d, p) => F[p] # None
  PROVE  /\ Updated(F, h, d) \in Fences
         /\ \A p \in Pools : Classifies(d, p) =>
              /\ p \in Armed(Updated(F, h, d)) /\ Updated(F, h, d)[p].at = h.content
              /\ d.cls[p] \subseteq Updated(F, h, d)[p].sup
         /\ \A p \in Pools : Unfences(d, p) => p \notin Armed(Updated(F, h, d))
         /\ \A p \in Pools : ~Classifies(d, p) /\ ~Unfences(d, p) => Updated(F, h, d)[p] = F[p]
         /\ \A p \in Pools : ~Unfences(d, p) /\ p \in Armed(F) =>
              p \in Armed(Updated(F, h, d)) /\ F[p].sup \subseteq Updated(F, h, d)[p].sup
<1> DEFINE G == Updated(F, h, d)
<1>1. h.content \in Content /\ h.ver \in Nat
  BY DEF Hand
<1>2. \A p \in Pools : F[p] \in Fence \cup {None}
  BY DEF Fences
<1>3. \A p \in Pools : Classifies(d, p) => d.cls[p] \in SUBSET Services
  BY DEF Classifies, Delivery
<1>4. ASSUME NEW p \in Pools, Classifies(d, p)
      PROVE  /\ G[p] \in Fence /\ G[p] # None /\ G[p].armed = TRUE /\ G[p].at = h.content
             /\ d.cls[p] \subseteq G[p].sup /\ (F[p] # None => F[p].sup \subseteq G[p].sup)
  <2>1. G[p] = Merge(F[p], d.cls[p], h.content, h.ver)
    BY <1>4 DEF Updated
  <2>2. F[p] \in Fence \cup {None} /\ d.cls[p] \in SUBSET Services
    BY <1>2, <1>3, <1>4
  <2> DEFINE M == Merge(F[p], d.cls[p], h.content, h.ver)
  <2> DEFINE f == F[p]
             fields == d.cls[p]
             c == h.content
             v == h.ver
  <2>3. /\ M \in Fence /\ M # None /\ M.armed = TRUE /\ M.at = c
        /\ fields \subseteq M.sup /\ (f # None => f.sup \subseteq M.sup)
    <3>1. f \in Fence \cup {None} /\ fields \in SUBSET Services /\ c \in Content /\ v \in Nat
      BY <1>1, <2>2
    <3> HIDE DEF f, fields, c, v
    <3>2. M = Merge(f, fields, c, v)
      BY DEF M, f, fields, c, v
    <3> HIDE DEF M
    <3> QED
      BY <3>1, <3>2, MergeTyped
  <2> HIDE DEF G, M
  <2>4. G[p] = M
    BY <2>1 DEF M
  <2> QED
    BY <2>3, <2>4, Zenon
<1>5. ASSUME NEW p \in Pools, Unfences(d, p)
      PROVE  G[p] \in Fence /\ G[p].armed = FALSE
  <2>1. G[p] = [F[p] EXCEPT !.armed = FALSE, !.at = h.content, !.ver = h.ver]
    BY <1>5 DEF Updated, Classifies, Unfences
  <2>2. F[p] \in Fence
    BY <1>2, <1>5
  <2> QED
    BY <1>1, <2>1, <2>2 DEF Fence
<1>6. ASSUME NEW p \in Pools, ~Classifies(d, p), ~Unfences(d, p) PROVE G[p] = F[p]
  BY <1>6 DEF Updated
<1>7. G \in Fences
  <2>1. \A p \in Pools : G[p] \in Fence \cup {None}
    BY <1>2, <1>4, <1>5, <1>6
  <2>2. G = [p \in Pools |-> G[p]]
    BY DEF Updated
  <2> QED
    BY <2>1, <2>2 DEF Fences
<1> HIDE DEF G
<1>8. \A p \in Pools : Classifies(d, p) =>
        p \in Armed(G) /\ G[p].at = h.content /\ d.cls[p] \subseteq G[p].sup
  BY <1>4 DEF Armed
<1>9. \A p \in Pools : Unfences(d, p) => p \notin Armed(G)
  BY <1>5 DEF Armed
<1>10. \A p \in Pools : ~Unfences(d, p) /\ p \in Armed(F) =>
         p \in Armed(G) /\ F[p].sup \subseteq G[p].sup
  BY <1>4, <1>6 DEF Armed
<1>11. \A p \in Pools : ~Classifies(d, p) /\ ~Unfences(d, p) => G[p] = F[p]
  BY <1>6
<1> QED
  BY <1>7, <1>8, <1>9, <1>10, <1>11 DEF G

-----------------------------------------------------------------------------
(* What a gateway owes.                                                    *)

\* The rows of n stay, with what they say.
RowsKept(n) ==
  \A i \in DOMAIN deliveries[n] :
    /\ i \in DOMAIN deliveries'[n]
    /\ deliveries'[n][i].kind = deliveries[n][i].kind
    /\ deliveries'[n][i].pools = deliveries[n][i].pools
    /\ deliveries'[n][i].cls = deliveries[n][i].cls
    /\ deliveries'[n][i].rev = deliveries[n][i].rev

\* Where no more is attested, no more is owed.
LEMMA OwedStep ==
  ASSUME TypeOK, TypeOK', NEW n \in Nodes, NEW p \in Pools,
         RowsKept(n), Attested(n)' \subseteq Attested(n)
  PROVE  /\ Owed(n, p)' \subseteq Owed(n, p)
         /\ Settled(n, p)' => Settled(n, p)
         /\ \A k \in Owed(n, p)' : deliveries'[n][k].cls[p] = deliveries[n][k].cls[p]
<1>1. Attested(n) \subseteq DOMAIN deliveries[n]
  BY DEF Attested
<1>2. \A i \in DOMAIN deliveries[n] :
        /\ deliveries[n][i] # None /\ deliveries'[n][i] # None
        /\ Unfences(deliveries'[n][i], p) <=> Unfences(deliveries[n][i], p)
        /\ Classifies(deliveries'[n][i], p) <=> Classifies(deliveries[n][i], p)
  <2> SUFFICES ASSUME NEW i \in DOMAIN deliveries[n]
               PROVE  /\ deliveries[n][i] # None /\ deliveries'[n][i] # None
                      /\ Unfences(deliveries'[n][i], p) <=> Unfences(deliveries[n][i], p)
                      /\ Classifies(deliveries'[n][i], p) <=> Classifies(deliveries[n][i], p)
    OBVIOUS
  <2>1. deliveries[n][i] # None
    BY RowTyped
  <2>2. i \in DOMAIN deliveries'[n] /\ deliveries'[n][i].kind = deliveries[n][i].kind
        /\ deliveries'[n][i].pools = deliveries[n][i].pools
    BY DEF RowsKept
  <2>3. deliveries'[n][i] # None
    <3>1. deliveries'[n] \in Seq(Delivery)
      BY DEF TypeOK
    <3>2. deliveries'[n][i] \in Delivery
      BY <3>1, <2>2
    <3> QED
      BY <3>2, NilAssumption
  <2> QED
    BY <2>1, <2>2, <2>3 DEF Unfences, Classifies
<1>3. Settled(n, p)' => Settled(n, p)
  <2> SUFFICES ASSUME Settled(n, p)', NEW j \in DOMAIN deliveries[n], Unfences(deliveries[n][j], p)
               PROVE  j \in Attested(n)
    BY DEF Settled
  <2>1. j \in DOMAIN deliveries'[n] /\ Unfences(deliveries'[n][j], p)
    BY <1>2 DEF RowsKept
  <2>2. j \in Attested(n)'
    BY <2>1 DEF Settled
  <2> QED
    BY <2>2
<1>4. ASSUME NEW k \in Owed(n, p)' PROVE k \in Owed(n, p)
  <2>1. k \in Attested(n) /\ Classifies(deliveries'[n][k], p) /\ Firm(n, k, p)' /\ Settled(n, p)
    BY <1>3, <1>4 DEF Owed
  <2>2. Classifies(deliveries[n][k], p)
    BY <1>1, <1>2, <2>1
  <2>3. Firm(n, k, p)
    <3> SUFFICES ASSUME NEW j \in DOMAIN deliveries[n], j > k, Unfences(deliveries[n][j], p)
                 PROVE  FALSE
      BY DEF Firm
    <3>1. j \in DOMAIN deliveries'[n] /\ Unfences(deliveries'[n][j], p)
      BY <1>2 DEF RowsKept
    <3> QED
      BY <2>1, <3>1 DEF Firm
  <2> QED
    BY <2>1, <2>2, <2>3 DEF Owed
<1>5. \A k \in Owed(n, p)' : deliveries'[n][k].cls[p] = deliveries[n][k].cls[p]
  <2> SUFFICES ASSUME NEW k \in Owed(n, p)'
               PROVE  deliveries'[n][k].cls[p] = deliveries[n][k].cls[p]
    OBVIOUS
  <2>1. k \in DOMAIN deliveries[n]
    BY <1>1, <1>4 DEF Owed
  <2> QED
    BY <2>1 DEF RowsKept
<1> QED
  BY <1>3, <1>4, <1>5

\* Fences that lose nothing keep what is owed.
LEMMA KeepsStep ==
  ASSUME TypeOK, TypeOK', NEW n \in Nodes, NEW F, NEW G,
         RowsKept(n), Attested(n)' \subseteq Attested(n),
         Keeps(F, n),
         \A p \in Pools : Settled(n, p) /\ p \in Armed(F) =>
           p \in Armed(G) /\ F[p].sup \subseteq G[p].sup
  PROVE  \A p \in Pools : \A k \in Owed(n, p)' : Has(G, p, deliveries'[n][k].cls[p])
<1> SUFFICES ASSUME NEW p \in Pools, NEW k \in Owed(n, p)'
             PROVE  Has(G, p, deliveries'[n][k].cls[p])
  OBVIOUS
<1>1. k \in Owed(n, p) /\ deliveries'[n][k].cls[p] = deliveries[n][k].cls[p]
  BY OwedStep
<1>2. Has(F, p, deliveries[n][k].cls[p]) /\ Settled(n, p)
  BY <1>1 DEF Keeps, Owed
<1> QED
  BY <1>1, <1>2 DEF Has

\* So do fences that the step leaves alone.
LEMMA KeepFrame ==
  ASSUME TypeOK, TypeOK', NEW n \in Nodes, GatewayInv(n),
         RowsKept(n), Attested(n)' \subseteq Attested(n),
         mem'[n] = mem[n], file'[n] = file[n]
  PROVE  KeepInv(n)' /\ FileInv(n)'
<1>1. KeepInv(n)'
  <2>1. ASSUME mem[n] # None
        PROVE  \A p \in Pools : \A k \in Owed(n, p)' : Has(mem[n], p, deliveries'[n][k].cls[p])
    <3>1. Keeps(mem[n], n)
      BY <2>1 DEF GatewayInv, KeepInv
    <3> QED
      BY <3>1, KeepsStep
  <2>2. ASSUME file[n] # Torn
        PROVE  \A p \in Pools : \A k \in Owed(n, p)' : Has(file[n], p, deliveries'[n][k].cls[p])
    <3>1. Keeps(file[n], n)
      BY <2>2 DEF GatewayInv, KeepInv
    <3> QED
      BY <3>1, KeepsStep
  <2> QED
    BY <2>1, <2>2 DEF KeepInv, Keeps
<1>2. FileInv(n)'
  <2> SUFFICES ASSUME mem[n] # None, file[n] # Torn, NEW p \in Armed(mem[n]), Settled(n, p)'
               PROVE  Has(file[n], p, mem[n][p].sup)
    BY DEF FileInv
  <2>1. p \in Pools
    BY DEF Armed
  <2>2. Settled(n, p)
    BY <2>1, OwedStep
  <2> QED
    BY <2>2 DEF GatewayInv, FileInv
<1> QED
  BY <1>1, <1>2

\* A gateway that a step leaves alone.
LEMMA GatewayFrame ==
  ASSUME TypeOK, TypeOK', NEW n \in Nodes, GatewayInv(n),
         deliveries' = deliveries, hand'[n] = hand[n], auth'[n] = auth[n],
         mem'[n] = mem[n], file'[n] = file[n], proj'[n] = proj[n]
  PROVE  GatewayInv(n)'
<1>1. RowsKept(n) /\ Attested(n)' = Attested(n)
  BY DEF RowsKept, Attested
<1>2. KeepInv(n)' /\ FileInv(n)'
  BY <1>1, KeepFrame
<1>3. Authority(n)' = Authority(n)
  BY DEF Authority
<1>4. LaneInv(n)'
  BY DEF GatewayInv, LaneInv
<1>5. PassInv(n)'
  BY <1>3 DEF GatewayInv, PassInv
<1>6. BoundInv(n)'
  BY DEF GatewayInv, BoundInv
<1> QED
  BY <1>2, <1>4, <1>5, <1>6 DEF GatewayInv

\* The ledger's part does not look at the gateways.
LEMMA LedgerFrame ==
  ASSUME LedgerInv, UNCHANGED <<deliveries, draft, pool>>
  PROVE  LedgerInv'
<1>1. DrainInv'
  BY DEF LedgerInv, DrainInv, Barrier, AtRevision
<1>2. ArmInv'
  BY DEF LedgerInv, ArmInv, Firm
<1>3. FencedInv'
  BY DEF LedgerInv, FencedInv, Firm
<1>4. ReleaseAfterBarrier'
  BY DEF LedgerInv, ReleaseAfterBarrier, AtRevision
<1> QED
  BY <1>1, <1>2, <1>3, <1>4 DEF LedgerInv

-----------------------------------------------------------------------------
(* The steps of a gateway.                                                 *)

\* ensureLoaded gives the fences of memory, or of the disk.
LEMMA Loaded ==
  ASSUME TypeOK, NEW n \in Nodes, GatewayInv(n), Readable(n)
  PROVE  /\ FencesOf(n) \in Fences /\ FencesOf(n) # None /\ Keeps(FencesOf(n), n)
         /\ file[n] # Torn => \A p \in Armed(FencesOf(n)) :
              Settled(n, p) => Has(file[n], p, FencesOf(n)[p].sup)
<1>1. CASE mem[n] # None
  <2>1. FencesOf(n) = mem[n]
    BY <1>1 DEF FencesOf
  <2>2. mem[n] \in Fences
    BY <1>1 DEF TypeOK
  <2>3. Keeps(mem[n], n)
    BY <1>1 DEF GatewayInv, KeepInv
  <2>4. file[n] # Torn => \A p \in Armed(mem[n]) : Settled(n, p) => Has(file[n], p, mem[n][p].sup)
    BY <1>1 DEF GatewayInv, FileInv
  <2> QED
    BY <1>1, <2>1, <2>2, <2>3, <2>4
<1>2. CASE mem[n] = None
  <2>1. FencesOf(n) = file[n] /\ file[n] # Torn
    BY <1>2 DEF FencesOf, Readable
  <2>2. file[n] \in Fences /\ file[n] # None
    BY <2>1, NilAssumption DEF TypeOK
  <2>3. Keeps(file[n], n)
    BY <2>1 DEF GatewayInv, KeepInv
  <2>4. \A p \in Armed(file[n]) : Has(file[n], p, file[n][p].sup)
    BY DEF Has
  <2> QED
    BY <2>1, <2>2, <2>3, <2>4
<1> QED
  BY <1>1, <1>2

LEMMA LoadStep ==
  ASSUME TypeOK, TypeOK', NEW n \in Nodes, GatewayInv(n), Readable(n),
         RowsKept(n), Attested(n)' \subseteq Attested(n),
         mem'[n] = FencesOf(n), file'[n] = file[n]
  PROVE  KeepInv(n)' /\ FileInv(n)'
<1>1. \A p \in Pools : \A k \in Owed(n, p)' : Has(FencesOf(n), p, deliveries'[n][k].cls[p])
  <2>1. Keeps(FencesOf(n), n)
    BY Loaded
  <2> QED
    BY <2>1, KeepsStep
<1>2. ASSUME file[n] # Torn
      PROVE  \A p \in Pools : \A k \in Owed(n, p)' : Has(file[n], p, deliveries'[n][k].cls[p])
  <2>1. Keeps(file[n], n)
    BY <1>2 DEF GatewayInv, KeepInv
  <2> QED
    BY <2>1, KeepsStep
<1>3. FileInv(n)'
  <2> SUFFICES ASSUME file[n] # Torn, NEW p \in Armed(FencesOf(n)), Settled(n, p)'
               PROVE  Has(file[n], p, FencesOf(n)[p].sup)
    BY DEF FileInv
  <2>1. p \in Pools
    BY DEF Armed
  <2>2. Settled(n, p)
    BY <2>1, OwedStep
  <2> QED
    BY <2>2, Loaded
<1> QED
  BY <1>1, <1>2, <1>3 DEF KeepInv, Keeps

\* A step after which both hold the same fences, which lost nothing, or the file
\* is torn.
LEMMA SaveStep ==
  ASSUME TypeOK, TypeOK', NEW n \in Nodes, NEW F, Keeps(F, n),
         RowsKept(n), Attested(n)' \subseteq Attested(n),
         \A p \in Pools : Settled(n, p) /\ p \in Armed(F) =>
           p \in Armed(mem'[n]) /\ F[p].sup \subseteq mem'[n][p].sup,
         file'[n] \in {mem'[n], Torn}
  PROVE  KeepInv(n)' /\ FileInv(n)'
<1>1. \A p \in Pools : \A k \in Owed(n, p)' : Has(mem'[n], p, deliveries'[n][k].cls[p])
  BY KeepsStep
<1>2. KeepInv(n)'
  BY <1>1 DEF KeepInv, Keeps
<1>3. FileInv(n)'
  BY DEF FileInv, Has
<1> QED
  BY <1>2, <1>3

\* A step that leaves memory as FencesOf gives it, or empty, and a file that
\* lost nothing of it.
LEMMA WriteStep ==
  ASSUME TypeOK, TypeOK', NEW n \in Nodes, GatewayInv(n), Readable(n), NEW G,
         RowsKept(n), Attested(n)' \subseteq Attested(n),
         \A p \in Pools : Settled(n, p) /\ p \in Armed(FencesOf(n)) =>
           p \in Armed(G) /\ FencesOf(n)[p].sup \subseteq G[p].sup,
         mem'[n] \in {FencesOf(n), None}, file'[n] \in {file[n], G, Torn}
  PROVE  KeepInv(n)' /\ FileInv(n)'
<1>1. \A p \in Pools : \A k \in Owed(n, p)' : Has(FencesOf(n), p, deliveries'[n][k].cls[p])
  <2>1. Keeps(FencesOf(n), n)
    BY Loaded
  <2> QED
    BY <2>1, KeepsStep
<1>2. \A p \in Pools : \A k \in Owed(n, p)' : Has(G, p, deliveries'[n][k].cls[p])
  <2>1. Keeps(FencesOf(n), n)
    BY Loaded
  <2> QED
    BY <2>1, KeepsStep
<1>3. ASSUME file[n] # Torn
      PROVE  \A p \in Pools : \A k \in Owed(n, p)' : Has(file[n], p, deliveries'[n][k].cls[p])
  <2>1. Keeps(file[n], n)
    BY <1>3 DEF GatewayInv, KeepInv
  <2> QED
    BY <2>1, KeepsStep
<1>4. KeepInv(n)'
  BY <1>1, <1>2, <1>3 DEF KeepInv, Keeps
<1>5. FileInv(n)'
  <2> SUFFICES ASSUME mem'[n] = FencesOf(n), file'[n] # Torn,
                      NEW p \in Armed(FencesOf(n)), Settled(n, p)'
               PROVE  Has(file'[n], p, FencesOf(n)[p].sup)
    BY DEF FileInv
  <2>1. p \in Pools
    BY DEF Armed
  <2>2. Settled(n, p)
    BY <2>1, OwedStep
  <2>3. file[n] # Torn => Has(file[n], p, FencesOf(n)[p].sup)
    BY <2>2, Loaded
  <2>4. Has(G, p, FencesOf(n)[p].sup)
    BY <2>1, <2>2 DEF Has
  <2> QED
    BY <2>3, <2>4
<1> QED
  BY <1>4, <1>5

\* armFence takes nothing away, and binds the fence of p to the base on show.
LEMMA RearmedFacts ==
  ASSUME TypeOK, NEW n \in Nodes, NEW p \in Pools, GatewayInv(n), MayServe(n, p)
  PROVE  /\ Rearmed(n, p) \in Fences /\ Rearmed(n, p) # None
         /\ \A q \in Pools : q \in Armed(FencesOf(n)) =>
              q \in Armed(Rearmed(n, p)) /\ FencesOf(n)[q].sup \subseteq Rearmed(n, p)[q].sup
         /\ Rearmed(n, p)[p].at = proj[n].content
         /\ \A q \in Pools : q # p => Rearmed(n, p)[q] = FencesOf(n)[q]
<1> DEFINE F == FencesOf(n)
           f == F[p]
           fields == lease[p].cls
           c == proj[n].content
           v == proj[n].ver
           M == Merge(f, fields, c, v)
           R == Rearmed(n, p)
<1>1. F \in Fences
  BY Loaded DEF MayServe
<1>2. f \in Fence \cup {None}
  BY <1>1 DEF Fences
<1>3. fields \in SUBSET Services
  BY DEF TypeOK, LeaseRow
<1>4. c \in Content /\ v \in Nat
  <2>1. proj[n] \in Stored
    BY DEF TypeOK, MayServe
  <2> QED
    BY <2>1 DEF Stored
<1> HIDE DEF f, fields, c, v
<1>5. M \in Fence /\ M # None /\ M.armed = TRUE /\ M.at = c /\ (f # None => f.sup \subseteq M.sup)
  BY <1>2, <1>3, <1>4, MergeTyped
<1>6. R = [F EXCEPT ![p] = M]
  BY DEF R, Rearmed, M, f, fields, c, v
<1> HIDE DEF F, M, R
<1>7. R \in Fences
  BY <1>1, <1>5, <1>6 DEF Fences
<1>8. R[p] = M /\ \A q \in Pools : q # p => R[q] = F[q]
  BY <1>1, <1>6 DEF Fences
<1>9. ASSUME NEW q \in Pools, q \in Armed(F) PROVE q \in Armed(R) /\ F[q].sup \subseteq R[q].sup
  <2>1. CASE q = p
    <3>1. F[p] # None
      BY <1>9, <2>1 DEF Armed
    <3> QED
      BY <1>5, <1>8, <2>1, <3>1 DEF Armed, f
  <2>2. CASE q # p
    BY <1>8, <1>9, <2>2 DEF Armed
  <2> QED
    BY <2>1, <2>2
<1>10. R # None
  BY <1>7, NilAssumption
<1> QED
  BY <1>5, <1>7, <1>8, <1>9, <1>10 DEF F, R, c

\* The fences of the base under way.
Installed(n) == Updated(mem[n], hand[n], Authority(n))

LEMMA InstallFacts ==
  ASSUME IInv, NEW n \in Nodes, hand[n].stage = "accepted"
  PROVE  /\ mem[n] \in Fences /\ mem[n] # None /\ Readable(n) /\ FencesOf(n) = mem[n]
         /\ Installed(n) \in Fences /\ Installed(n) # None
         /\ \A p \in Pools : Classifies(Authority(n), p) =>
              /\ p \in Armed(Installed(n)) /\ Installed(n)[p].at = hand[n].content
              /\ Authority(n).cls[p] \subseteq Installed(n)[p].sup
         /\ \A p \in Pools : Unfences(Authority(n), p) =>
              p \notin Armed(Installed(n)) /\ ~Settled(n, p)
         /\ \A p \in Pools : ~Classifies(Authority(n), p) /\ ~Unfences(Authority(n), p) =>
              Installed(n)[p] = mem[n][p]
         /\ \A p \in Pools : ~Unfences(Authority(n), p) /\ p \in Armed(mem[n]) =>
              p \in Armed(Installed(n)) /\ mem[n][p].sup \subseteq Installed(n)[p].sup
<1>0. GatewayInv(n) /\ TypeOK
  BY DEF IInv
<1>1. mem[n] # None /\ mem[n] \in Fences
  BY <1>0 DEF GatewayInv, LaneInv, TypeOK
<1>2. Readable(n) /\ FencesOf(n) = mem[n]
  BY <1>1 DEF Readable, FencesOf
<1>3. hand[n] \in Hand /\ Authority(n) \in Delivery \cup {None}
  BY <1>0, HandTyped
<1>4. \A p \in Pools : Unfences(Authority(n), p) => mem[n][p] # None
  BY <1>0 DEF GatewayInv, PassInv
<1>5. ASSUME NEW p \in Pools, Unfences(Authority(n), p) PROVE ~Settled(n, p)
  <2>1. hand[n].auth # 0
    BY <1>0, <1>5, HandTyped DEF Unfences
  <2>2. hand[n].auth \in DOMAIN deliveries[n] /\ Authority(n) = deliveries[n][hand[n].auth]
    BY <1>0, <2>1, HandTyped
  <2>3. hand[n].auth \notin Attested(n)
    BY <1>0, <2>1 DEF GatewayInv, LaneInv, Attested
  <2> QED
    BY <1>5, <2>2, <2>3 DEF Settled
<1> DEFINE F == mem[n]
           h == hand[n]
           d == Authority(n)
<1>6. F \in Fences /\ h \in Hand /\ d \in Delivery \cup {None} /\ \A p \in Pools : Unfences(d, p) => F[p] # None
  BY <1>1, <1>3, <1>4
<1>7. Installed(n) = Updated(F, h, d)
  BY DEF Installed
<1>8. Installed(n) # None
  <2> HIDE DEF F, h, d
  <2>1. Installed(n) \in Fences
    BY <1>6, <1>7, UpdatedTyped
  <2> QED
    BY <2>1, NilAssumption
<1> HIDE DEF F, h, d
<1>9. /\ Updated(F, h, d) \in Fences
      /\ \A p \in Pools : Classifies(d, p) =>
           /\ p \in Armed(Updated(F, h, d)) /\ Updated(F, h, d)[p].at = h.content
           /\ d.cls[p] \subseteq Updated(F, h, d)[p].sup
      /\ \A p \in Pools : Unfences(d, p) => p \notin Armed(Updated(F, h, d))
      /\ \A p \in Pools : ~Classifies(d, p) /\ ~Unfences(d, p) => Updated(F, h, d)[p] = F[p]
      /\ \A p \in Pools : ~Unfences(d, p) /\ p \in Armed(F) =>
           p \in Armed(Updated(F, h, d)) /\ F[p].sup \subseteq Updated(F, h, d)[p].sup
  BY <1>6, UpdatedTyped
<1> QED
  BY <1>1, <1>2, <1>5, <1>7, <1>8, <1>9 DEF F, h, d

LEMMA SpendTyped ==
  ASSUME TypeOK, NEW bound, Spend("edits", bound) \/ Spend("troubles", bound)
  PROVE  spent' \in [{"edits", "troubles"} -> Nat]
  BY DEF TypeOK, Spend

LEMMA TroubleTyped == ASSUME TypeOK, Trouble PROVE spent' \in [{"edits", "troubles"} -> Nat]
<1>1. Spend("troubles", MaxTroubles)
  BY DEF Trouble
<1> QED
  BY <1>1, SpendTyped

LEMMA PendingTyped ==
  ASSUME TypeOK, NEW n \in Nodes
  PROVE  /\ Pending(n) \in 0 .. Len(deliveries[n]) /\ Pending(n) \in Nat
         /\ Pending(n) # 0 =>
              /\ Pending(n) \in DOMAIN deliveries[n] /\ ~Acked(deliveries[n][Pending(n)])
              /\ deliveries[n][Pending(n)].ver \in Nat
<1>1. deliveries[n] \in Seq(Delivery) /\ Len(deliveries[n]) \in Nat
      /\ DOMAIN deliveries[n] = 1 .. Len(deliveries[n])
  BY HandTyped
<1>2. Pending(n) \in 0 .. Len(deliveries[n])
  BY <1>1 DEF Pending
<1>3. Pending(n) # 0 => Pending(n) = Len(deliveries[n]) /\ deliveries[n][Pending(n)].receipt = "none"
  BY DEF Pending
<1>4. Pending(n) # 0 => Pending(n) \in DOMAIN deliveries[n]
  BY <1>1, <1>2
<1>5. Pending(n) # 0 => deliveries[n][Pending(n)].ver \in Nat
  BY <1>4, RowTyped
<1> QED
  BY <1>1, <1>2, <1>3, <1>4, <1>5 DEF Acked

\* What a gateway step may not change of the rest.
LEMMA GatewayTypes ==
  ASSUME TypeOK, UNCHANGED <<baseVars, enabled, pool, draft, deliveries>>,
         spent' \in [{"edits", "troubles"} -> Nat], lease' \in [Pools -> LeaseRow],
         auth' \in [Nodes -> Nat], file' \in [Nodes -> Fences \cup {Torn}],
         mem' \in [Nodes -> Fences \cup {None}], proj' \in [Nodes -> Stored \cup {None}],
         serving' \in [Nodes -> Pools \cup {None}], hand' \in [Nodes -> Hand],
         \A m \in Nodes : {auth'[m], hand'[m].auth} \subseteq 0 .. Len(deliveries[m])
  PROVE  TypeOK'
  BY DEF TypeOK, baseVars

\* One gateway moves, and the ledger does not.
LEMMA NodeStep ==
  ASSUME IInv, TypeOK', NEW n \in Nodes, UNCHANGED <<pool, draft, deliveries>>,
         \A m \in Nodes \ {n} :
           /\ hand'[m] = hand[m] /\ auth'[m] = auth[m] /\ mem'[m] = mem[m]
           /\ file'[m] = file[m] /\ proj'[m] = proj[m],
         KeepInv(n)', FileInv(n)', LaneInv(n)', PassInv(n)', BoundInv(n)'
  PROVE  IInv'
<1>0. TypeOK /\ LedgerInv /\ GotInv /\ (\A m \in Nodes : GatewayInv(m))
  BY DEF IInv
<1>1. \A m \in Nodes \ {n} : GatewayInv(m)'
  BY <1>0, GatewayFrame
<1>2. GatewayInv(n)'
  BY DEF GatewayInv
<1>3. LedgerInv'
  BY <1>0, LedgerFrame
<1>4. GotInv'
  BY <1>0 DEF GotInv
<1> QED
  BY <1>1, <1>2, <1>3, <1>4 DEF IInv

LEMMA FetchStep ==
  ASSUME IInv, NEW n \in Nodes, Fetch(n)
  PROVE  IInv'
<1>0. TypeOK /\ GatewayInv(n)
  BY DEF IInv
<1>1. /\ UNCHANGED <<base, ver, spent, enabled, pool, lease, draft, deliveries, auth, file, mem, proj, serving>>
      /\ hand[n].stage = "idle"
  BY DEF Fetch, baseVars, poolVars
<1> DEFINE h == [stage |-> "fetched", auth |-> Pending(n), content |-> base,
                 ver |-> IF Pending(n) = 0 THEN ver ELSE deliveries[n][Pending(n)].ver]
<1>2. hand' = [hand EXCEPT ![n] = h]
  BY DEF Fetch
<1>3. h \in Hand /\ h.auth \in 0 .. Len(deliveries[n]) /\ h.stage = "fetched" /\ h.auth = Pending(n)
  <2>1. base \in Content /\ ver \in Nat
    BY <1>0 DEF TypeOK
  <2> QED
    BY <1>0, <2>1, PendingTyped DEF Hand
<1> HIDE DEF h
<1>4. hand'[n] = h /\ \A m \in Nodes \ {n} : hand'[m] = hand[m]
  BY <1>0, <1>2 DEF TypeOK
<1>5. TypeOK'
  <2>1. hand' \in [Nodes -> Hand]
    BY <1>0, <1>2, <1>3 DEF TypeOK
  <2>2. \A m \in Nodes : {auth'[m], hand'[m].auth} \subseteq 0 .. Len(deliveries[m])
    BY <1>0, <1>1, <1>3, <1>4 DEF TypeOK
  <2>3. /\ spent' \in [{"edits", "troubles"} -> Nat] /\ lease' \in [Pools -> LeaseRow]
        /\ auth' \in [Nodes -> Nat] /\ file' \in [Nodes -> Fences \cup {Torn}]
        /\ mem' \in [Nodes -> Fences \cup {None}] /\ proj' \in [Nodes -> Stored \cup {None}]
        /\ serving' \in [Nodes -> Pools \cup {None}]
    BY <1>0, <1>1 DEF TypeOK
  <2> QED
    BY <1>0, <1>1, <2>1, <2>2, <2>3, GatewayTypes DEF baseVars
<1>6. RowsKept(n) /\ Attested(n)' \subseteq Attested(n)
  BY <1>1, <1>3, <1>4 DEF RowsKept, Attested
<1>7. KeepInv(n)' /\ FileInv(n)'
  BY <1>0, <1>1, <1>5, <1>6, KeepFrame
<1>8. LaneInv(n)'
  <2>1. hand'[n].auth # 0 => ~Acked(deliveries'[n][hand'[n].auth])
    BY <1>0, <1>1, <1>3, <1>4, PendingTyped
  <2> QED
    BY <1>0, <1>1, <1>3, <1>4, <2>1 DEF GatewayInv, LaneInv
<1>9. PassInv(n)' /\ BoundInv(n)'
  BY <1>0, <1>1, <1>3, <1>4 DEF GatewayInv, PassInv, BoundInv
<1> QED
  BY <1>1, <1>4, <1>5, <1>7, <1>8, <1>9, NodeStep

LEMMA AcceptStep ==
  ASSUME IInv, NEW n \in Nodes, Accept(n)
  PROVE  IInv'
<1>0. TypeOK /\ GatewayInv(n)
  BY DEF IInv
<1>1. /\ UNCHANGED <<base, ver, spent, enabled, pool, lease, draft, deliveries, file, proj, serving>>
      /\ hand[n].stage = "fetched" /\ Readable(n)
      /\ MayUpdate(FencesOf(n), hand[n].content, Authority(n), serving[n])
      /\ hand[n].auth # 0 => hand[n].auth >= auth[n]
      /\ mem' = [mem EXCEPT ![n] = FencesOf(n)]
      /\ auth' = [auth EXCEPT ![n] = IF hand[n].auth = 0 THEN @ ELSE hand[n].auth]
      /\ hand' = [hand EXCEPT ![n].stage = "accepted"]
  BY DEF Accept, baseVars, poolVars
<1>2. hand[n] \in Hand /\ FencesOf(n) \in Fences /\ FencesOf(n) # None
  BY <1>0, <1>1, HandTyped, Loaded
<1>3. /\ hand'[n] \in Hand /\ hand'[n].stage = "accepted" /\ hand'[n].auth = hand[n].auth
      /\ hand'[n].content = hand[n].content
      /\ mem'[n] = FencesOf(n) /\ auth'[n] = IF hand[n].auth = 0 THEN auth[n] ELSE hand[n].auth
      /\ \A m \in Nodes \ {n} : hand'[m] = hand[m] /\ mem'[m] = mem[m] /\ auth'[m] = auth[m]
  BY <1>0, <1>1, <1>2 DEF TypeOK, Hand
<1>4. TypeOK'
  <2>1. /\ hand' \in [Nodes -> Hand] /\ mem' \in [Nodes -> Fences \cup {None}]
        /\ auth' \in [Nodes -> Nat]
    <3>1. hand[n].auth \in Nat /\ auth[n] \in Nat
      BY <1>0, HandTyped
    <3>2. auth' \in [Nodes -> Nat]
      BY <1>0, <1>1, <3>1 DEF TypeOK
    <3>3. mem' \in [Nodes -> Fences \cup {None}]
      BY <1>0, <1>1, <1>2 DEF TypeOK
    <3>4. hand' \in [Nodes -> Hand]
      <4>1. [hand[n] EXCEPT !.stage = "accepted"] \in Hand
        BY <1>2 DEF Hand
      <4> QED
        BY <1>0, <1>1, <4>1 DEF TypeOK
    <3> QED
      BY <3>2, <3>3, <3>4
  <2>2. \A m \in Nodes : {auth'[m], hand'[m].auth} \subseteq 0 .. Len(deliveries[m])
    BY <1>0, <1>1, <1>3 DEF TypeOK
  <2>3. /\ spent' \in [{"edits", "troubles"} -> Nat] /\ lease' \in [Pools -> LeaseRow]
        /\ file' \in [Nodes -> Fences \cup {Torn}] /\ proj' \in [Nodes -> Stored \cup {None}]
        /\ serving' \in [Nodes -> Pools \cup {None}]
    BY <1>0, <1>1 DEF TypeOK
  <2> QED
    BY <1>0, <1>1, <2>1, <2>2, <2>3, GatewayTypes DEF baseVars
<1>5. RowsKept(n) /\ Attested(n)' \subseteq Attested(n)
  BY <1>1, <1>3 DEF RowsKept, Attested
<1>6. KeepInv(n)' /\ FileInv(n)'
  BY <1>0, <1>1, <1>3, <1>4, <1>5, LoadStep
<1>7. LaneInv(n)'
  <2>1. /\ proj[n] # None => mem[n] # None
        /\ hand[n].auth # 0 => ~Acked(deliveries[n][hand[n].auth])
        /\ \A k \in DOMAIN deliveries[n] : Acked(deliveries[n][k]) => k <= auth[n]
    BY <1>0 DEF GatewayInv, LaneInv
  <2>2. auth[n] \in Nat /\ hand[n].auth \in Nat /\ auth[n] <= auth'[n] /\ auth'[n] \in Nat
    BY <1>0, <1>1, <1>3, HandTyped
  <2>3. \A k \in DOMAIN deliveries[n] : Acked(deliveries[n][k]) => k <= auth'[n]
    <3>1. DOMAIN deliveries[n] \subseteq Nat
      BY <1>0, HandTyped
    <3> QED
      BY <2>1, <2>2, <3>1
  <2>4. mem'[n] # None /\ (hand'[n].auth # 0 => auth'[n] = hand'[n].auth)
    BY <1>2, <1>3
  <2>5. hand'[n].auth # 0 => ~Acked(deliveries'[n][hand'[n].auth])
    BY <1>1, <1>3, <2>1
  <2> QED
    BY <1>1, <1>3, <2>3, <2>4, <2>5 DEF LaneInv
<1>8. PassInv(n)'
  <2>1. Authority(n)' = Authority(n)
    BY <1>1, <1>3 DEF Authority
  <2>2. \A p \in Armed(FencesOf(n)) :
          \/ Classifies(Authority(n), p) \/ Unfences(Authority(n), p)
          \/ FencesOf(n)[p].at = hand[n].content
    BY <1>1 DEF MayUpdate
  <2>3. \A p \in Pools : Unfences(Authority(n), p) => FencesOf(n)[p] # None
    BY <1>1 DEF MayUpdate, Unfences
  <2> QED
    BY <1>3, <2>1, <2>2, <2>3 DEF PassInv
<1>9. BoundInv(n)'
  <2>1. proj[n] # None => mem'[n] = mem[n]
    BY <1>0, <1>3 DEF GatewayInv, LaneInv, FencesOf
  <2> QED
    BY <1>0, <1>1, <2>1 DEF GatewayInv, BoundInv
<1> QED
  BY <1>1, <1>3, <1>4, <1>6, <1>7, <1>8, <1>9, NodeStep

\* The hand is put down.
LEMMA IdleFacts ==
  ASSUME TypeOK, NEW n \in Nodes, hand' = [hand EXCEPT ![n] = Idle]
  PROVE  /\ hand'[n] = Idle /\ hand'[n].stage = "idle" /\ hand'[n].auth = 0
         /\ hand' \in [Nodes -> Hand] /\ \A m \in Nodes \ {n} : hand'[m] = hand[m]
<1>1. hand' \in [Nodes -> Hand]
  BY EmptyTyped DEF TypeOK
<1>2. hand'[n] = Idle /\ \A m \in Nodes \ {n} : hand'[m] = hand[m]
  BY DEF TypeOK
<1> QED
  BY <1>1, <1>2 DEF Idle

LEMMA RejectStep ==
  ASSUME IInv, NEW n \in Nodes, Reject(n)
  PROVE  IInv'
<1>0. TypeOK /\ GatewayInv(n)
  BY DEF IInv
<1>1. /\ UNCHANGED <<base, ver, spent, enabled, pool, lease, draft, deliveries, auth, file, proj, serving>>
      /\ hand[n].stage = "fetched"
      /\ mem' = [mem EXCEPT ![n] = IF Readable(n) THEN FencesOf(n) ELSE @]
      /\ hand' = [hand EXCEPT ![n] = Idle]
  BY DEF Reject, baseVars, poolVars
<1>2. /\ mem'[n] = IF Readable(n) THEN FencesOf(n) ELSE mem[n]
      /\ \A m \in Nodes \ {n} : mem'[m] = mem[m]
  BY <1>0, <1>1 DEF TypeOK
<1>3. /\ hand'[n].stage = "idle" /\ hand'[n].auth = 0 /\ hand' \in [Nodes -> Hand]
      /\ \A m \in Nodes \ {n} : hand'[m] = hand[m]
  BY <1>0, <1>1, IdleFacts
<1>4. TypeOK'
  <2>1. mem' \in [Nodes -> Fences \cup {None}]
    <3>1. (IF Readable(n) THEN FencesOf(n) ELSE mem[n]) \in Fences \cup {None}
      BY <1>0, Loaded DEF TypeOK
    <3> QED
      BY <1>0, <1>1, <3>1 DEF TypeOK
  <2>2. \A m \in Nodes : {auth'[m], hand'[m].auth} \subseteq 0 .. Len(deliveries[m])
    <3>1. Len(deliveries[n]) \in Nat
      BY <1>0, HandTyped
    <3> QED
      BY <1>0, <1>1, <1>3, <3>1 DEF TypeOK
  <2>3. /\ spent' \in [{"edits", "troubles"} -> Nat] /\ lease' \in [Pools -> LeaseRow]
        /\ auth' \in [Nodes -> Nat] /\ file' \in [Nodes -> Fences \cup {Torn}]
        /\ proj' \in [Nodes -> Stored \cup {None}] /\ serving' \in [Nodes -> Pools \cup {None}]
    BY <1>0, <1>1 DEF TypeOK
  <2> QED
    BY <1>0, <1>1, <1>3, <2>1, <2>2, <2>3, GatewayTypes DEF baseVars
<1>5. RowsKept(n) /\ Attested(n)' \subseteq Attested(n)
  BY <1>1, <1>3 DEF RowsKept, Attested
<1>6. KeepInv(n)' /\ FileInv(n)'
  <2>1. CASE Readable(n)
    BY <1>0, <1>1, <1>2, <1>4, <1>5, <2>1, LoadStep
  <2>2. CASE ~Readable(n)
    BY <1>0, <1>1, <1>2, <1>4, <1>5, <2>2, KeepFrame
  <2> QED
    BY <2>1, <2>2
<1>7. proj[n] # None => mem'[n] = mem[n] /\ mem[n] # None
  BY <1>0, <1>2 DEF GatewayInv, LaneInv, FencesOf
<1>8. LaneInv(n)'
  BY <1>0, <1>1, <1>3, <1>7 DEF GatewayInv, LaneInv
<1>9. PassInv(n)' /\ BoundInv(n)'
  BY <1>0, <1>1, <1>3, <1>7 DEF GatewayInv, PassInv, BoundInv
<1> QED
  BY <1>1, <1>2, <1>3, <1>4, <1>6, <1>8, <1>9, NodeStep

\* What the step installs is what it saved, or what the disk had: the fences of
\* memory are saved unless they are the same.
LEMMA InstallStep ==
  ASSUME IInv, NEW n \in Nodes, Install(n)
  PROVE  IInv'
<1> DEFINE G == Installed(n)
           i == hand[n].auth
           d == Authority(n)
<1>0. TypeOK /\ GatewayInv(n)
  BY DEF IInv
<1>1. /\ UNCHANGED <<base, ver, enabled, pool, lease, draft, deliveries, auth, serving>>
      /\ hand[n].stage = "accepted"
      /\ IF G = mem[n] THEN UNCHANGED <<file, spent>> ELSE SaveFences(n, {G})
      /\ mem' = [mem EXCEPT ![n] = G]
      /\ proj' = [proj EXCEPT ![n] = [content |-> hand[n].content, ver |-> hand[n].ver]]
  BY DEF Install, baseVars, poolVars, Installed
<1>2. PICK h \in Acking(hand[n]) : hand' = [hand EXCEPT ![n] = h]
  BY DEF Install
<1>3. /\ mem[n] \in Fences /\ mem[n] # None /\ G \in Fences /\ G # None
      /\ \A p \in Pools : Classifies(d, p) =>
           p \in Armed(G) /\ G[p].at = hand[n].content /\ d.cls[p] \subseteq G[p].sup
      /\ \A p \in Pools : Unfences(d, p) => p \notin Armed(G) /\ ~Settled(n, p)
      /\ \A p \in Pools : ~Classifies(d, p) /\ ~Unfences(d, p) => G[p] = mem[n][p]
      /\ \A p \in Pools : ~Unfences(d, p) /\ p \in Armed(mem[n]) =>
           p \in Armed(G) /\ mem[n][p].sup \subseteq G[p].sup
  BY <1>1, InstallFacts
<1> HIDE DEF G
<1>4. hand[n] \in Hand /\ i \in 0 .. Len(deliveries[n]) /\ auth[n] \in Nat
  BY <1>0, HandTyped DEF TypeOK
<1>5. /\ h \in Hand /\ h.auth \in {0, i} /\ h.stage \in {"idle", "acking"}
      /\ h.stage = "acking" => i # 0 /\ h.auth = i
      /\ h.auth # 0 => h.stage = "acking"
  BY <1>2, <1>4, EmptyTyped DEF Acking, Hand, Idle
<1>6. /\ hand'[n] = h /\ mem'[n] = G
      /\ proj'[n] = [content |-> hand[n].content, ver |-> hand[n].ver]
      /\ \A m \in Nodes \ {n} : hand'[m] = hand[m] /\ mem'[m] = mem[m] /\ proj'[m] = proj[m]
  BY <1>0, <1>1, <1>2 DEF TypeOK
<1>7. /\ file'[n] \in {G, Torn} \/ (G = mem[n] /\ file'[n] = file[n])
      /\ file' \in [Nodes -> Fences \cup {Torn}] /\ \A m \in Nodes \ {n} : file'[m] = file[m]
      /\ spent' \in [{"edits", "troubles"} -> Nat]
  <2>1. CASE G = mem[n]
    BY <1>0, <1>1, <2>1 DEF TypeOK
  <2>2. CASE G # mem[n]
    <3>1. PICK w \in {G, Torn} :
            /\ file' = [file EXCEPT ![n] = w]
            /\ IF w \in {G} THEN UNCHANGED spent ELSE Trouble
      BY <1>1, <2>2 DEF SaveFences
    <3>2. spent' \in [{"edits", "troubles"} -> Nat]
      BY <1>0, <3>1, TroubleTyped DEF TypeOK
    <3> QED
      BY <1>0, <1>3, <3>1, <3>2 DEF TypeOK
  <2> QED
    BY <2>1, <2>2
<1>8. TypeOK'
  <2>1. mem' \in [Nodes -> Fences \cup {None}]
    BY <1>0, <1>1, <1>3 DEF TypeOK
  <2>2. proj' \in [Nodes -> Stored \cup {None}]
    <3>1. [content |-> hand[n].content, ver |-> hand[n].ver] \in Stored
      BY <1>4 DEF Hand, Stored
    <3> QED
      BY <1>0, <1>1, <3>1 DEF TypeOK
  <2>3. hand' \in [Nodes -> Hand]
    BY <1>0, <1>2, <1>5 DEF TypeOK
  <2>4. \A m \in Nodes : {auth'[m], hand'[m].auth} \subseteq 0 .. Len(deliveries[m])
    <3>1. Len(deliveries[n]) \in Nat
      BY <1>0, HandTyped
    <3>2. h.auth \in 0 .. Len(deliveries[n])
      BY <1>4, <1>5, <3>1
    <3>3. \A m \in Nodes : {auth[m], hand[m].auth} \subseteq 0 .. Len(deliveries[m])
      BY <1>0 DEF TypeOK
    <3> QED
      BY <1>1, <1>6, <3>2, <3>3
  <2>5. /\ lease' \in [Pools -> LeaseRow] /\ auth' \in [Nodes -> Nat]
        /\ serving' \in [Nodes -> Pools \cup {None}]
    BY <1>0, <1>1 DEF TypeOK
  <2> QED
    BY <1>0, <1>1, <1>7, <2>1, <2>2, <2>3, <2>4, <2>5, GatewayTypes DEF baseVars
<1>9. /\ hand[n].auth # 0 => ~Acked(deliveries[n][i]) /\ auth[n] = i
                             /\ i \in DOMAIN deliveries[n] /\ d = deliveries[n][i]
      /\ hand[n].auth = 0 => d = None
      /\ \A k \in DOMAIN deliveries[n] : Acked(deliveries[n][k]) => k <= auth[n]
      /\ DOMAIN deliveries[n] \subseteq Nat /\ 0 \notin DOMAIN deliveries[n]
  BY <1>0, <1>1, HandTyped DEF GatewayInv, LaneInv
<1>10. /\ Attested(n) = {k \in DOMAIN deliveries[n] : Acked(deliveries[n][k])}
       /\ Attested(n)' \subseteq Attested(n) \cup {i}
       /\ i = 0 => Attested(n)' \subseteq Attested(n)
  BY <1>1, <1>5, <1>6 DEF Attested
<1>11. ASSUME NEW p \in Pools, ~Unfences(d, p), Settled(n, p)' PROVE Settled(n, p)
  <2> SUFFICES ASSUME NEW j \in DOMAIN deliveries[n], Unfences(deliveries[n][j], p)
               PROVE  j \in Attested(n)
    BY DEF Settled
  <2>1. j \in Attested(n)'
    BY <1>1, <1>11 DEF Settled
  <2>2. j # i
    BY <1>9, <1>11
  <2> QED
    BY <1>10, <2>1, <2>2
<1>12. ASSUME NEW p \in Pools, NEW k \in Owed(n, p)'
       PROVE  /\ ~Unfences(d, p) /\ Settled(n, p) /\ deliveries'[n][k] = deliveries[n][k]
              /\ k \in Owed(n, p) \/ (k = i /\ i # 0 /\ Classifies(d, p) /\ deliveries[n][k] = d)
  <2>1. /\ k \in Attested(n)' /\ Classifies(deliveries[n][k], p) /\ Firm(n, k, p) /\ Settled(n, p)'
        /\ k \in DOMAIN deliveries[n]
    BY <1>1, <1>12 DEF Owed, Firm, Attested
  <2>2. ASSUME Unfences(d, p) PROVE FALSE
    <3>1. i # 0 /\ i \in DOMAIN deliveries[n] /\ Unfences(deliveries[n][i], p)
      BY <1>9, <2>2 DEF Unfences
    <3>2. k # i
      BY <2>1, <3>1 DEF Unfences, Classifies
    <3>3. k <= i
      BY <1>9, <1>10, <2>1, <3>1, <3>2
    <3>4. i > k
      BY <1>9, <2>1, <3>1, <3>2, <3>3
    <3> QED
      BY <2>1, <3>1, <3>4 DEF Firm
  <2>3. Settled(n, p)
    BY <1>11, <2>1, <2>2
  <2>4. k \in Attested(n) => k \in Owed(n, p)
    BY <2>1, <2>3 DEF Owed
  <2>5. k \notin Attested(n) => k = i /\ i # 0 /\ deliveries[n][k] = d
    BY <1>9, <1>10, <2>1
  <2> QED
    BY <1>1, <2>1, <2>2, <2>3, <2>4, <2>5
<1>13. KeepInv(n)'
  <2>1. ASSUME NEW p \in Pools, NEW k \in Owed(n, p)'
        PROVE  /\ Has(G, p, deliveries'[n][k].cls[p])
               /\ file'[n] # Torn => Has(file'[n], p, deliveries'[n][k].cls[p])
    <3>1. CASE k \in Owed(n, p)
      <4>1. Has(mem[n], p, deliveries[n][k].cls[p])
        BY <1>0, <1>3, <3>1 DEF GatewayInv, KeepInv, Keeps
      <4>2. file[n] # Torn => Has(file[n], p, deliveries[n][k].cls[p])
        BY <1>0, <3>1 DEF GatewayInv, KeepInv, Keeps
      <4>3. Has(G, p, deliveries[n][k].cls[p])
        BY <1>3, <1>12, <2>1, <4>1 DEF Has
      <4> QED
        BY <1>7, <1>12, <2>1, <4>2, <4>3
    <3>2. CASE k = i /\ i # 0 /\ Classifies(d, p) /\ deliveries[n][k] = d
      <4>1. Has(G, p, d.cls[p])
        BY <1>3, <3>2 DEF Has
      <4>2. ASSUME G = mem[n], file[n] # Torn PROVE Has(file[n], p, d.cls[p])
        <5>1. p \in Armed(mem[n]) /\ d.cls[p] \subseteq mem[n][p].sup
          BY <4>1, <4>2 DEF Has
        <5>2. Has(file[n], p, mem[n][p].sup)
          BY <1>0, <1>3, <1>12, <2>1, <4>2, <5>1 DEF GatewayInv, FileInv
        <5> QED
          BY <5>1, <5>2 DEF Has
      <4>3. deliveries'[n][k] = d
        BY <1>1, <3>2
      <4> QED
        BY <1>7, <4>1, <4>2, <4>3
    <3> QED
      BY <1>12, <2>1, <3>1, <3>2
  <2> QED
    BY <1>6, <2>1 DEF KeepInv, Keeps
<1>14. FileInv(n)'
  <2> SUFFICES ASSUME file'[n] # Torn, NEW p \in Armed(G), Settled(n, p)'
               PROVE  Has(file'[n], p, G[p].sup)
    BY <1>6 DEF FileInv
  <2>1. CASE file'[n] = G
    BY <2>1 DEF Has
  <2>2. CASE G = mem[n] /\ file'[n] = file[n]
    <3>1. p \in Pools /\ ~Unfences(d, p)
      BY <1>3 DEF Armed
    <3>2. Settled(n, p)
      BY <1>11, <3>1
    <3> QED
      BY <1>0, <1>3, <2>2, <3>2 DEF GatewayInv, FileInv
  <2> QED
    BY <1>7, <2>1, <2>2
<1>15. LaneInv(n)'
  BY <1>1, <1>3, <1>5, <1>6, <1>9 DEF LaneInv
<1>16. PassInv(n)'
  BY <1>5, <1>6 DEF PassInv
<1>17. BoundInv(n)'
  <2> SUFFICES ASSUME NEW p \in Armed(G) PROVE G[p].at = hand[n].content
    BY <1>6 DEF BoundInv
  <2>1. p \in Pools /\ ~Unfences(d, p)
    BY <1>3 DEF Armed
  <2>2. CASE Classifies(d, p)
    BY <1>3, <2>1, <2>2
  <2>3. CASE ~Classifies(d, p)
    <3>1. G[p] = mem[n][p]
      BY <1>3, <2>1, <2>3
    <3>2. p \in Armed(mem[n])
      BY <2>1, <3>1 DEF Armed
    <3>3. mem[n][p].at = hand[n].content
      BY <1>0, <1>1, <2>1, <2>3, <3>2 DEF GatewayInv, PassInv
    <3> QED
      BY <3>1, <3>3
  <2> QED
    BY <2>2, <2>3
<1> QED
  BY <1>1, <1>6, <1>7, <1>8, <1>13, <1>14, <1>15, <1>16, <1>17, NodeStep

LEMMA InstallFailsStep ==
  ASSUME IInv, NEW n \in Nodes, InstallFails(n)
  PROVE  IInv'
<1> DEFINE G == Installed(n)
<1>0. TypeOK /\ GatewayInv(n)
  BY DEF IInv
<1>1. /\ UNCHANGED <<base, ver, enabled, pool, lease, draft, deliveries, auth, mem, proj, serving>>
      /\ hand[n].stage = "accepted" /\ hand' = [hand EXCEPT ![n] = Idle] /\ Trouble
  BY DEF InstallFails, baseVars, poolVars
<1>2. PICK w \in {file[n], G, Torn} : file' = [file EXCEPT ![n] = w]
  BY DEF InstallFails, MaybeWritten, Installed
<1>3. /\ Readable(n) /\ FencesOf(n) = mem[n] /\ G \in Fences
      /\ \A p \in Pools : Unfences(Authority(n), p) => ~Settled(n, p)
      /\ \A p \in Pools : ~Unfences(Authority(n), p) /\ p \in Armed(mem[n]) =>
           p \in Armed(G) /\ mem[n][p].sup \subseteq G[p].sup
  BY <1>1, InstallFacts
<1> HIDE DEF G
<1>4. /\ hand'[n].stage = "idle" /\ hand'[n].auth = 0 /\ hand' \in [Nodes -> Hand]
      /\ \A m \in Nodes \ {n} : hand'[m] = hand[m]
  BY <1>0, <1>1, IdleFacts
<1>5. file'[n] = w /\ (\A m \in Nodes \ {n} : file'[m] = file[m])
      /\ file' \in [Nodes -> Fences \cup {Torn}]
  BY <1>0, <1>2, <1>3 DEF TypeOK
<1>6. TypeOK'
  <2>1. \A m \in Nodes : {auth'[m], hand'[m].auth} \subseteq 0 .. Len(deliveries[m])
    <3>1. Len(deliveries[n]) \in Nat /\ \A m \in Nodes : {auth[m], hand[m].auth} \subseteq 0 .. Len(deliveries[m])
      BY <1>0, HandTyped DEF TypeOK
    <3> QED
      BY <1>1, <1>4, <3>1
  <2>2. spent' \in [{"edits", "troubles"} -> Nat]
    BY <1>0, <1>1, TroubleTyped
  <2>3. /\ lease' \in [Pools -> LeaseRow] /\ auth' \in [Nodes -> Nat]
        /\ mem' \in [Nodes -> Fences \cup {None}] /\ proj' \in [Nodes -> Stored \cup {None}]
        /\ serving' \in [Nodes -> Pools \cup {None}]
    BY <1>0, <1>1 DEF TypeOK
  <2> QED
    BY <1>0, <1>1, <1>4, <1>5, <2>1, <2>2, <2>3, GatewayTypes DEF baseVars
<1>7. RowsKept(n) /\ Attested(n)' \subseteq Attested(n)
  BY <1>1, <1>4 DEF RowsKept, Attested
<1>8. KeepInv(n)' /\ FileInv(n)'
  <2>1. \A p \in Pools : Settled(n, p) /\ p \in Armed(FencesOf(n)) =>
          p \in Armed(G) /\ FencesOf(n)[p].sup \subseteq G[p].sup
    BY <1>3
  <2>2. mem'[n] \in {FencesOf(n), None} /\ file'[n] \in {file[n], G, Torn}
    BY <1>1, <1>2, <1>3, <1>5
  <2> QED
    BY <1>0, <1>3, <1>6, <1>7, <2>1, <2>2, WriteStep
<1>9. LaneInv(n)' /\ PassInv(n)' /\ BoundInv(n)'
  BY <1>0, <1>1, <1>4 DEF GatewayInv, LaneInv, PassInv, BoundInv
<1> QED
  BY <1>1, <1>4, <1>5, <1>6, <1>8, <1>9, NodeStep

LEMMA CrashStep ==
  ASSUME IInv, NEW n \in Nodes, Crash(n)
  PROVE  IInv'
<1> DEFINE G == Installed(n)
<1>0. TypeOK /\ GatewayInv(n)
  BY DEF IInv
<1>1. /\ UNCHANGED <<base, ver, enabled, pool, lease, draft, deliveries, auth>>
      /\ hand' = [hand EXCEPT ![n] = Idle] /\ Trouble
      /\ mem' = [mem EXCEPT ![n] = None] /\ proj' = [proj EXCEPT ![n] = None]
      /\ serving' = [serving EXCEPT ![n] = None]
  BY DEF Crash, baseVars, poolVars
<1>2. PICK w : /\ file' = [file EXCEPT ![n] = w]
               /\ w = file[n] \/ (hand[n].stage = "accepted" /\ w \in {file[n], G, Torn})
  BY DEF Crash, MaybeWritten, Installed
<1>3. hand[n].stage = "accepted" =>
        /\ Readable(n) /\ FencesOf(n) = mem[n] /\ G \in Fences
        /\ \A p \in Pools : Unfences(Authority(n), p) => ~Settled(n, p)
        /\ \A p \in Pools : ~Unfences(Authority(n), p) /\ p \in Armed(mem[n]) =>
             p \in Armed(G) /\ mem[n][p].sup \subseteq G[p].sup
  BY InstallFacts
<1> HIDE DEF G
<1>4. /\ hand'[n].stage = "idle" /\ hand'[n].auth = 0 /\ hand' \in [Nodes -> Hand]
      /\ \A m \in Nodes \ {n} : hand'[m] = hand[m]
  BY <1>0, <1>1, IdleFacts
<1>5. /\ file'[n] = w /\ (\A m \in Nodes \ {n} : file'[m] = file[m])
      /\ file' \in [Nodes -> Fences \cup {Torn}]
      /\ mem'[n] = None /\ proj'[n] = None
      /\ \A m \in Nodes \ {n} : mem'[m] = mem[m] /\ proj'[m] = proj[m]
  BY <1>0, <1>1, <1>2, <1>3 DEF TypeOK
<1>6. TypeOK'
  <2>1. \A m \in Nodes : {auth'[m], hand'[m].auth} \subseteq 0 .. Len(deliveries[m])
    <3>1. Len(deliveries[n]) \in Nat /\ \A m \in Nodes : {auth[m], hand[m].auth} \subseteq 0 .. Len(deliveries[m])
      BY <1>0, HandTyped DEF TypeOK
    <3> QED
      BY <1>1, <1>4, <3>1
  <2>2. spent' \in [{"edits", "troubles"} -> Nat]
    BY <1>0, <1>1, TroubleTyped
  <2>3. /\ lease' \in [Pools -> LeaseRow] /\ auth' \in [Nodes -> Nat]
        /\ mem' \in [Nodes -> Fences \cup {None}] /\ proj' \in [Nodes -> Stored \cup {None}]
        /\ serving' \in [Nodes -> Pools \cup {None}]
    BY <1>0, <1>1 DEF TypeOK
  <2> QED
    BY <1>0, <1>1, <1>4, <1>5, <2>1, <2>2, <2>3, GatewayTypes DEF baseVars
<1>7. RowsKept(n) /\ Attested(n)' \subseteq Attested(n)
  BY <1>1, <1>4 DEF RowsKept, Attested
<1>8. KeepInv(n)' /\ FileInv(n)'
  <2>1. CASE w = file[n]
    <3>1. ASSUME file[n] # Torn
          PROVE  \A p \in Pools : \A k \in Owed(n, p)' : Has(file[n], p, deliveries'[n][k].cls[p])
      <4>1. Keeps(file[n], n)
        BY <1>0, <3>1 DEF GatewayInv, KeepInv
      <4> QED
        BY <1>0, <1>6, <1>7, <4>1, KeepsStep
    <3> QED
      BY <1>5, <2>1, <3>1 DEF KeepInv, Keeps, FileInv
  <2>2. CASE hand[n].stage = "accepted" /\ w \in {file[n], G, Torn}
    <3>1. \A p \in Pools : Settled(n, p) /\ p \in Armed(FencesOf(n)) =>
            p \in Armed(G) /\ FencesOf(n)[p].sup \subseteq G[p].sup
      BY <1>3, <2>2
    <3>2. Readable(n) /\ mem'[n] \in {FencesOf(n), None} /\ file'[n] \in {file[n], G, Torn}
      BY <1>3, <1>5, <2>2
    <3> QED
      BY <1>0, <1>6, <1>7, <3>1, <3>2, WriteStep
  <2> QED
    BY <1>2, <2>1, <2>2
<1>9. LaneInv(n)' /\ PassInv(n)' /\ BoundInv(n)'
  BY <1>0, <1>1, <1>4, <1>5 DEF GatewayInv, LaneInv, PassInv, BoundInv
<1> QED
  BY <1>1, <1>4, <1>5, <1>6, <1>8, <1>9, NodeStep

LEMMA WithdrawStep ==
  ASSUME IInv, NEW n \in Nodes, Withdraw(n)
  PROVE  IInv'
<1>0. TypeOK /\ GatewayInv(n)
  BY DEF IInv
<1>1. /\ UNCHANGED <<base, ver, spent, enabled, pool, lease, draft, deliveries, auth, file, mem, proj, hand>>
      /\ serving' = [serving EXCEPT ![n] = None]
  BY DEF Withdraw, baseVars, poolVars
<1>2. TypeOK'
  BY <1>0, <1>1 DEF TypeOK
<1>3. GatewayInv(n)'
  BY <1>0, <1>1, <1>2, GatewayFrame
<1> QED
  BY <1>1, <1>2, <1>3, NodeStep DEF GatewayInv

LEMMA ServeStep ==
  ASSUME IInv, NEW n \in Nodes, NEW p \in Pools, Serve(n, p)
  PROVE  IInv'
<1> DEFINE R == Rearmed(n, p)
<1>0. TypeOK /\ GatewayInv(n)
  BY DEF IInv
<1>1. /\ UNCHANGED <<base, ver, enabled, pool, draft, deliveries, auth, proj, hand>>
      /\ MayServe(n, p) /\ mem' = [mem EXCEPT ![n] = R]
      /\ serving' \in {[serving EXCEPT ![n] = None], [serving EXCEPT ![n] = p]}
      /\ lease' \in {lease, [lease EXCEPT ![p].st = "acked"]}
  BY DEF Serve, baseVars
<1>2. PICK w \in {R, Torn} :
        /\ file' = [file EXCEPT ![n] = w]
        /\ IF w \in {R} THEN UNCHANGED spent ELSE Trouble
  BY DEF Serve, SaveFences
<1>3. /\ R \in Fences /\ R # None /\ R[p].at = proj[n].content
      /\ \A q \in Pools : q \in Armed(FencesOf(n)) =>
           q \in Armed(R) /\ FencesOf(n)[q].sup \subseteq R[q].sup
      /\ \A q \in Pools : q # p => R[q] = FencesOf(n)[q]
  BY <1>0, <1>1, RearmedFacts
<1>4. Readable(n) /\ hand[n].stage # "accepted" /\ proj[n] # None /\ mem[n] # None
      /\ FencesOf(n) = mem[n]
  BY <1>0, <1>1 DEF MayServe, LaneFree, GatewayInv, LaneInv, FencesOf
<1> HIDE DEF R
<1>5. /\ file'[n] = w /\ mem'[n] = R /\ file' \in [Nodes -> Fences \cup {Torn}]
      /\ mem' \in [Nodes -> Fences \cup {None}]
      /\ \A m \in Nodes \ {n} : mem'[m] = mem[m] /\ file'[m] = file[m]
  BY <1>0, <1>1, <1>2, <1>3 DEF TypeOK
<1>6. TypeOK'
  <2>1. spent' \in [{"edits", "troubles"} -> Nat]
    BY <1>0, <1>2, TroubleTyped DEF TypeOK
  <2>2. lease' \in [Pools -> LeaseRow]
    <3>1. lease \in [Pools -> LeaseRow] /\ lease[p] \in LeaseRow
      BY <1>0 DEF TypeOK
    <3>2. [lease[p] EXCEPT !.st = "acked"] \in LeaseRow
      BY <3>1 DEF LeaseRow
    <3> QED
      BY <1>1, <3>1, <3>2
  <2>3. serving' \in [Nodes -> Pools \cup {None}]
    BY <1>0, <1>1 DEF TypeOK
  <2>4. /\ auth' \in [Nodes -> Nat] /\ proj' \in [Nodes -> Stored \cup {None}]
        /\ hand' \in [Nodes -> Hand]
        /\ \A m \in Nodes : {auth'[m], hand'[m].auth} \subseteq 0 .. Len(deliveries[m])
    BY <1>0, <1>1 DEF TypeOK
  <2> QED
    BY <1>0, <1>1, <1>5, <2>1, <2>2, <2>3, <2>4, GatewayTypes DEF baseVars
<1>7. RowsKept(n) /\ Attested(n)' \subseteq Attested(n)
  BY <1>1 DEF RowsKept, Attested
<1>8. KeepInv(n)' /\ FileInv(n)'
  <2>1. Keeps(FencesOf(n), n)
    BY <1>0, <1>4, Loaded
  <2>2. \A q \in Pools : Settled(n, q) /\ q \in Armed(FencesOf(n)) =>
          q \in Armed(mem'[n]) /\ FencesOf(n)[q].sup \subseteq mem'[n][q].sup
    BY <1>3, <1>5
  <2>3. file'[n] \in {mem'[n], Torn}
    BY <1>2, <1>5
  <2> QED
    BY <1>0, <1>6, <1>7, <2>1, <2>2, <2>3, SaveStep
<1>9. LaneInv(n)'
  BY <1>0, <1>1, <1>3, <1>5 DEF GatewayInv, LaneInv
<1>10. PassInv(n)'
  BY <1>1, <1>4 DEF PassInv
<1>11. BoundInv(n)'
  <2> SUFFICES ASSUME NEW q \in Armed(R) PROVE R[q].at = proj[n].content
    BY <1>1, <1>5 DEF BoundInv
  <2>1. CASE q = p
    BY <1>3, <2>1
  <2>2. CASE q # p
    <3>1. q \in Pools /\ R[q] = mem[n][q]
      BY <1>3, <1>4, <2>2 DEF Armed
    <3>2. q \in Armed(mem[n])
      BY <3>1 DEF Armed
    <3> QED
      BY <1>0, <1>4, <3>1, <3>2 DEF GatewayInv, BoundInv
  <2> QED
    BY <2>1, <2>2
<1> QED
  BY <1>1, <1>5, <1>6, <1>8, <1>9, <1>10, <1>11, NodeStep

LEMMA ServeFailsStep ==
  ASSUME IInv, NEW n \in Nodes, NEW p \in Pools, ServeFails(n, p)
  PROVE  IInv'
<1> DEFINE R == Rearmed(n, p)
<1>0. TypeOK /\ GatewayInv(n)
  BY DEF IInv
<1>1. /\ UNCHANGED <<base, ver, enabled, pool, lease, draft, deliveries, auth, proj, serving, hand>>
      /\ MayServe(n, p) /\ mem' = [mem EXCEPT ![n] = FencesOf(n)] /\ Trouble
  BY DEF ServeFails, baseVars, poolVars
<1>2. PICK w \in {file[n], R, Torn} : file' = [file EXCEPT ![n] = w]
  BY DEF ServeFails, MaybeWritten
<1>3. /\ R \in Fences
      /\ \A q \in Pools : q \in Armed(FencesOf(n)) =>
           q \in Armed(R) /\ FencesOf(n)[q].sup \subseteq R[q].sup
  BY <1>0, <1>1, RearmedFacts
<1>4. Readable(n) /\ mem[n] # None /\ FencesOf(n) = mem[n]
  BY <1>0, <1>1 DEF MayServe, GatewayInv, LaneInv, FencesOf
<1> HIDE DEF R
<1>5. /\ file'[n] = w /\ mem' = mem /\ file' \in [Nodes -> Fences \cup {Torn}]
      /\ \A m \in Nodes \ {n} : file'[m] = file[m]
  BY <1>0, <1>1, <1>2, <1>3, <1>4 DEF TypeOK
<1>6. TypeOK'
  <2>1. spent' \in [{"edits", "troubles"} -> Nat]
    BY <1>0, <1>1, TroubleTyped
  <2>2. /\ auth' \in [Nodes -> Nat] /\ proj' \in [Nodes -> Stored \cup {None}]
        /\ hand' \in [Nodes -> Hand] /\ lease' \in [Pools -> LeaseRow]
        /\ serving' \in [Nodes -> Pools \cup {None}] /\ mem' \in [Nodes -> Fences \cup {None}]
        /\ \A m \in Nodes : {auth'[m], hand'[m].auth} \subseteq 0 .. Len(deliveries[m])
    BY <1>0, <1>1, <1>5 DEF TypeOK
  <2> QED
    BY <1>0, <1>1, <1>5, <2>1, <2>2, GatewayTypes DEF baseVars
<1>7. RowsKept(n) /\ Attested(n)' \subseteq Attested(n)
  BY <1>1 DEF RowsKept, Attested
<1>8. KeepInv(n)' /\ FileInv(n)'
  <2>1. \A q \in Pools : Settled(n, q) /\ q \in Armed(FencesOf(n)) =>
          q \in Armed(R) /\ FencesOf(n)[q].sup \subseteq R[q].sup
    BY <1>3
  <2>2. mem'[n] \in {FencesOf(n), None} /\ file'[n] \in {file[n], R, Torn}
    BY <1>2, <1>4, <1>5
  <2> QED
    BY <1>0, <1>4, <1>6, <1>7, <2>1, <2>2, WriteStep
<1>9. Authority(n)' = Authority(n)
  BY <1>1 DEF Authority
<1>10. LaneInv(n)' /\ PassInv(n)' /\ BoundInv(n)'
  BY <1>0, <1>1, <1>5, <1>9 DEF GatewayInv, LaneInv, PassInv, BoundInv
<1> QED
  BY <1>1, <1>5, <1>6, <1>8, <1>10, NodeStep

-----------------------------------------------------------------------------
(* The steps of the ledger.                                                *)

\* Receipts of n stay.
AcksKept(n) ==
  \A i \in DOMAIN deliveries[n] : Acked(deliveries[n][i]) => Acked(deliveries'[n][i])

NewRows(n) == DOMAIN deliveries'[n] \ DOMAIN deliveries[n]

\* An acknowledged barrier stays.
LEMMA BarrierKept ==
  ASSUME NEW p, NEW r, \A n \in Nodes : RowsKept(n) /\ AcksKept(n), Barrier(p, r)
  PROVE  \A m \in Nodes : \E k \in DOMAIN deliveries'[m] :
           /\ deliveries'[m][k].kind = "maintain" /\ deliveries'[m][k].rev = r
           /\ p \in deliveries'[m][k].pools /\ Acked(deliveries'[m][k])
<1> SUFFICES ASSUME NEW m \in Nodes
             PROVE  \E k \in DOMAIN deliveries'[m] :
                      /\ deliveries'[m][k].kind = "maintain" /\ deliveries'[m][k].rev = r
                      /\ p \in deliveries'[m][k].pools /\ Acked(deliveries'[m][k])
  OBVIOUS
<1>1. PICK k \in DOMAIN deliveries[m] :
        /\ deliveries[m][k].kind = "maintain" /\ deliveries[m][k].rev = r
        /\ p \in deliveries[m][k].pools /\ Acked(deliveries[m][k])
  BY DEF Barrier, AtRevision
<1> QED
  BY <1>1 DEF RowsKept, AcksKept

\* Rows are added at the end of a ledger: arm authorities at the revision of a
\* pool while no drain is under way, releases after the barrier of a pool that
\* is not fenced and has no arm authority at its revision.
LEMMA LedgerStep ==
  ASSUME TypeOK, TypeOK', LedgerInv, UNCHANGED pool,
         \A n \in Nodes : RowsKept(n) /\ AcksKept(n),
         draft'.what = "drain" =>
           /\ draft.what = "drain" /\ draft'.pools = draft.pools /\ draft'.rev = draft.rev
           /\ draft'.stage = draft.stage,
         \A n \in Nodes : \A i \in NewRows(n) :
           /\ \A j \in DOMAIN deliveries'[n] : ~(j > i)
           /\ \A p \in Pools : Arms(deliveries'[n][i], p) =>
                draft'.what # "drain" /\ deliveries'[n][i].rev = pool[p].rev
           /\ deliveries'[n][i].pools \subseteq Pools
           /\ \A p \in Pools : Unfences(deliveries'[n][i], p) =>
                /\ pool[p].act # "fenced_ha"
                /\ pool[p].act = "bootstrap_pending" => \A j \in DOMAIN deliveries[n] :
                     Arms(deliveries[n][j], p) => deliveries[n][j].rev < pool[p].rev
                /\ Barrier(p, deliveries'[n][i].rev - 1)
  PROVE  LedgerInv'
<1>0. ASSUME NEW n \in Nodes, NEW i \in DOMAIN deliveries'[n] PROVE deliveries'[n][i] # None
  <2>1. deliveries'[n] \in Seq(Delivery)
    BY DEF TypeOK
  <2>2. deliveries'[n][i] \in Delivery
    BY <2>1
  <2> QED
    BY <2>2, NilAssumption
<1>1. ASSUME NEW n \in Nodes, NEW i \in DOMAIN deliveries[n], NEW p \in Pools
      PROVE  /\ deliveries'[n][i].rev = deliveries[n][i].rev
             /\ Arms(deliveries'[n][i], p) <=> Arms(deliveries[n][i], p)
             /\ Unfences(deliveries'[n][i], p) => Unfences(deliveries[n][i], p)
  <2>1. deliveries[n][i] # None
    BY RowTyped
  <2> QED
    BY <2>1 DEF RowsKept, Arms, Unfences
<1>2. \A n \in Nodes : \A i \in DOMAIN deliveries'[n] : i \in DOMAIN deliveries[n] \/ i \in NewRows(n)
  BY DEF NewRows
<1>3. DrainInv'
  <2> SUFFICES ASSUME draft'.what = "drain", NEW p \in draft'.pools
               PROVE  /\ pool'[p].act # "fenced_ha"
                      /\ pool'[p].act = "bootstrap_pending" =>
                           \A n \in Nodes : \A i \in DOMAIN deliveries'[n] :
                             Arms(deliveries'[n][i], p) => deliveries'[n][i].rev < pool'[p].rev
                      /\ draft'.stage = "issued" => Barrier(p, draft.rev)'
    BY DEF DrainInv
  <2>0. p \in draft.pools /\ p \in Pools
    BY DraftTyped
  <2>1. /\ pool[p].act # "fenced_ha"
        /\ pool[p].act = "bootstrap_pending" =>
             \A n \in Nodes : \A i \in DOMAIN deliveries[n] :
               Arms(deliveries[n][i], p) => deliveries[n][i].rev < pool[p].rev
        /\ draft.stage = "issued" => Barrier(p, draft.rev)
    BY <2>0 DEF LedgerInv, DrainInv
  <2>2. ASSUME pool[p].act = "bootstrap_pending", NEW n \in Nodes,
               NEW i \in DOMAIN deliveries'[n], Arms(deliveries'[n][i], p)
        PROVE  deliveries'[n][i].rev < pool[p].rev
    <3>1. i \in DOMAIN deliveries[n]
      BY <1>2, <2>0, <2>2
    <3> QED
      BY <1>1, <2>0, <2>1, <2>2, <3>1
  <2>3. draft'.stage = "issued" => Barrier(p, draft.rev)'
    <3> SUFFICES ASSUME draft'.stage = "issued" PROVE Barrier(p, draft.rev)'
      OBVIOUS
    <3>1. \A m \in Nodes : \E k \in DOMAIN deliveries'[m] :
           /\ deliveries'[m][k].kind = "maintain" /\ deliveries'[m][k].rev = draft.rev
           /\ p \in deliveries'[m][k].pools /\ Acked(deliveries'[m][k])
      BY <2>1, BarrierKept
    <3> QED
      BY <3>1 DEF Barrier, AtRevision
  <2> QED
    BY <2>1, <2>2, <2>3
<1>4. ArmInv'
  <2> SUFFICES ASSUME NEW n \in Nodes, NEW p \in Pools, NEW i \in DOMAIN deliveries'[n],
                      Arms(deliveries'[n][i], p)
               PROVE  /\ deliveries'[n][i].rev <= pool[p].rev
                      /\ deliveries'[n][i].rev = pool[p].rev /\ pool[p].act = "bootstrap_pending"
                           => Firm(n, i, p)'
    BY DEF ArmInv
  <2>0. pool[p].rev \in Nat
    BY PoolTyped
  <2>1. CASE i \in DOMAIN deliveries[n]
    <3>1. Arms(deliveries[n][i], p) /\ deliveries'[n][i].rev = deliveries[n][i].rev
      BY <1>1, <2>1
    <3>2. /\ deliveries[n][i].rev <= pool[p].rev
          /\ deliveries[n][i].rev = pool[p].rev /\ pool[p].act = "bootstrap_pending" => Firm(n, i, p)
      BY <2>1, <3>1 DEF LedgerInv, ArmInv
    <3>3. ASSUME deliveries[n][i].rev = pool[p].rev, pool[p].act = "bootstrap_pending"
          PROVE  Firm(n, i, p)'
      <4> SUFFICES ASSUME NEW j \in DOMAIN deliveries'[n], j > i, Unfences(deliveries'[n][j], p)
                   PROVE  FALSE
        BY DEF Firm
      <4>1. CASE j \in DOMAIN deliveries[n]
        BY <1>1, <3>2, <3>3, <4>1 DEF Firm
      <4>2. CASE j \in NewRows(n)
        <5>1. deliveries[n][i].rev < pool[p].rev
          BY <2>1, <3>1, <3>3, <4>2
        <5> QED
          BY <2>0, <3>3, <5>1
      <4> QED
        BY <1>2, <4>1, <4>2
    <3> QED
      BY <3>1, <3>2, <3>3
  <2>2. CASE i \in NewRows(n)
    <3>1. deliveries'[n][i].rev = pool[p].rev
      BY <2>2
    <3>2. Firm(n, i, p)'
      BY <2>2 DEF Firm
    <3> QED
      BY <2>0, <3>1, <3>2
  <2> QED
    BY <1>2, <2>1, <2>2
<1>5. FencedInv'
  <2> SUFFICES ASSUME NEW p \in Pools, pool[p].act = "fenced_ha", NEW n \in Nodes
               PROVE  \E k \in DOMAIN deliveries'[n] :
                        /\ Acked(deliveries'[n][k]) /\ Classifies(deliveries'[n][k], p)
                        /\ Firm(n, k, p)'
    BY DEF FencedInv
  <2>1. PICK k \in DOMAIN deliveries[n] :
          Acked(deliveries[n][k]) /\ Classifies(deliveries[n][k], p) /\ Firm(n, k, p)
    BY DEF LedgerInv, FencedInv
  <2>2. k \in DOMAIN deliveries'[n] /\ Acked(deliveries'[n][k])
    BY <2>1 DEF RowsKept, AcksKept
  <2>3. ~Unfences(deliveries'[n][k], p)
    BY <1>1, <2>1 DEF Classifies, Unfences
  <2>4. deliveries'[n][k].kind # "unfence" /\ p \in deliveries'[n][k].pools
    BY <2>1 DEF Classifies, RowsKept
  <2>5. deliveries'[n][k] # None => Classifies(deliveries'[n][k], p)
    BY <2>4 DEF Classifies
  <2>6. Firm(n, k, p)'
    <3> SUFFICES ASSUME NEW j \in DOMAIN deliveries'[n], j > k, Unfences(deliveries'[n][j], p)
                 PROVE  FALSE
      BY DEF Firm
    <3>1. CASE j \in DOMAIN deliveries[n]
      BY <1>1, <2>1, <3>1 DEF Firm
    <3>2. CASE j \in NewRows(n)
      BY <3>2
    <3> QED
      BY <1>2, <3>1, <3>2
  <2> QED
    BY <1>0, <2>2, <2>5, <2>6
<1>6. ReleaseAfterBarrier'
  <2> SUFFICES ASSUME NEW n \in Nodes, NEW i \in DOMAIN deliveries'[n],
                      deliveries'[n][i].kind = "unfence", NEW m \in Nodes,
                      NEW p \in deliveries'[n][i].pools
               PROVE  \E k \in DOMAIN deliveries'[m] :
                        /\ deliveries'[m][k].kind = "maintain"
                        /\ deliveries'[m][k].rev = deliveries'[n][i].rev - 1
                        /\ p \in deliveries'[m][k].pools /\ Acked(deliveries'[m][k])
    BY DEF ReleaseAfterBarrier, AtRevision
  <2>1. Barrier(p, deliveries'[n][i].rev - 1)
    <3>1. CASE i \in DOMAIN deliveries[n]
      <4>1. /\ deliveries[n][i].kind = "unfence" /\ p \in deliveries[n][i].pools
            /\ deliveries'[n][i].rev = deliveries[n][i].rev
        BY <3>1 DEF RowsKept
      <4> QED
        BY <3>1, <4>1 DEF LedgerInv, ReleaseAfterBarrier, Barrier
    <3>2. CASE i \in NewRows(n)
      <4>1. p \in Pools
        BY <3>2
      <4>2. deliveries'[n][i] # None => Unfences(deliveries'[n][i], p)
        BY DEF Unfences
      <4> QED
        BY <1>0, <3>2, <4>1, <4>2
    <3> QED
      BY <1>2, <3>1, <3>2
  <2> QED
    BY <2>1, BarrierKept
<1> QED
  BY <1>3, <1>4, <1>5, <1>6 DEF LedgerInv

\* No row of n gets its receipt.
NoNewAcks(n) ==
  \A i \in DOMAIN deliveries'[n] :
    Acked(deliveries'[n][i]) => i \in DOMAIN deliveries[n] /\ Acked(deliveries[n][i])

LEMMA GatewayRows ==
  ASSUME TypeOK, TypeOK', NEW n \in Nodes, GatewayInv(n), RowsKept(n), NoNewAcks(n),
         hand'[n] = hand[n], auth'[n] = auth[n], mem'[n] = mem[n], file'[n] = file[n],
         proj'[n] = proj[n]
  PROVE  GatewayInv(n)'
<1>1. hand[n].auth # 0 =>
        /\ hand[n].auth \in DOMAIN deliveries[n] /\ hand[n].auth \in DOMAIN deliveries'[n]
        /\ Authority(n) = deliveries[n][hand[n].auth]
        /\ Authority(n)' = deliveries'[n][hand[n].auth]
  BY HandTyped DEF RowsKept, Authority
<1>2. Attested(n)' \subseteq Attested(n)
  BY <1>1, HandTyped DEF Attested, NoNewAcks, GatewayInv, LaneInv
<1>3. KeepInv(n)' /\ FileInv(n)'
  BY <1>2, KeepFrame
<1>4. LaneInv(n)'
  <2>1. /\ proj[n] # None => mem[n] # None
        /\ hand[n].auth # 0 => ~Acked(deliveries[n][hand[n].auth])
        /\ hand[n].stage \in {"accepted", "acking"} =>
             mem[n] # None /\ (hand[n].auth # 0 => auth[n] = hand[n].auth)
        /\ hand[n].stage = "acking" => hand[n].auth # 0
        /\ \A k \in DOMAIN deliveries[n] : Acked(deliveries[n][k]) => k <= auth[n]
    BY DEF GatewayInv, LaneInv
  <2>2. hand[n].auth # 0 => ~Acked(deliveries'[n][hand[n].auth])
    BY <1>1, <2>1 DEF NoNewAcks
  <2>3. \A k \in DOMAIN deliveries'[n] : Acked(deliveries'[n][k]) => k <= auth[n]
    BY <2>1 DEF NoNewAcks
  <2> QED
    BY <2>1, <2>2, <2>3 DEF LaneInv
<1>5. \A p \in Pools : /\ Classifies(Authority(n), p) => Classifies(Authority(n)', p)
                       /\ Unfences(Authority(n), p) <=> Unfences(Authority(n)', p)
  <2>1. CASE hand[n].auth = 0
    BY <2>1 DEF Authority, Classifies, Unfences
  <2>2. CASE hand[n].auth # 0
    <3>1. Authority(n) # None /\ Authority(n)' # None
      <4>1. deliveries'[n] \in Seq(Delivery)
        BY DEF TypeOK
      <4>2. deliveries'[n][hand[n].auth] \in Delivery
        BY <1>1, <2>2, <4>1
      <4> QED
        BY <1>1, <2>2, <4>2, RowTyped, NilAssumption
    <3>2. Authority(n)'.kind = Authority(n).kind /\ Authority(n)'.pools = Authority(n).pools
      BY <1>1, <2>2 DEF RowsKept
    <3> QED
      BY <3>1, <3>2 DEF Classifies, Unfences
  <2> QED
    BY <2>1, <2>2
<1>6. PassInv(n)'
  <2> SUFFICES ASSUME hand[n].stage = "accepted"
               PROVE  /\ \A p \in Armed(mem[n]) :
                           \/ Classifies(Authority(n)', p) \/ Unfences(Authority(n)', p)
                           \/ mem[n][p].at = hand[n].content
                      /\ \A p \in Pools : Unfences(Authority(n)', p) => mem[n][p] # None
    BY DEF PassInv
  <2>1. /\ \A p \in Armed(mem[n]) :
             \/ Classifies(Authority(n), p) \/ Unfences(Authority(n), p)
             \/ mem[n][p].at = hand[n].content
        /\ \A p \in Pools : Unfences(Authority(n), p) => mem[n][p] # None
    BY DEF GatewayInv, PassInv
  <2>2. Armed(mem[n]) \subseteq Pools
    BY DEF Armed
  <2> QED
    BY <1>5, <2>1, <2>2
<1>7. BoundInv(n)'
  BY DEF GatewayInv, BoundInv
<1> QED
  BY <1>3, <1>4, <1>6, <1>7 DEF GatewayInv

\* The ledger moves, and the gateways do not: rows are added as LedgerStep says.
LEMMA RowsStep ==
  ASSUME IInv, TypeOK', GotInv', UNCHANGED <<pool, auth, file, mem, proj, hand>>,
         \A n \in Nodes : RowsKept(n) /\ AcksKept(n) /\ NoNewAcks(n),
         draft'.what = "drain" =>
           /\ draft.what = "drain" /\ draft'.pools = draft.pools /\ draft'.rev = draft.rev
           /\ draft'.stage = draft.stage,
         \A n \in Nodes : \A i \in NewRows(n) :
           /\ \A j \in DOMAIN deliveries'[n] : ~(j > i)
           /\ \A p \in Pools : Arms(deliveries'[n][i], p) =>
                draft'.what # "drain" /\ deliveries'[n][i].rev = pool[p].rev
           /\ deliveries'[n][i].pools \subseteq Pools
           /\ \A p \in Pools : Unfences(deliveries'[n][i], p) =>
                /\ pool[p].act # "fenced_ha"
                /\ pool[p].act = "bootstrap_pending" => \A j \in DOMAIN deliveries[n] :
                     Arms(deliveries[n][j], p) => deliveries[n][j].rev < pool[p].rev
                /\ Barrier(p, deliveries'[n][i].rev - 1)
  PROVE  IInv'
<1>1. TypeOK /\ LedgerInv /\ \A n \in Nodes : GatewayInv(n)
  BY DEF IInv
<1>2. LedgerInv'
  BY <1>1, LedgerStep
<1>3. \A n \in Nodes : GatewayInv(n)'
  BY <1>1, GatewayRows
<1> QED
  BY <1>2, <1>3 DEF IInv

\* A row is changed in its age and its receipt only.
LEMMA BucketStep ==
  ASSUME IInv, NextBucket
  PROVE  IInv'
<1>0. TypeOK
  BY DEF IInv
<1>1. /\ UNCHANGED <<base, ver, enabled, pool, lease, draft, auth, file, mem, proj, serving, hand>>
      /\ Trouble
      /\ deliveries' = [n \in Nodes |-> [i \in DOMAIN deliveries[n] |->
           [deliveries[n][i] EXCEPT !.age = IF @ = 2 THEN 2 ELSE @ + 1]]]
  BY DEF NextBucket, baseVars, poolVars, nodeVars
<1>2. ASSUME NEW n \in Nodes
      PROVE  /\ DOMAIN deliveries'[n] = DOMAIN deliveries[n]
             /\ \A i \in DOMAIN deliveries[n] :
                  deliveries'[n][i] = [deliveries[n][i] EXCEPT !.age = IF @ = 2 THEN 2 ELSE @ + 1]
  BY <1>1
<1>3. ASSUME NEW n \in Nodes, NEW i \in DOMAIN deliveries[n]
      PROVE  /\ deliveries'[n][i] \in Delivery
             /\ deliveries'[n][i].kind = deliveries[n][i].kind
             /\ deliveries'[n][i].pools = deliveries[n][i].pools
             /\ deliveries'[n][i].cls = deliveries[n][i].cls
             /\ deliveries'[n][i].rev = deliveries[n][i].rev
             /\ deliveries'[n][i].receipt = deliveries[n][i].receipt
  <2>1. deliveries[n][i] \in Delivery
    BY <1>0, RowTyped
  <2>2. deliveries'[n][i] = [deliveries[n][i] EXCEPT !.age = IF @ = 2 THEN 2 ELSE @ + 1]
    BY <1>2
  <2> QED
    BY <2>1, <2>2 DEF Delivery
<1>4. TypeOK'
  <2>1. \A n \in Nodes : deliveries'[n] \in Seq(Delivery) /\ Len(deliveries'[n]) = Len(deliveries[n])
    <3> SUFFICES ASSUME NEW n \in Nodes
                 PROVE  deliveries'[n] \in Seq(Delivery) /\ Len(deliveries'[n]) = Len(deliveries[n])
      OBVIOUS
    <3> DEFINE s == deliveries'[n]
               k == Len(deliveries[n])
    <3>1. k \in Nat /\ DOMAIN deliveries[n] = 1 .. k
      BY <1>0, HandTyped
    <3>2. s = [i \in 1 .. k |-> s[i]] /\ \A i \in 1 .. k : s[i] \in Delivery
      BY <1>1, <1>3, <3>1
    <3> HIDE DEF s, k
    <3>3. s \in Seq(Delivery) /\ Len(s) = k
      BY <3>1, <3>2
    <3> QED
      BY <3>3 DEF s, k
  <2>2. deliveries' \in [Nodes -> Seq(Delivery)]
    BY <1>1, <2>1
  <2>3. spent' \in [{"edits", "troubles"} -> Nat]
    BY <1>0, <1>1, TroubleTyped
  <2>4. \A n \in Nodes : {auth'[n], hand'[n].auth} \subseteq 0 .. Len(deliveries'[n])
    BY <1>0, <1>1, <2>1 DEF TypeOK
  <2> QED
    BY <1>0, <1>1, <2>2, <2>3, <2>4 DEF TypeOK
<1>5. \A n \in Nodes : RowsKept(n) /\ AcksKept(n) /\ NoNewAcks(n) /\ NewRows(n) = {}
  BY <1>2, <1>3 DEF RowsKept, AcksKept, NoNewAcks, NewRows, Acked
<1>6. GotInv'
  BY <1>1 DEF IInv, GotInv
<1> QED
  BY <1>1, <1>4, <1>5, <1>6, RowsStep

LEMMA StaleStep ==
  ASSUME IInv, NEW n \in Nodes, GoStale(n)
  PROVE  IInv'
<1> DEFINE fresh == {i \in DOMAIN deliveries[n] : deliveries[n][i].receipt = "fresh"}
           x == First(fresh)
<1>0. TypeOK
  BY DEF IInv
<1>1. /\ UNCHANGED <<base, ver, enabled, pool, lease, draft, auth, file, mem, proj, serving, hand>>
      /\ Trouble /\ fresh # {}
      /\ deliveries' = [deliveries EXCEPT ![n][x].receipt = "stale"]
  BY DEF GoStale, baseVars, poolVars, nodeVars
<1>2. x \in DOMAIN deliveries[n] /\ deliveries[n][x].receipt = "fresh"
  <2>1. fresh \subseteq Nat
    BY <1>0, HandTyped
  <2>2. x \in fresh
    BY <1>1, <2>1, FirstIn
  <2> QED
    BY <2>2
<1> HIDE DEF x
<1> DEFINE r == [deliveries[n][x] EXCEPT !.receipt = "stale"]
<1>3. /\ deliveries[n] \in Seq(Delivery) /\ deliveries[n][x] \in Delivery
      /\ Len(deliveries[n]) \in Nat /\ DOMAIN deliveries[n] = 1 .. Len(deliveries[n])
  BY <1>0, <1>2, RowTyped
<1>4. r \in Delivery /\ r.kind = deliveries[n][x].kind /\ r.pools = deliveries[n][x].pools
      /\ r.cls = deliveries[n][x].cls /\ r.rev = deliveries[n][x].rev /\ r.receipt = "stale"
  BY <1>3 DEF Delivery
<1>5. deliveries' = [deliveries EXCEPT ![n] = [deliveries[n] EXCEPT ![x] = r]]
  BY <1>1
<1> HIDE DEF r
<1>6. /\ deliveries'[n] = [deliveries[n] EXCEPT ![x] = r]
      /\ \A m \in Nodes \ {n} : deliveries'[m] = deliveries[m]
  BY <1>0, <1>5 DEF TypeOK
<1>7. /\ deliveries'[n] \in Seq(Delivery) /\ Len(deliveries'[n]) = Len(deliveries[n])
      /\ DOMAIN deliveries'[n] = DOMAIN deliveries[n] /\ deliveries'[n][x] = r
      /\ \A i \in DOMAIN deliveries[n] : i # x => deliveries'[n][i] = deliveries[n][i]
  BY <1>2, <1>3, <1>4, <1>6
<1>8. TypeOK'
  <2>1. deliveries' \in [Nodes -> Seq(Delivery)]
    BY <1>0, <1>5, <1>6, <1>7 DEF TypeOK
  <2>2. \A m \in Nodes : {auth'[m], hand'[m].auth} \subseteq 0 .. Len(deliveries'[m])
    <3>1. \A m \in Nodes : {auth[m], hand[m].auth} \subseteq 0 .. Len(deliveries[m])
      BY <1>0 DEF TypeOK
    <3> QED
      BY <1>1, <1>6, <1>7, <3>1
  <2>3. spent' \in [{"edits", "troubles"} -> Nat]
    BY <1>0, <1>1, TroubleTyped
  <2> QED
    BY <1>0, <1>1, <2>1, <2>2, <2>3 DEF TypeOK
<1>9. RowsKept(n) /\ AcksKept(n) /\ NoNewAcks(n) /\ NewRows(n) = {}
  <2>1. \A i \in DOMAIN deliveries[n] :
          /\ deliveries'[n][i].kind = deliveries[n][i].kind
          /\ deliveries'[n][i].pools = deliveries[n][i].pools
          /\ deliveries'[n][i].cls = deliveries[n][i].cls
          /\ deliveries'[n][i].rev = deliveries[n][i].rev
          /\ Acked(deliveries'[n][i]) <=> Acked(deliveries[n][i])
    BY <1>2, <1>4, <1>7 DEF Acked
  <2> QED
    BY <1>7, <2>1 DEF RowsKept, AcksKept, NoNewAcks, NewRows
<1>10. \A m \in Nodes \ {n} : RowsKept(m) /\ AcksKept(m) /\ NoNewAcks(m) /\ NewRows(m) = {}
  BY <1>6 DEF RowsKept, AcksKept, NoNewAcks, NewRows
<1>11. GotInv'
  BY <1>1 DEF IInv, GotInv
<1> QED
  BY <1>1, <1>8, <1>9, <1>10, <1>11, RowsStep

LEMMA PostStep ==
  ASSUME IInv, NEW n \in Nodes, Post(n)
  PROVE  IInv'
<1> DEFINE i == hand[n].auth
<1>0. TypeOK /\ GatewayInv(n) /\ LedgerInv /\ \A m \in Nodes : GatewayInv(m)
  BY DEF IInv
<1>1. /\ UNCHANGED <<base, ver, spent, enabled, pool, lease, draft, auth, file, mem, proj, serving>>
      /\ hand[n].stage = "acking" /\ hand' = [hand EXCEPT ![n] = Idle]
      /\ \/ deliveries' = [deliveries EXCEPT ![n][i].receipt = "fresh"]
         \/ deliveries' = deliveries
  BY DEF Post, baseVars, poolVars
<1>2. i # 0 /\ i \in DOMAIN deliveries[n] /\ auth[n] = i
  BY <1>0, <1>1, HandTyped DEF GatewayInv, LaneInv
<1>3. /\ hand'[n].stage = "idle" /\ hand'[n].auth = 0 /\ hand' \in [Nodes -> Hand]
      /\ \A m \in Nodes \ {n} : hand'[m] = hand[m]
  BY <1>0, <1>1, IdleFacts
<1> DEFINE r == [deliveries[n][i] EXCEPT !.receipt = "fresh"]
<1>4. /\ deliveries[n] \in Seq(Delivery) /\ deliveries[n][i] \in Delivery
      /\ Len(deliveries[n]) \in Nat /\ DOMAIN deliveries[n] = 1 .. Len(deliveries[n])
  BY <1>0, <1>2, RowTyped
<1> HIDE DEF i
<1>5. r \in Delivery /\ r.kind = deliveries[n][i].kind /\ r.pools = deliveries[n][i].pools
      /\ r.cls = deliveries[n][i].cls /\ r.rev = deliveries[n][i].rev /\ r.receipt = "fresh"
  BY <1>4 DEF Delivery
<1>6. deliveries' = [deliveries EXCEPT ![n] = [deliveries[n] EXCEPT ![i] = r]] \/ deliveries' = deliveries
  BY <1>1
<1> HIDE DEF r
<1>7. /\ deliveries'[n] = [deliveries[n] EXCEPT ![i] = r] \/ deliveries'[n] = deliveries[n]
      /\ \A m \in Nodes \ {n} : deliveries'[m] = deliveries[m]
  BY <1>0, <1>6 DEF TypeOK
<1>8. /\ deliveries'[n] \in Seq(Delivery) /\ Len(deliveries'[n]) = Len(deliveries[n])
      /\ DOMAIN deliveries'[n] = DOMAIN deliveries[n] /\ deliveries'[n][i] \in {r, deliveries[n][i]}
      /\ \A j \in DOMAIN deliveries[n] : j # i => deliveries'[n][j] = deliveries[n][j]
  <2>1. CASE deliveries'[n] = [deliveries[n] EXCEPT ![i] = r]
    BY <1>2, <1>4, <1>5, <2>1
  <2>2. CASE deliveries'[n] = deliveries[n]
    BY <1>4, <2>2
  <2> QED
    BY <1>7, <2>1, <2>2
<1>9. TypeOK'
  <2>1. deliveries' \in [Nodes -> Seq(Delivery)]
    BY <1>0, <1>6, <1>7, <1>8 DEF TypeOK
  <2>2. \A m \in Nodes : {auth'[m], hand'[m].auth} \subseteq 0 .. Len(deliveries'[m])
    <3>1. \A m \in Nodes : {auth[m], hand[m].auth} \subseteq 0 .. Len(deliveries[m])
      BY <1>0 DEF TypeOK
    <3> QED
      BY <1>1, <1>3, <1>4, <1>7, <1>8, <3>1
  <2> QED
    BY <1>0, <1>1, <1>3, <2>1, <2>2 DEF TypeOK
<1>10. \A j \in DOMAIN deliveries[n] :
         /\ deliveries'[n][j].kind = deliveries[n][j].kind
         /\ deliveries'[n][j].pools = deliveries[n][j].pools
         /\ deliveries'[n][j].cls = deliveries[n][j].cls
         /\ deliveries'[n][j].rev = deliveries[n][j].rev
         /\ Acked(deliveries[n][j]) => Acked(deliveries'[n][j])
         /\ Acked(deliveries'[n][j]) => Acked(deliveries[n][j]) \/ j = i
  BY <1>2, <1>5, <1>8 DEF Acked
<1>11. RowsKept(n) /\ AcksKept(n) /\ NewRows(n) = {} /\ Attested(n)' \subseteq Attested(n)
  <2>1. RowsKept(n) /\ AcksKept(n) /\ NewRows(n) = {}
    BY <1>8, <1>10 DEF RowsKept, AcksKept, NewRows
  <2>2. Attested(n)' \subseteq Attested(n)
    BY <1>1, <1>3, <1>8, <1>10 DEF Attested, i
  <2> QED
    BY <2>1, <2>2
<1>12. \A m \in Nodes \ {n} : RowsKept(m) /\ AcksKept(m) /\ NoNewAcks(m) /\ NewRows(m) = {}
  BY <1>7 DEF RowsKept, AcksKept, NoNewAcks, NewRows
<1>13. LedgerInv'
  BY <1>0, <1>1, <1>9, <1>11, <1>12, LedgerStep
<1>14. \A m \in Nodes \ {n} : GatewayInv(m)'
  BY <1>0, <1>1, <1>3, <1>9, <1>12, GatewayRows
<1>15. KeepInv(n)' /\ FileInv(n)'
  BY <1>0, <1>1, <1>9, <1>11, KeepFrame
<1>16. LaneInv(n)'
  <2>1. /\ proj[n] # None => mem[n] # None
        /\ \A k \in DOMAIN deliveries[n] : Acked(deliveries[n][k]) => k <= auth[n]
    BY <1>0 DEF GatewayInv, LaneInv
  <2>2. i \in Nat
    BY <1>2, <1>4
  <2>3. \A k \in DOMAIN deliveries'[n] : Acked(deliveries'[n][k]) => k <= auth[n]
    BY <1>2, <1>8, <1>10, <2>1, <2>2
  <2> QED
    BY <1>1, <1>3, <2>1, <2>3 DEF LaneInv
<1>17. PassInv(n)' /\ BoundInv(n)'
  BY <1>0, <1>1, <1>3 DEF GatewayInv, PassInv, BoundInv
<1>18. GotInv'
  BY <1>1 DEF IInv, GotInv
<1> QED
  BY <1>9, <1>13, <1>14, <1>15, <1>16, <1>17, <1>18 DEF IInv, GatewayInv

-----------------------------------------------------------------------------
(* The steps of the leader that add rows.                                  *)

\* An issued authority is a row without receipt.
LEMMA IssuedTyped ==
  ASSUME NEW kind \in {"arm", "maintain", "unfence", "ordinary"}, NEW P \in SUBSET Pools,
         NEW cls \in [Pools -> SUBSET Services], NEW r \in Nat, NEW s \in Stored
  PROVE  /\ Issued(kind, P, cls, r, s) \in Delivery /\ ~Acked(Issued(kind, P, cls, r, s))
         /\ Issued(kind, P, cls, r, s).kind = kind /\ Issued(kind, P, cls, r, s).pools = P
         /\ Issued(kind, P, cls, r, s).rev = r
<1>1. [p \in Pools |-> IF p \in P THEN cls[p] ELSE {}] \in [Pools -> SUBSET Services]
  OBVIOUS
<1>2. s.ver \in Nat /\ s.content \in Content
  BY DEF Stored
<1>3. Issued(kind, P, cls, r, s) \in Delivery
  BY <1>1, <1>2 DEF Issued, Delivery
<1> QED
  BY <1>3 DEF Issued, Acked

\* Each ledger stays or gets one row, of what the leader issues to that node.
LEMMA AddStep ==
  ASSUME IInv, NEW e,
         UNCHANGED <<base, ver, spent, enabled, pool, auth, file, mem, proj, serving, hand>>,
         draft' \in Draft, GotInv', lease' \in [Pools -> LeaseRow],
         deliveries' = [n \in Nodes |-> deliveries'[n]],
         \A n \in Nodes :
           \/ deliveries'[n] = deliveries[n]
           \/ deliveries'[n] = Append(deliveries[n], e[n]) /\ e[n] \in Delivery /\ ~Acked(e[n]),
         draft'.what = "drain" =>
           /\ draft.what = "drain" /\ draft'.pools = draft.pools /\ draft'.rev = draft.rev
           /\ draft'.stage = draft.stage,
         \A n \in Nodes : deliveries'[n] # deliveries[n] =>
           /\ \A p \in Pools : Arms(e[n], p) => draft'.what # "drain" /\ e[n].rev = pool[p].rev
           /\ \A p \in Pools : Unfences(e[n], p) =>
                /\ pool[p].act # "fenced_ha"
                /\ pool[p].act = "bootstrap_pending" => \A j \in DOMAIN deliveries[n] :
                     Arms(deliveries[n][j], p) => deliveries[n][j].rev < pool[p].rev
                /\ Barrier(p, e[n].rev - 1)
  PROVE  IInv'
<1>0. TypeOK
  BY DEF IInv
<1>1. ASSUME NEW n \in Nodes
      PROVE  /\ deliveries'[n] \in Seq(Delivery) /\ Len(deliveries[n]) \in Nat
             /\ DOMAIN deliveries[n] = 1 .. Len(deliveries[n])
             /\ Len(deliveries'[n]) \in Nat /\ Len(deliveries[n]) <= Len(deliveries'[n])
             /\ DOMAIN deliveries'[n] = 1 .. Len(deliveries'[n])
             /\ \A i \in DOMAIN deliveries[n] :
                  i \in DOMAIN deliveries'[n] /\ deliveries'[n][i] = deliveries[n][i]
             /\ \A i \in NewRows(n) :
                  /\ deliveries'[n] # deliveries[n] /\ i = Len(deliveries'[n])
                  /\ deliveries'[n][i] = e[n] /\ e[n] \in Delivery /\ ~Acked(e[n])
  <2>1. deliveries[n] \in Seq(Delivery) /\ Len(deliveries[n]) \in Nat
        /\ DOMAIN deliveries[n] = 1 .. Len(deliveries[n])
    BY <1>0, HandTyped
  <2>2. CASE deliveries'[n] = deliveries[n]
    BY <2>1, <2>2 DEF NewRows
  <2>3. CASE deliveries'[n] = Append(deliveries[n], e[n]) /\ e[n] \in Delivery /\ ~Acked(e[n])
    <3> DEFINE q == deliveries[n]
               t == deliveries'[n]
               x == e[n]
    <3>1. q \in Seq(Delivery) /\ x \in Delivery /\ t = Append(q, x) /\ Len(q) \in Nat
      BY <2>1, <2>3
    <3> HIDE DEF q, t, x
    <3>2. /\ t \in Seq(Delivery) /\ Len(t) = Len(q) + 1 /\ DOMAIN t = 1 .. Len(q) + 1
          /\ \A i \in 1 .. Len(q) : t[i] = q[i]
          /\ t[Len(q) + 1] = x
      BY <3>1
    <3>3. t # q
      BY <3>1, <3>2
    <3>4. \A i \in DOMAIN t \ DOMAIN q : i = Len(t)
      BY <2>1, <3>1, <3>2 DEF q
    <3> QED
      BY <2>1, <2>3, <3>1, <3>2, <3>3, <3>4 DEF q, t, x, NewRows
  <2> QED
    BY <2>2, <2>3
<1>2. TypeOK'
  <2>1. deliveries' \in [Nodes -> Seq(Delivery)]
    BY <1>1
  <2>2. \A n \in Nodes : {auth'[n], hand'[n].auth} \subseteq 0 .. Len(deliveries'[n])
    <3> SUFFICES ASSUME NEW n \in Nodes
                 PROVE  {auth[n], hand[n].auth} \subseteq 0 .. Len(deliveries'[n])
      OBVIOUS
    <3>1. {auth[n], hand[n].auth} \subseteq 0 .. Len(deliveries[n])
      BY <1>0 DEF TypeOK
    <3>2. Len(deliveries[n]) \in Nat /\ Len(deliveries'[n]) \in Nat /\ Len(deliveries[n]) <= Len(deliveries'[n])
      BY <1>1
    <3> QED
      BY <3>1, <3>2
  <2> QED
    BY <1>0, <2>1, <2>2 DEF TypeOK
<1>3. \A n \in Nodes : RowsKept(n) /\ AcksKept(n) /\ NoNewAcks(n)
  <2> SUFFICES ASSUME NEW n \in Nodes PROVE RowsKept(n) /\ AcksKept(n) /\ NoNewAcks(n)
    OBVIOUS
  <2>1. RowsKept(n) /\ AcksKept(n)
    BY <1>1 DEF RowsKept, AcksKept
  <2>2. NoNewAcks(n)
    <3> SUFFICES ASSUME NEW i \in DOMAIN deliveries'[n], Acked(deliveries'[n][i])
                 PROVE  i \in DOMAIN deliveries[n] /\ Acked(deliveries[n][i])
      BY DEF NoNewAcks
    <3>1. i \notin NewRows(n)
      BY <1>1
    <3>2. i \in DOMAIN deliveries[n]
      BY <3>1 DEF NewRows
    <3> QED
      BY <1>1, <3>2
  <2> QED
    BY <2>1, <2>2
<1>4. ASSUME NEW n \in Nodes, NEW i \in NewRows(n)
      PROVE  /\ \A j \in DOMAIN deliveries'[n] : ~(j > i)
             /\ \A p \in Pools : Arms(deliveries'[n][i], p) =>
                  draft'.what # "drain" /\ deliveries'[n][i].rev = pool[p].rev
             /\ deliveries'[n][i].pools \subseteq Pools
             /\ \A p \in Pools : Unfences(deliveries'[n][i], p) =>
                  /\ pool[p].act # "fenced_ha"
                  /\ pool[p].act = "bootstrap_pending" => \A j \in DOMAIN deliveries[n] :
                       Arms(deliveries[n][j], p) => deliveries[n][j].rev < pool[p].rev
                  /\ Barrier(p, deliveries'[n][i].rev - 1)
  <2>1. /\ deliveries'[n] # deliveries[n] /\ i = Len(deliveries'[n])
        /\ deliveries'[n][i] = e[n] /\ e[n] \in Delivery
    BY <1>1, <1>4
  <2>2. \A j \in DOMAIN deliveries'[n] : ~(j > i)
    BY <1>1, <2>1
  <2>3. e[n].pools \subseteq Pools
    BY <2>1 DEF Delivery
  <2> QED
    BY <2>1, <2>2, <2>3
<1> QED
  BY <1>2, <1>3, <1>4, RowsStep

LEMMA TransitionCases ==
  ASSUME NEW n \in Nodes, NEW p \in Pools, NEW e, NEW ages, NEW l \in Transition(n, p, e, ages)
  PROVE  l = deliveries[n] \/ l = Append(deliveries[n], e)
  BY DEF Transition

LEMMA OrdinaryCases ==
  ASSUME NEW n \in Nodes, NEW e, NEW l \in Ordinary(n, e)
  PROVE  l = deliveries[n] \/ l = Append(deliveries[n], e)
  BY DEF Ordinary

LEMMA ArmIssueStep ==
  ASSUME IInv, NEW p \in Pools, ArmIssue(p)
  PROVE  IInv'
<1> DEFINE e == [n \in Nodes |-> Issued("arm", {p}, draft.cls, draft.rev, draft.got[n])]
           ledgers == [n \in Nodes |->
             Transition(n, p, Issued("arm", {p}, draft.cls, draft.rev, draft.got[n]), 0 .. 1)]
<1>0. TypeOK
  BY DEF IInv
<1>1. /\ UNCHANGED <<base, ver, spent, enabled, pool, lease, auth, file, mem, proj, serving, hand>>
      /\ draft.what = "arm" /\ Unread = {} /\ pool[p].rev = draft.rev
      /\ \A n \in Nodes : ledgers[n] # {}
      /\ deliveries' = [n \in Nodes |-> CHOOSE l \in ledgers[n] : TRUE]
      /\ draft' = [draft EXCEPT !.stage = "issued"]
  BY DEF ArmIssue, ArmCurrent, baseVars, poolVars, nodeVars
<1>2. draft' \in Draft /\ draft'.what = "arm"
  BY <1>0, <1>1 DEF TypeOK, Draft
<1>3. ASSUME NEW n \in Nodes
      PROVE  /\ e[n] \in Delivery /\ ~Acked(e[n]) /\ e[n].kind = "arm" /\ e[n].pools = {p}
             /\ e[n].rev = draft.rev
  <2>1. draft.got[n] \in Stored
    BY <1>0, <1>1, DraftTyped DEF Unread
  <2>2. draft.cls \in [Pools -> SUBSET Services] /\ draft.rev \in Nat /\ {p} \in SUBSET Pools
    BY <1>0, DraftTyped
  <2>3. e[n] = Issued("arm", {p}, draft.cls, draft.rev, draft.got[n])
    OBVIOUS
  <2> HIDE DEF e
  <2> QED
    BY <2>1, <2>2, <2>3, IssuedTyped
<1>4. ASSUME NEW n \in Nodes
      PROVE  deliveries'[n] = deliveries[n] \/ deliveries'[n] = Append(deliveries[n], e[n])
  <2>1. deliveries'[n] \in ledgers[n]
    BY <1>1
  <2>2. deliveries'[n] \in
          Transition(n, p, Issued("arm", {p}, draft.cls, draft.rev, draft.got[n]), 0 .. 1)
    BY <2>1
  <2> QED
    BY <2>2, TransitionCases
<1>5. deliveries' = [n \in Nodes |-> deliveries'[n]]
  <2>1. deliveries' = [n \in Nodes |-> CHOOSE l \in ledgers[n] : TRUE]
    BY <1>1
  <2> HIDE DEF ledgers, e
  <2> QED
    BY <2>1
<1> HIDE DEF e
<1>6. GotInv'
  BY <1>2 DEF GotInv
<1>7. \A n \in Nodes :
        /\ \A q \in Pools : Arms(e[n], q) => draft'.what # "drain" /\ e[n].rev = pool[q].rev
        /\ \A q \in Pools : ~Unfences(e[n], q)
  BY <1>1, <1>2, <1>3 DEF Arms, Unfences
<1>8. \A n \in Nodes :
        \/ deliveries'[n] = deliveries[n]
        \/ deliveries'[n] = Append(deliveries[n], e[n]) /\ e[n] \in Delivery /\ ~Acked(e[n])
  BY <1>3, <1>4
<1>9. lease' \in [Pools -> LeaseRow]
  BY <1>0, <1>1 DEF TypeOK
<1> QED
  BY <1>1, <1>2, <1>5, <1>6, <1>7, <1>8, <1>9, AddStep

LEMMA MaintainIssueStep ==
  ASSUME IInv, MaintainIssue
  PROVE  IInv'
<1> DEFINE e == [n \in Nodes |-> Issued("ordinary", draft.pools, draft.cls, 0, draft.got[n])]
           ledgers == [n \in Nodes |->
             Ordinary(n, Issued("ordinary", draft.pools, draft.cls, 0, draft.got[n]))]
<1>0. TypeOK
  BY DEF IInv
<1>1. /\ UNCHANGED <<base, ver, spent, enabled, pool, auth, file, mem, proj, serving, hand>>
      /\ Unread = {}
      /\ \A n \in Nodes : ledgers[n] # {}
      /\ deliveries' = [n \in Nodes |-> CHOOSE l \in ledgers[n] : TRUE]
      /\ draft' = NoDraft
  BY DEF MaintainIssue, baseVars, nodeVars
<1>2. draft' \in Draft /\ draft'.what = "none"
  BY <1>1, EmptyTyped DEF NoDraft
<1>3. ASSUME NEW n \in Nodes
      PROVE  e[n] \in Delivery /\ ~Acked(e[n]) /\ e[n].kind = "ordinary"
  <2>1. draft.got[n] \in Stored
    BY <1>0, <1>1, DraftTyped DEF Unread
  <2>2. draft.cls \in [Pools -> SUBSET Services] /\ draft.pools \in SUBSET Pools
    BY <1>0, DraftTyped
  <2>3. e[n] = Issued("ordinary", draft.pools, draft.cls, 0, draft.got[n])
    OBVIOUS
  <2> HIDE DEF e
  <2> QED
    BY <2>1, <2>2, <2>3, IssuedTyped
<1>4. ASSUME NEW n \in Nodes
      PROVE  deliveries'[n] = deliveries[n] \/ deliveries'[n] = Append(deliveries[n], e[n])
  <2>1. deliveries'[n] \in ledgers[n]
    BY <1>1
  <2>2. deliveries'[n] \in
          Ordinary(n, Issued("ordinary", draft.pools, draft.cls, 0, draft.got[n]))
    BY <2>1
  <2> QED
    BY <2>2, OrdinaryCases
<1>5. deliveries' = [n \in Nodes |-> deliveries'[n]]
  BY <1>1
<1>6. lease' \in [Pools -> LeaseRow]
  <2>1. \A p \in Pools : Leased(p, draft.cls[p]) \in LeaseRow /\ lease[p] \in LeaseRow
    <3>1. \A p \in Pools : draft.cls[p] \in SUBSET Services /\ lease[p] \in LeaseRow
      BY <1>0, DraftTyped DEF TypeOK
    <3> QED
      BY <3>1 DEF Leased, LeaseRow
  <2>2. PICK C : lease' = [p \in Pools |->
                   IF p \in draft.pools /\ C THEN Leased(p, draft.cls[p]) ELSE lease[p]]
    BY DEF MaintainIssue
  <2> QED
    BY <2>1, <2>2
<1> HIDE DEF e
<1>7. GotInv'
  BY <1>2 DEF GotInv
<1>8. \A n \in Nodes : \A p \in Pools : ~Arms(e[n], p) /\ ~Unfences(e[n], p)
  BY <1>3 DEF Arms, Unfences
<1>9. \A n \in Nodes :
        \/ deliveries'[n] = deliveries[n]
        \/ deliveries'[n] = Append(deliveries[n], e[n]) /\ e[n] \in Delivery /\ ~Acked(e[n])
  BY <1>3, <1>4
<1> QED
  BY <1>1, <1>2, <1>5, <1>6, <1>7, <1>8, <1>9, AddStep

\* The node a drain works on.
LEMMA UndoneFirst == ASSUME TypeOK, Undone # {} PROVE First(Undone) \in Nodes
<1>1. Undone \subseteq Nat
  BY AuthorityAssumption DEF Undone
<1>2. First(Undone) \in Undone
  BY <1>1, FirstIn
<1> QED
  BY <1>2 DEF Undone

LEMMA DrainIssueStep ==
  ASSUME IInv, NEW p \in Pools, DrainIssue(p)
  PROVE  IInv'
<1> DEFINE n == First(Undone)
           x == Issued("maintain", {p}, draft.cls, draft.rev, draft.got[n])
           e == [m \in Nodes |-> x]
<1>0. TypeOK
  BY DEF IInv
<1>1. /\ UNCHANGED <<base, ver, spent, enabled, pool, lease, auth, file, mem, proj, serving, hand>>
      /\ draft.what = "drain" /\ draft.stage = "planned" /\ Undone # {} /\ draft.got[n] # None
      /\ draft' = [draft EXCEPT !.done = @ \cup {n}]
  BY DEF DrainIssue, baseVars, poolVars, nodeVars
<1>2. PICK l \in Transition(n, p, x, {0}) : deliveries' = [deliveries EXCEPT ![n] = l]
  BY DEF DrainIssue
<1>3. n \in Nodes
  BY <1>0, <1>1, UndoneFirst
<1> HIDE DEF n
<1>4. /\ draft' \in Draft /\ draft'.what = "drain" /\ draft'.pools = draft.pools
      /\ draft'.rev = draft.rev /\ draft'.stage = draft.stage /\ draft'.got = draft.got
      /\ draft'.done = draft.done \cup {n}
  BY <1>0, <1>1, <1>3 DEF TypeOK, Draft
<1>5. x \in Delivery /\ ~Acked(x) /\ x.kind = "maintain"
  <2>1. draft.got[n] \in Stored
    BY <1>0, <1>1, <1>3, DraftTyped
  <2>2. draft.cls \in [Pools -> SUBSET Services] /\ draft.rev \in Nat /\ {p} \in SUBSET Pools
    BY <1>0, DraftTyped
  <2> QED
    BY <2>1, <2>2, IssuedTyped
<1>6. l = deliveries[n] \/ l = Append(deliveries[n], x)
  <2> HIDE DEF x
  <2> QED
    BY <1>2, <1>3, TransitionCases
<1>7. \A m \in Nodes : e[m] = x
  OBVIOUS
<1> HIDE DEF x, e
<1>8. /\ deliveries' = [m \in Nodes |-> deliveries'[m]] /\ deliveries'[n] = l
      /\ \A m \in Nodes \ {n} : deliveries'[m] = deliveries[m]
  BY <1>0, <1>2, <1>3 DEF TypeOK
<1>9. GotInv'
  BY <1>1, <1>4 DEF IInv, GotInv
<1>10. \A m \in Nodes :
         \/ deliveries'[m] = deliveries[m]
         \/ deliveries'[m] = Append(deliveries[m], e[m]) /\ e[m] \in Delivery /\ ~Acked(e[m])
  BY <1>5, <1>6, <1>7, <1>8
<1>11. \A m \in Nodes : \A q \in Pools : ~Arms(e[m], q) /\ ~Unfences(e[m], q)
  BY <1>5, <1>7 DEF Arms, Unfences
<1>12. lease' \in [Pools -> LeaseRow]
  BY <1>0, <1>1 DEF TypeOK
<1> QED
  BY <1>1, <1>4, <1>8, <1>9, <1>10, <1>11, <1>12, AddStep

\* A release is of a pool of the drain, after its barrier.
LEMMA DrainUnfenceStep ==
  ASSUME IInv, NEW p \in Pools, DrainUnfence(p)
  PROVE  IInv'
<1> DEFINE n == First(Undone)
           x == Issued("unfence", {p}, NoCls, draft.rev + 1, draft.got[n])
           e == [m \in Nodes |-> x]
<1>0. TypeOK
  BY DEF IInv
<1>1. /\ UNCHANGED <<base, ver, spent, enabled, pool, lease, auth, file, mem, proj, serving, hand>>
      /\ draft.what = "drain" /\ draft.pools = {p} /\ draft.stage = "issued" /\ Undone # {}
      /\ draft' = [draft EXCEPT !.done = @ \cup {n}]
  BY DEF DrainUnfence, baseVars, poolVars, nodeVars
<1>2. PICK l \in Transition(n, p, x, {0}) : deliveries' = [deliveries EXCEPT ![n] = l]
  BY DEF DrainUnfence
<1>3. n \in Nodes
  BY <1>0, <1>1, UndoneFirst
<1> HIDE DEF n
<1>4. /\ draft' \in Draft /\ draft'.what = "drain" /\ draft'.pools = draft.pools
      /\ draft'.rev = draft.rev /\ draft'.stage = draft.stage /\ draft'.got = draft.got
      /\ draft'.done = draft.done \cup {n}
  BY <1>0, <1>1, <1>3 DEF TypeOK, Draft
<1>5. x \in Delivery /\ ~Acked(x) /\ x.kind = "unfence" /\ x.pools = {p} /\ x.rev = draft.rev + 1
  <2>1. draft.got[n] # None
    BY <1>1, <1>3 DEF IInv, GotInv
  <2>2. draft.got[n] \in Stored
    BY <1>0, <1>3, <2>1, DraftTyped
  <2>3. draft.rev + 1 \in Nat /\ {p} \in SUBSET Pools /\ NoCls \in [Pools -> SUBSET Services]
    BY <1>0, DraftTyped, EmptyTyped
  <2> QED
    BY <2>2, <2>3, IssuedTyped
<1>6. l = deliveries[n] \/ l = Append(deliveries[n], x)
  <2> HIDE DEF x
  <2> QED
    BY <1>2, <1>3, TransitionCases
<1>7. \A m \in Nodes : e[m] = x
  OBVIOUS
<1> HIDE DEF x, e
<1>8. /\ deliveries' = [m \in Nodes |-> deliveries'[m]] /\ deliveries'[n] = l
      /\ \A m \in Nodes \ {n} : deliveries'[m] = deliveries[m]
  BY <1>0, <1>2, <1>3 DEF TypeOK
<1>9. GotInv'
  BY <1>1, <1>4 DEF IInv, GotInv
<1>10. \A m \in Nodes :
         \/ deliveries'[m] = deliveries[m]
         \/ deliveries'[m] = Append(deliveries[m], e[m]) /\ e[m] \in Delivery /\ ~Acked(e[m])
  BY <1>5, <1>6, <1>7, <1>8
<1>11. /\ pool[p].act # "fenced_ha"
       /\ pool[p].act = "bootstrap_pending" =>
            \A m \in Nodes : \A i \in DOMAIN deliveries[m] :
              Arms(deliveries[m][i], p) => deliveries[m][i].rev < pool[p].rev
       /\ Barrier(p, draft.rev)
  BY <1>1 DEF IInv, LedgerInv, DrainInv
<1>12. x.rev - 1 = draft.rev
  BY <1>0, <1>5, DraftTyped
<1>13. ASSUME NEW m \in Nodes, NEW q \in Pools
       PROVE  /\ ~Arms(e[m], q)
              /\ Unfences(e[m], q) =>
                   /\ pool[q].act # "fenced_ha"
                   /\ pool[q].act = "bootstrap_pending" => \A j \in DOMAIN deliveries[m] :
                        Arms(deliveries[m][j], q) => deliveries[m][j].rev < pool[q].rev
                   /\ Barrier(q, e[m].rev - 1)
  <2>1. ~Arms(e[m], q)
    BY <1>5, <1>7 DEF Arms
  <2>2. ASSUME Unfences(e[m], q) PROVE q = p
    BY <1>5, <1>7, <2>2 DEF Unfences
  <2>3. Barrier(p, e[m].rev - 1)
    BY <1>7, <1>11, <1>12
  <2> QED
    BY <1>11, <2>1, <2>2, <2>3
<1>14. lease' \in [Pools -> LeaseRow]
  BY <1>0, <1>1 DEF TypeOK
<1> QED
  BY <1>1, <1>4, <1>8, <1>9, <1>10, <1>13, <1>14, AddStep

-----------------------------------------------------------------------------
(* The steps that touch neither ledger nor gateway.                        *)

LEMMA QuietStep ==
  ASSUME IInv, UNCHANGED <<deliveries, auth, file, mem, proj, serving, hand>>,
         base' \in Content, ver' \in 1 .. MaxVer, spent' \in [{"edits", "troubles"} -> Nat],
         enabled' \in BOOLEAN, pool' \in [Pools -> PoolRow], lease' \in [Pools -> LeaseRow],
         draft' \in Draft, DrainInv', ArmInv', FencedInv', GotInv'
  PROVE  IInv'
<1>0. TypeOK /\ LedgerInv /\ \A n \in Nodes : GatewayInv(n)
  BY DEF IInv
<1>1. TypeOK'
  BY <1>0 DEF TypeOK
<1>2. \A n \in Nodes : GatewayInv(n)'
  BY <1>0, <1>1, GatewayFrame
<1>3. ReleaseAfterBarrier'
  BY <1>0 DEF LedgerInv, ReleaseAfterBarrier, AtRevision
<1> QED
  BY <1>1, <1>2, <1>3 DEF IInv, LedgerInv

\* The revision of a pool only rises, and only with it does its mode change, to
\* anything but fenced_ha.
LEMMA PoolStep ==
  ASSUME IInv, UNCHANGED deliveries, pool' \in [Pools -> PoolRow],
         \A p \in Pools :
           \/ pool'[p] = pool[p]
           \/ /\ pool'[p].rev > pool[p].rev
              /\ pool'[p].act = "fenced_ha" => pool[p].act = "fenced_ha"
  PROVE  ArmInv' /\ FencedInv' /\ (draft' = draft => DrainInv')
<1>0. TypeOK /\ ArmInv /\ FencedInv /\ DrainInv
  BY DEF IInv, LedgerInv
<1>1. ASSUME NEW n \in Nodes, NEW p \in Pools, NEW i \in DOMAIN deliveries[n],
             Arms(deliveries[n][i], p), pool'[p] # pool[p]
      PROVE  deliveries[n][i].rev < pool'[p].rev
  <2>1. deliveries[n][i].rev <= pool[p].rev
    BY <1>0, <1>1 DEF ArmInv
  <2>2. deliveries[n][i].rev \in Nat /\ pool[p].rev \in Nat
    BY <1>0, RowTyped, PoolTyped
  <2>3. pool'[p] \in PoolRow
    OBVIOUS
  <2>4. pool'[p].rev \in Nat /\ pool'[p].rev > pool[p].rev
    BY <1>1, <2>3 DEF PoolRow
  <2> QED
    BY <2>1, <2>2, <2>4
<1>2. ArmInv'
  <2> SUFFICES ASSUME NEW n \in Nodes, NEW p \in Pools, NEW i \in DOMAIN deliveries[n],
                      Arms(deliveries[n][i], p)
               PROVE  /\ deliveries[n][i].rev <= pool'[p].rev
                      /\ deliveries[n][i].rev = pool'[p].rev /\ pool'[p].act = "bootstrap_pending"
                           => Firm(n, i, p)
    BY DEF ArmInv, Firm
  <2>1. CASE pool'[p] = pool[p]
    BY <1>0, <2>1 DEF ArmInv
  <2>2. CASE pool'[p] # pool[p]
    <3>1. deliveries[n][i].rev < pool'[p].rev
      BY <1>1, <2>2
    <3>2. deliveries[n][i].rev \in Nat /\ pool'[p] \in PoolRow
      BY <1>0, RowTyped
    <3>3. pool'[p].rev \in Nat
      BY <3>2 DEF PoolRow
    <3> QED
      BY <3>1, <3>2, <3>3
  <2> QED
    BY <2>1, <2>2
<1>3. FencedInv'
  <2> SUFFICES ASSUME NEW p \in Pools, pool'[p].act = "fenced_ha", NEW n \in Nodes
               PROVE  \E k \in DOMAIN deliveries[n] :
                        /\ Acked(deliveries[n][k]) /\ Classifies(deliveries[n][k], p)
                        /\ Firm(n, k, p)
    BY DEF FencedInv, Firm
  <2>1. pool[p].act = "fenced_ha"
    OBVIOUS
  <2> QED
    BY <1>0, <2>1 DEF FencedInv
<1>4. ASSUME draft' = draft PROVE DrainInv'
  <2> SUFFICES ASSUME draft.what = "drain", NEW p \in draft.pools
               PROVE  /\ pool'[p].act # "fenced_ha"
                      /\ pool'[p].act = "bootstrap_pending" =>
                           \A n \in Nodes : \A i \in DOMAIN deliveries[n] :
                             Arms(deliveries[n][i], p) => deliveries[n][i].rev < pool'[p].rev
                      /\ draft.stage = "issued" => Barrier(p, draft.rev)
    BY <1>4 DEF DrainInv, Barrier, AtRevision
  <2>0. p \in Pools
    BY <1>0, DraftTyped
  <2>1. /\ pool[p].act # "fenced_ha"
        /\ pool[p].act = "bootstrap_pending" =>
             \A n \in Nodes : \A i \in DOMAIN deliveries[n] :
               Arms(deliveries[n][i], p) => deliveries[n][i].rev < pool[p].rev
        /\ draft.stage = "issued" => Barrier(p, draft.rev)
    BY <1>0 DEF DrainInv
  <2>2. pool'[p].act # "fenced_ha"
    BY <2>0, <2>1
  <2>3. CASE pool'[p] = pool[p]
    BY <2>1, <2>3
  <2>4. CASE pool'[p] # pool[p]
    BY <1>1, <2>0, <2>1, <2>2, <2>4
  <2> QED
    BY <2>3, <2>4
<1> QED
  BY <1>2, <1>3, <1>4

\* The leader moves from one transaction to the next.
LEMMA DraftStep ==
  ASSUME IInv, lease' \in [Pools -> LeaseRow], draft' \in Draft, GotInv',
         UNCHANGED <<base, ver, spent, enabled, pool, deliveries, auth, file, mem, proj, serving, hand>>,
         draft'.what = "drain" =>
           /\ draft.what = "drain" /\ draft'.pools = draft.pools /\ draft'.rev = draft.rev
           /\ draft'.stage = "issued" => \A p \in draft.pools : Barrier(p, draft.rev)
  PROVE  IInv'
<1>0. TypeOK /\ DrainInv /\ ArmInv /\ FencedInv
  BY DEF IInv, LedgerInv
<1>1. ArmInv' /\ FencedInv'
  BY <1>0 DEF ArmInv, FencedInv, Firm
<1>2. DrainInv'
  <2> SUFFICES ASSUME draft'.what = "drain", NEW p \in draft.pools
               PROVE  /\ pool[p].act # "fenced_ha"
                      /\ pool[p].act = "bootstrap_pending" =>
                           \A n \in Nodes : \A i \in DOMAIN deliveries[n] :
                             Arms(deliveries[n][i], p) => deliveries[n][i].rev < pool[p].rev
                      /\ draft'.stage = "issued" => Barrier(p, draft.rev)
    BY DEF DrainInv, Barrier, AtRevision
  <2> QED
    BY <1>0 DEF DrainInv
<1>3. /\ base' \in Content /\ ver' \in 1 .. MaxVer /\ spent' \in [{"edits", "troubles"} -> Nat]
      /\ enabled' \in BOOLEAN /\ pool' \in [Pools -> PoolRow]
  BY <1>0 DEF TypeOK
<1> QED
  BY <1>1, <1>2, <1>3, QuietStep

LEMMA AbandonStep == ASSUME IInv, Abandon PROVE IInv'
<1>1. /\ UNCHANGED <<base, ver, spent, enabled, pool, lease, deliveries>>
      /\ UNCHANGED <<auth, file, mem, proj, serving, hand>> /\ draft' = NoDraft
  BY DEF Abandon, baseVars, poolVars, nodeVars
<1>2. draft' \in Draft /\ draft'.what = "none"
  BY <1>1, EmptyTyped DEF NoDraft
<1>3. GotInv'
  BY <1>2 DEF GotInv
<1>4. lease' \in [Pools -> LeaseRow]
  BY <1>1 DEF IInv, TypeOK
<1> QED
  BY <1>1, <1>2, <1>3, <1>4, DraftStep

\* A plan starts at its first stage with no base read.
LEMMA PlanTyped ==
  ASSUME NEW what \in {"arm", "maintain", "drain"}, NEW P \in SUBSET Pools, NEW r \in Nat,
         NEW cls \in [Pools -> SUBSET Services], Plan(what, P, r, cls)
  PROVE  /\ draft' \in Draft /\ draft'.what = what /\ draft'.pools = P /\ draft'.rev = r
         /\ draft'.stage = "planned" /\ draft'.done = {} /\ GotInv'
<1>1. /\ draft' = [NoDraft EXCEPT !.what = what, !.pools = P, !.rev = r, !.cls = cls]
      /\ NoDraft \in Draft /\ NoDraft.stage = "planned" /\ NoDraft.done = {}
  BY EmptyTyped DEF Plan, NoDraft
<1>2. /\ draft' \in Draft /\ draft'.what = what /\ draft'.pools = P /\ draft'.rev = r
      /\ draft'.stage = "planned" /\ draft'.done = {}
  BY <1>1 DEF Draft
<1>3. GotInv'
  BY <1>2 DEF GotInv
<1> QED
  BY <1>2, <1>3

LEMMA MaintainPlanStep == ASSUME IInv, MaintainPlan PROVE IInv'
<1> DEFINE P == {p \in Pools : Fenced(p) /\ base.fields[p] # {}}
<1>0. TypeOK
  BY DEF IInv
<1>1. /\ UNCHANGED <<base, ver, spent, enabled, pool, lease, deliveries>>
      /\ UNCHANGED <<auth, file, mem, proj, serving, hand>>
      /\ Plan("maintain", P, 0, base.fields)
  BY DEF MaintainPlan, baseVars, poolVars, nodeVars
<1>2. P \in SUBSET Pools /\ base.fields \in [Pools -> SUBSET Services]
  BY <1>0 DEF TypeOK, Content
<1> HIDE DEF P
<1>3. draft' \in Draft /\ draft'.what = "maintain" /\ GotInv'
  BY <1>1, <1>2, PlanTyped
<1>4. lease' \in [Pools -> LeaseRow]
  BY <1>0, <1>1 DEF TypeOK
<1> QED
  BY <1>1, <1>3, <1>4, DraftStep

LEMMA ArmReadyStep == ASSUME IInv, NEW p \in Pools, ArmReady(p) PROVE IInv'
<1>0. TypeOK
  BY DEF IInv
<1>1. /\ UNCHANGED <<base, ver, spent, enabled, pool, lease, deliveries>>
      /\ UNCHANGED <<auth, file, mem, proj, serving, hand>>
      /\ draft.what = "arm" /\ draft' = [draft EXCEPT !.stage = "ready"]
  BY DEF ArmReady, baseVars, poolVars, nodeVars
<1>2. draft' \in Draft /\ draft'.what = "arm"
  BY <1>0, <1>1 DEF TypeOK, Draft
<1>3. GotInv'
  BY <1>2 DEF GotInv
<1>4. lease' \in [Pools -> LeaseRow]
  BY <1>0, <1>1 DEF TypeOK
<1> QED
  BY <1>1, <1>2, <1>3, <1>4, DraftStep

LEMMA ArmLeaseStep == ASSUME IInv, NEW p \in Pools, ArmLease(p) PROVE IInv'
<1>0. TypeOK
  BY DEF IInv
<1>1. /\ UNCHANGED <<base, ver, spent, enabled, pool, deliveries>>
      /\ UNCHANGED <<auth, file, mem, proj, serving, hand>>
      /\ draft.what = "arm" /\ draft' = [draft EXCEPT !.stage = "leased"]
      /\ lease' = lease \/ lease' = [lease EXCEPT ![p] = Leased(p, draft.cls[p])]
  BY DEF ArmLease, baseVars, nodeVars
<1>2. draft' \in Draft /\ draft'.what = "arm"
  BY <1>0, <1>1 DEF TypeOK, Draft
<1>3. GotInv'
  BY <1>2 DEF GotInv
<1>4. lease' \in [Pools -> LeaseRow]
  <2>1. draft.cls[p] \in SUBSET Services
    BY <1>0, DraftTyped
  <2>2. Leased(p, draft.cls[p]) \in LeaseRow
    BY <2>1 DEF Leased, LeaseRow
  <2> QED
    BY <1>0, <1>1, <2>2 DEF TypeOK
<1> QED
  BY <1>1, <1>2, <1>3, <1>4, DraftStep

LEMMA ReadBaseStep == ASSUME IInv, ReadBase PROVE IInv'
<1> DEFINE n == First(Unread)
<1>0. TypeOK
  BY DEF IInv
<1>1. /\ UNCHANGED <<base, ver, spent, enabled, pool, lease, deliveries>>
      /\ UNCHANGED <<auth, file, mem, proj, serving, hand>>
      /\ draft.stage = "planned" /\ Unread # {}
      /\ draft' = [draft EXCEPT !.got[n] = [content |-> base, ver |-> ver]]
  BY DEF ReadBase, baseVars, poolVars, nodeVars
<1>2. n \in Nodes
  <2>1. Unread \subseteq Nat
    BY AuthorityAssumption DEF Unread
  <2>2. n \in Unread
    BY <1>1, <2>1, FirstIn
  <2> QED
    BY <2>2 DEF Unread
<1>3. [content |-> base, ver |-> ver] \in Stored /\ [content |-> base, ver |-> ver] # None
  <2>1. base \in Content /\ ver \in 1 .. MaxVer
    BY <1>0 DEF TypeOK
  <2>2. ver \in Nat
    BY <2>1, AuthorityAssumption
  <2>3. [content |-> base, ver |-> ver] \in Stored
    BY <2>1, <2>2 DEF Stored
  <2> QED
    BY <2>3, NilAssumption
<1> DEFINE s == [content |-> base, ver |-> ver]
<1> HIDE DEF n, s
<1>4. /\ draft' = [draft EXCEPT !.got = [draft.got EXCEPT ![n] = s]]
      /\ s \in Stored /\ s # None
  BY <1>1, <1>3 DEF s
<1>5. /\ draft \in Draft /\ draft.got \in [Nodes -> Stored \cup {None}]
      /\ [draft.got EXCEPT ![n] = s] \in [Nodes -> Stored \cup {None}]
      /\ \A m \in Nodes : [draft.got EXCEPT ![n] = s][m] = IF m = n THEN s ELSE draft.got[m]
  BY <1>0, <1>2, <1>4, DraftTyped DEF TypeOK
<1>6. /\ draft' \in Draft /\ draft'.what = draft.what /\ draft'.pools = draft.pools
      /\ draft'.rev = draft.rev /\ draft'.stage = "planned" /\ draft'.done = draft.done
      /\ draft'.got = [draft.got EXCEPT ![n] = s]
  BY <1>1, <1>4, <1>5 DEF Draft
<1>7. GotInv'
  <2> SUFFICES ASSUME draft.what = "drain", NEW m \in Nodes, m \in draft.done
               PROVE  draft'.got[m] # None
    BY <1>6 DEF GotInv
  <2>1. draft.got[m] # None
    BY DEF IInv, GotInv
  <2>2. draft'.got[m] = IF m = n THEN s ELSE draft.got[m]
    BY <1>5, <1>6
  <2> QED
    BY <1>4, <2>1, <2>2
<1>8. lease' \in [Pools -> LeaseRow]
  BY <1>0, <1>1 DEF TypeOK
<1> QED
  BY <1>1, <1>6, <1>7, <1>8, DraftStep

\* The barrier is reached.
LEMMA DrainReadyStep == ASSUME IInv, NEW p \in Pools, DrainReady(p) PROVE IInv'
<1>0. TypeOK
  BY DEF IInv
<1>1. /\ UNCHANGED <<base, ver, spent, enabled, pool, lease, deliveries>>
      /\ UNCHANGED <<auth, file, mem, proj, serving, hand>>
      /\ draft.what = "drain" /\ draft.pools = {p} /\ Undone = {}
      /\ \A n \in Nodes : Receipt(n, "maintain", p, draft.rev)
      /\ draft' = [draft EXCEPT !.stage = "issued", !.done = {}]
  BY DEF DrainReady, baseVars, poolVars, nodeVars
<1>2. /\ draft' \in Draft /\ draft'.what = "drain" /\ draft'.pools = draft.pools
      /\ draft'.rev = draft.rev /\ draft'.got = draft.got
  BY <1>0, <1>1 DEF TypeOK, Draft
<1>3. GotInv'
  <2>1. \A n \in Nodes : n \in draft.done
    BY <1>1 DEF Undone
  <2>2. \A n \in Nodes : draft.got[n] # None
    BY <1>1, <2>1 DEF IInv, GotInv
  <2> QED
    BY <1>2, <2>2 DEF GotInv
<1>4. \A q \in draft.pools : Barrier(q, draft.rev)
  <2>1. Barrier(p, draft.rev)
    <3> SUFFICES ASSUME NEW m \in Nodes
                 PROVE  \E k \in AtRevision(m, p, draft.rev) :
                          deliveries[m][k].kind = "maintain" /\ Acked(deliveries[m][k])
      BY DEF Barrier
    <3>1. PICK k \in AtRevision(m, p, draft.rev) :
            deliveries[m][k].kind = "maintain" /\ deliveries[m][k].receipt = "fresh"
      BY <1>1 DEF Receipt
    <3>2. Acked(deliveries[m][k])
      BY <3>1 DEF Acked
    <3> QED
      BY <3>1, <3>2
  <2> QED
    BY <1>1, <2>1
<1>5. lease' \in [Pools -> LeaseRow]
  BY <1>0, <1>1 DEF TypeOK
<1> QED
  BY <1>1, <1>2, <1>3, <1>4, <1>5, DraftStep

-----------------------------------------------------------------------------
(* The steps that move a pool.                                             *)

LEMMA RetriedTyped ==
  ASSUME TypeOK, NEW p \in Pools, NEW kind
  PROVE  /\ Retried(kind, p) \in Nat
         /\ Retried(kind, p) = pool[p].rev \/ Retried(kind, p) > pool[p].rev
<1>1. pool[p].rev \in Nat
  BY PoolTyped
<1> QED
  BY <1>1 DEF Retried

\* A pool's row after a retry.
LEMMA RetryStep ==
  ASSUME TypeOK, NEW p \in Pools, NEW r \in Nat, r = pool[p].rev \/ r > pool[p].rev,
         pool' = [pool EXCEPT ![p].rev = r]
  PROVE  /\ pool' \in [Pools -> PoolRow] /\ pool'[p].act = pool[p].act
         /\ \A q \in Pools :
              \/ pool'[q] = pool[q]
              \/ /\ pool'[q].rev > pool[q].rev
                 /\ pool'[q].act = "fenced_ha" => pool[q].act = "fenced_ha"
<1>1. pool \in [Pools -> PoolRow] /\ pool[p] \in PoolRow
  BY DEF TypeOK
<1>2. /\ [pool[p] EXCEPT !.rev = r] \in PoolRow /\ [pool[p] EXCEPT !.rev = r].rev = r
      /\ [pool[p] EXCEPT !.rev = r].act = pool[p].act
      /\ r = pool[p].rev => [pool[p] EXCEPT !.rev = r] = pool[p]
  BY <1>1 DEF PoolRow
<1> QED
  BY <1>1, <1>2

LEMMA ArmPlanStep == ASSUME IInv, NEW p \in Pools, ArmPlan(p) PROVE IInv'
<1> DEFINE r == Retried("arm", p)
<1>0. TypeOK
  BY DEF IInv
<1>1. /\ UNCHANGED <<base, ver, spent, enabled, lease, deliveries>>
      /\ UNCHANGED <<auth, file, mem, proj, serving, hand>>
      /\ pool' = [pool EXCEPT ![p].rev = r] /\ Plan("arm", {p}, r, base.fields)
  BY DEF ArmPlan, baseVars, nodeVars
<1>2. r \in Nat /\ (r = pool[p].rev \/ r > pool[p].rev)
  BY <1>0, RetriedTyped
<1> HIDE DEF r
<1>3. {p} \in SUBSET Pools /\ base.fields \in [Pools -> SUBSET Services]
  BY <1>0 DEF TypeOK, Content
<1>4. draft' \in Draft /\ draft'.what = "arm" /\ GotInv'
  BY <1>1, <1>2, <1>3, PlanTyped
<1>5. /\ pool' \in [Pools -> PoolRow]
      /\ \A q \in Pools :
           \/ pool'[q] = pool[q]
           \/ /\ pool'[q].rev > pool[q].rev
              /\ pool'[q].act = "fenced_ha" => pool[q].act = "fenced_ha"
  BY <1>0, <1>1, <1>2, RetryStep
<1>6. ArmInv' /\ FencedInv'
  BY <1>1, <1>5, PoolStep
<1>7. DrainInv'
  BY <1>4 DEF DrainInv
<1>8. /\ base' \in Content /\ ver' \in 1 .. MaxVer /\ spent' \in [{"edits", "troubles"} -> Nat]
      /\ enabled' \in BOOLEAN /\ lease' \in [Pools -> LeaseRow]
  BY <1>0, <1>1 DEF TypeOK
<1> QED
  BY <1>1, <1>4, <1>5, <1>6, <1>7, <1>8, QuietStep

LEMMA DrainPlanStep == ASSUME IInv, NEW p \in Pools, DrainPlan(p) PROVE IInv'
<1> DEFINE r == Retried("maintain", p)
<1>0. TypeOK
  BY DEF IInv
<1>1. /\ UNCHANGED <<base, ver, spent, enabled, lease, deliveries>>
      /\ UNCHANGED <<auth, file, mem, proj, serving, hand>>
      /\ pool' = [pool EXCEPT ![p].rev = r] /\ pool[p].act = "drain_pending"
  BY DEF DrainPlan, baseVars, nodeVars, Draining, Holds
<1>2. PICK n \in Nodes : \E i \in AckedOf(n, p) : Plan("drain", {p}, r, deliveries[n][i].cls)
  BY DEF DrainPlan
<1>3. PICK i \in DOMAIN deliveries[n] : Plan("drain", {p}, r, deliveries[n][i].cls)
  BY <1>2 DEF AckedOf
<1>4. r \in Nat /\ (r = pool[p].rev \/ r > pool[p].rev)
  BY <1>0, RetriedTyped
<1> HIDE DEF r
<1>5. {p} \in SUBSET Pools /\ deliveries[n][i].cls \in [Pools -> SUBSET Services]
  BY <1>0, RowTyped
<1>6. /\ draft' \in Draft /\ draft'.what = "drain" /\ draft'.pools = {p}
      /\ draft'.stage = "planned" /\ GotInv'
  <2> DEFINE c == deliveries[n][i].cls
  <2>1. c \in [Pools -> SUBSET Services] /\ Plan("drain", {p}, r, c)
    BY <1>3, <1>5
  <2> HIDE DEF c
  <2> QED
    BY <1>4, <1>5, <2>1, PlanTyped
<1>7. /\ pool' \in [Pools -> PoolRow] /\ pool'[p].act = pool[p].act
      /\ \A q \in Pools :
           \/ pool'[q] = pool[q]
           \/ /\ pool'[q].rev > pool[q].rev
              /\ pool'[q].act = "fenced_ha" => pool[q].act = "fenced_ha"
  BY <1>0, <1>1, <1>4, RetryStep
<1>8. ArmInv' /\ FencedInv'
  BY <1>1, <1>7, PoolStep
<1>9. DrainInv'
  BY <1>1, <1>6, <1>7 DEF DrainInv
<1>10. /\ base' \in Content /\ ver' \in 1 .. MaxVer /\ spent' \in [{"edits", "troubles"} -> Nat]
       /\ enabled' \in BOOLEAN /\ lease' \in [Pools -> LeaseRow]
  BY <1>0, <1>1 DEF TypeOK
<1> QED
  BY <1>1, <1>6, <1>7, <1>8, <1>9, <1>10, QuietStep

\* Every member acknowledged the arm authority of this revision, and since a pool
\* being armed is sent no release, the fence stands.
LEMMA ArmConfirmStep == ASSUME IInv, NEW p \in Pools, ArmConfirm(p) PROVE IInv'
<1>0. TypeOK /\ ArmInv /\ FencedInv
  BY DEF IInv, LedgerInv
<1>1. /\ UNCHANGED <<base, ver, spent, enabled, lease, deliveries>>
      /\ UNCHANGED <<auth, file, mem, proj, serving, hand>>
      /\ pool[p].act = "bootstrap_pending" /\ pool[p].rev = draft.rev
      /\ \A n \in Nodes : Receipt(n, "arm", p, draft.rev)
      /\ pool' = [pool EXCEPT ![p].act = "fenced_ha"] /\ draft' = NoDraft
  BY DEF ArmConfirm, ArmCurrent, Arming, Holds, baseVars, nodeVars
<1>2. draft' \in Draft /\ draft'.what = "none"
  BY <1>1, EmptyTyped DEF NoDraft
<1>3. GotInv' /\ DrainInv'
  BY <1>2 DEF GotInv, DrainInv
<1>4. /\ pool' \in [Pools -> PoolRow] /\ pool'[p].act = "fenced_ha"
      /\ \A q \in Pools : pool'[q].rev = pool[q].rev
      /\ \A q \in Pools \ {p} : pool'[q] = pool[q]
  <2>1. pool \in [Pools -> PoolRow] /\ pool[p] \in PoolRow
    BY <1>0 DEF TypeOK
  <2>2. /\ [pool[p] EXCEPT !.act = "fenced_ha"] \in PoolRow
        /\ [pool[p] EXCEPT !.act = "fenced_ha"].act = "fenced_ha"
        /\ [pool[p] EXCEPT !.act = "fenced_ha"].rev = pool[p].rev
    BY <2>1 DEF PoolRow
  <2> QED
    BY <1>1, <2>1, <2>2
<1>5. ArmInv'
  <2> SUFFICES ASSUME NEW n \in Nodes, NEW q \in Pools, NEW i \in DOMAIN deliveries[n],
                      Arms(deliveries[n][i], q)
               PROVE  /\ deliveries[n][i].rev <= pool'[q].rev
                      /\ deliveries[n][i].rev = pool'[q].rev /\ pool'[q].act = "bootstrap_pending"
                           => Firm(n, i, q)
    BY <1>1 DEF ArmInv, Firm
  <2> QED
    BY <1>0, <1>4 DEF ArmInv
<1>6. FencedInv'
  <2> SUFFICES ASSUME NEW q \in Pools, pool'[q].act = "fenced_ha", NEW n \in Nodes
               PROVE  \E k \in DOMAIN deliveries[n] :
                        /\ Acked(deliveries[n][k]) /\ Classifies(deliveries[n][k], q)
                        /\ Firm(n, k, q)
    BY <1>1 DEF FencedInv, Firm
  <2>1. CASE q # p
    BY <1>0, <1>4, <2>1 DEF FencedInv
  <2>2. CASE q = p
    <3>1. PICK k \in AtRevision(n, p, draft.rev) :
            deliveries[n][k].kind = "arm" /\ deliveries[n][k].receipt = "fresh"
      BY <1>1 DEF Receipt
    <3>2. /\ k \in DOMAIN deliveries[n] /\ deliveries[n][k].rev = pool[p].rev
          /\ Arms(deliveries[n][k], p) /\ Acked(deliveries[n][k])
      BY <1>1, <3>1 DEF AtRevision, Arms, Acked
    <3>3. Firm(n, k, p)
      BY <1>0, <1>1, <3>2 DEF ArmInv
    <3>4. deliveries[n][k] # None
      BY <1>0, <3>2, RowTyped
    <3>5. Classifies(deliveries[n][k], p)
      BY <3>1, <3>2, <3>4 DEF Classifies, Arms
    <3> QED
      BY <2>2, <3>2, <3>3, <3>5
  <2> QED
    BY <2>1, <2>2
<1>7. /\ base' \in Content /\ ver' \in 1 .. MaxVer /\ spent' \in [{"edits", "troubles"} -> Nat]
      /\ enabled' \in BOOLEAN /\ lease' \in [Pools -> LeaseRow]
  BY <1>0, <1>1 DEF TypeOK
<1> QED
  BY <1>1, <1>2, <1>3, <1>4, <1>5, <1>6, <1>7, QuietStep

LEMMA DrainFinishStep == ASSUME IInv, NEW p \in Pools, DrainFinish(p) PROVE IInv'
<1>0. TypeOK
  BY DEF IInv
<1>1. /\ UNCHANGED <<base, ver, spent, enabled, lease, deliveries>>
      /\ UNCHANGED <<auth, file, mem, proj, serving, hand>> /\ pool[p].rev = draft.rev
      /\ pool' = [pool EXCEPT ![p].act = "legacy", ![p].rev = draft.rev + 1] /\ draft' = NoDraft
  BY DEF DrainFinish, baseVars, nodeVars
<1>2. draft' \in Draft /\ draft'.what = "none"
  BY <1>1, EmptyTyped DEF NoDraft
<1>3. GotInv' /\ DrainInv'
  BY <1>2 DEF GotInv, DrainInv
<1>4. /\ pool' \in [Pools -> PoolRow]
      /\ \A q \in Pools :
           \/ pool'[q] = pool[q]
           \/ /\ pool'[q].rev > pool[q].rev
              /\ pool'[q].act = "fenced_ha" => pool[q].act = "fenced_ha"
  <2>1. pool \in [Pools -> PoolRow] /\ pool[p] \in PoolRow /\ pool[p].rev \in Nat
    BY <1>0, PoolTyped DEF TypeOK
  <2>2. pool' = [pool EXCEPT ![p] = [pool[p] EXCEPT !.act = "legacy", !.rev = pool[p].rev + 1]]
    BY <1>1, <2>1
  <2> DEFINE x == [pool[p] EXCEPT !.act = "legacy", !.rev = pool[p].rev + 1]
  <2>3. x \in PoolRow /\ x.act = "legacy" /\ x.rev = pool[p].rev + 1
    <3> DEFINE y == pool[p]
               r == pool[p].rev + 1
    <3>1. y \in PoolRow /\ r \in Nat /\ x = [y EXCEPT !.act = "legacy", !.rev = r]
      BY <2>1
    <3> HIDE DEF x, y, r
    <3>2. x \in PoolRow /\ x.act = "legacy" /\ x.rev = r
      BY <3>1 DEF PoolRow
    <3> QED
      BY <3>2 DEF r
  <2>4. x.rev > pool[p].rev
    BY <2>1, <2>3
  <2> HIDE DEF x
  <2>5. pool' = [pool EXCEPT ![p] = x]
    BY <2>2 DEF x
  <2> QED
    BY <2>1, <2>3, <2>4, <2>5
<1>5. ArmInv' /\ FencedInv'
  BY <1>1, <1>4, PoolStep
<1>6. /\ base' \in Content /\ ver' \in 1 .. MaxVer /\ spent' \in [{"edits", "troubles"} -> Nat]
      /\ enabled' \in BOOLEAN /\ lease' \in [Pools -> LeaseRow]
  BY <1>0, <1>1 DEF TypeOK
<1> QED
  BY <1>1, <1>2, <1>3, <1>4, <1>5, <1>6, QuietStep

\* SetConnectorPoolHAMode and SetHASettings: a change of mode is a new revision.
LEMMA ModeStep ==
  ASSUME IInv, enabled' \in BOOLEAN, pool' \in [Pools -> PoolRow],
         UNCHANGED <<base, ver, spent, lease, draft, deliveries, auth, file, mem, proj, serving, hand>>,
         \A p \in Pools :
           pool'[p] = pool[p] \/ (pool'[p].rev > pool[p].rev /\ pool'[p].act # "fenced_ha")
  PROVE  IInv'
<1>1. ArmInv' /\ FencedInv' /\ DrainInv'
  BY PoolStep
<1>2. /\ base' \in Content /\ ver' \in 1 .. MaxVer /\ spent' \in [{"edits", "troubles"} -> Nat]
      /\ lease' \in [Pools -> LeaseRow] /\ draft' \in Draft
  BY DEF IInv, TypeOK
<1>3. GotInv'
  BY DEF IInv, GotInv
<1> QED
  BY <1>1, <1>2, <1>3, QuietStep

LEMMA RequestStep ==
  ASSUME IInv, NEW p \in Pools, NEW mode \in {"legacy", "fenced_ha"}, Request(p, mode)
  PROVE  IInv'
<1> DEFINE x == [req |-> mode, rev |-> pool[p].rev + 1,
                 act |-> IF mode = "fenced_ha" THEN "bootstrap_pending" ELSE "drain_pending"]
<1>0. TypeOK /\ pool \in [Pools -> PoolRow] /\ pool[p].rev \in Nat
  BY PoolTyped DEF IInv, TypeOK
<1>1. /\ UNCHANGED <<base, ver, spent, enabled, lease, draft, deliveries>>
      /\ UNCHANGED <<auth, file, mem, proj, serving, hand>>
      /\ pool' = [pool EXCEPT ![p] = x]
  BY <1>0 DEF Request, baseVars, nodeVars
<1>2. x \in PoolRow /\ x.rev > pool[p].rev /\ x.act # "fenced_ha"
  BY <1>0 DEF PoolRow
<1> HIDE DEF x
<1>3. /\ pool' \in [Pools -> PoolRow] /\ enabled' \in BOOLEAN
      /\ \A q \in Pools :
           pool'[q] = pool[q] \/ (pool'[q].rev > pool[q].rev /\ pool'[q].act # "fenced_ha")
  BY <1>0, <1>1, <1>2 DEF TypeOK
<1> QED
  BY <1>1, <1>3, ModeStep

LEMMA OptOutStep == ASSUME IInv, OptOut PROVE IInv'
<1> DEFINE P == {p \in Pools : ~Holds(p, "legacy", "legacy")}
           x(p) == [req |-> "legacy", rev |-> pool[p].rev + 1,
                    act |-> IF pool[p].act = "legacy" THEN "legacy" ELSE "drain_pending"]
<1>0. TypeOK
  BY DEF IInv
<1>1. /\ UNCHANGED <<base, ver, spent, lease, draft, deliveries>>
      /\ UNCHANGED <<auth, file, mem, proj, serving, hand>> /\ enabled' = FALSE
      /\ pool' = [p \in Pools |-> IF p \notin P THEN pool[p] ELSE x(p)]
  BY DEF OptOut, baseVars, nodeVars
<1>2. ASSUME NEW p \in Pools
      PROVE  x(p) \in PoolRow /\ x(p).rev > pool[p].rev /\ x(p).act # "fenced_ha"
  <2>1. pool[p].rev \in Nat
    BY <1>0, PoolTyped
  <2> QED
    BY <2>1 DEF PoolRow
<1>3. \A p \in Pools : pool[p] \in PoolRow
  BY <1>0, PoolTyped
<1> HIDE DEF P, x
<1>4. /\ pool' \in [Pools -> PoolRow]
      /\ \A q \in Pools :
           pool'[q] = pool[q] \/ (pool'[q].rev > pool[q].rev /\ pool'[q].act # "fenced_ha")
  BY <1>1, <1>2, <1>3
<1> QED
  BY <1>1, <1>4, ModeStep

LEMMA OptInStep == ASSUME IInv, OptIn PROVE IInv'
<1>1. /\ UNCHANGED <<base, ver, spent, pool, lease, draft, deliveries>>
      /\ UNCHANGED <<auth, file, mem, proj, serving, hand>> /\ enabled' = TRUE
  BY DEF OptIn, baseVars, nodeVars
<1>2. pool' \in [Pools -> PoolRow]
  BY <1>1 DEF IInv, TypeOK
<1> QED
  BY <1>1, <1>2, ModeStep

\* Neither base, version nor lease is looked at by the rest.
LEMMA OutsideStep ==
  ASSUME IInv, base' \in Content, ver' \in 1 .. MaxVer,
         spent' \in [{"edits", "troubles"} -> Nat], lease' \in [Pools -> LeaseRow],
         UNCHANGED <<enabled, pool, draft, deliveries, auth, file, mem, proj, serving, hand>>
  PROVE  IInv'
<1>0. TypeOK /\ LedgerInv /\ GotInv
  BY DEF IInv
<1>1. LedgerInv' /\ GotInv'
  BY <1>0, LedgerFrame DEF GotInv
<1>2. enabled' \in BOOLEAN /\ pool' \in [Pools -> PoolRow] /\ draft' \in Draft
  BY <1>0 DEF TypeOK
<1>3. DrainInv' /\ ArmInv' /\ FencedInv'
  BY <1>1 DEF LedgerInv
<1> QED
  BY <1>1, <1>2, <1>3, QuietStep

LEMMA EditStep == ASSUME IInv, Edit PROVE IInv'
<1>0. TypeOK /\ base \in Content
  BY DEF IInv, TypeOK
<1>1. /\ UNCHANGED <<ver, enabled, pool, lease, draft, deliveries>>
      /\ UNCHANGED <<auth, file, mem, proj, serving, hand>> /\ Spend("edits", MaxEdits)
  BY DEF Edit, poolVars, nodeVars
<1>2. base' \in Content
  <2>1. CASE \E p \in Pools, s \in Services :
               base' = [base EXCEPT !.fields[p] = (@ \ {s}) \cup ({s} \ @)]
    <3>1. PICK p \in Pools, s \in Services :
            base' = [base EXCEPT !.fields[p] = (@ \ {s}) \cup ({s} \ @)]
      BY <2>1
    <3> DEFINE g == base.fields
               y == (g[p] \ {s}) \cup ({s} \ g[p])
    <3>2. g \in [Pools -> SUBSET Services] /\ y \in SUBSET Services
      BY <1>0 DEF Content
    <3>3. base' = [base EXCEPT !.fields = [g EXCEPT ![p] = y]]
      BY <3>1
    <3> HIDE DEF g, y
    <3>4. [g EXCEPT ![p] = y] \in [Pools -> SUBSET Services]
      BY <3>2
    <3> QED
      BY <1>0, <3>3, <3>4 DEF Content
  <2>2. CASE base' = [base EXCEPT !.rest = 1 - @]
    BY <1>0, <2>2 DEF Content
  <2> QED
    BY <2>1, <2>2 DEF Edit
<1>3. spent' \in [{"edits", "troubles"} -> Nat]
  BY <1>0, <1>1, SpendTyped
<1>4. ver' \in 1 .. MaxVer /\ lease' \in [Pools -> LeaseRow]
  BY <1>0, <1>1 DEF TypeOK
<1> QED
  BY <1>1, <1>2, <1>3, <1>4, OutsideStep

LEMMA NotifyStep == ASSUME IInv, Notify PROVE IInv'
<1>0. /\ base \in Content /\ ver \in 1 .. MaxVer
      /\ spent \in [{"edits", "troubles"} -> Nat] /\ lease \in [Pools -> LeaseRow]
  BY DEF IInv, TypeOK
<1>1. /\ UNCHANGED <<base, spent, enabled, pool, lease, draft, deliveries>>
      /\ UNCHANGED <<auth, file, mem, proj, serving, hand>> /\ ver < MaxVer /\ ver' = ver + 1
  BY DEF Notify, poolVars, nodeVars
<1>2. ver' \in 1 .. MaxVer
  BY <1>0, <1>1, AuthorityAssumption
<1> QED
  BY <1>0, <1>1, <1>2, OutsideStep

LEMMA LeaseLapseStep == ASSUME IInv, NEW p \in Pools, LeaseLapse(p) PROVE IInv'
<1>0. /\ base \in Content /\ ver \in 1 .. MaxVer
      /\ spent \in [{"edits", "troubles"} -> Nat] /\ lease \in [Pools -> LeaseRow]
  BY DEF IInv, TypeOK
<1>1. /\ UNCHANGED <<base, ver, spent, enabled, pool, draft, deliveries>>
      /\ UNCHANGED <<auth, file, mem, proj, serving, hand>>
      /\ lease' = [lease EXCEPT ![p] =
           IF @.st = "renewed" THEN [@ EXCEPT !.st = "issued"] ELSE [st |-> "none", cls |-> {}]]
  BY DEF LeaseLapse, baseVars, nodeVars
<1>2. lease[p] \in LeaseRow
  BY <1>0
<1>3. [lease[p] EXCEPT !.st = "issued"] \in LeaseRow /\ [st |-> "none", cls |-> {}] \in LeaseRow
  BY <1>2 DEF LeaseRow
<1>4. lease' \in [Pools -> LeaseRow]
  BY <1>0, <1>1, <1>3
<1> QED
  BY <1>0, <1>1, <1>4, OutsideStep

-----------------------------------------------------------------------------
(* The induction.                                                          *)

LEMMA InitInv == ASSUME Init PROVE IInv
<1>1. TypeOK
  <2>1. base \in Content
    <3>1. PICK f \in {[p \in Pools |-> {s}] : s \in Services} : base = [fields |-> f, rest |-> 0]
      BY DEF Init
    <3>2. f \in [Pools -> SUBSET Services]
      OBVIOUS
    <3> QED
      BY <3>1, <3>2 DEF Content
  <2>2. ver \in 1 .. MaxVer /\ spent \in [{"edits", "troubles"} -> Nat] /\ enabled \in BOOLEAN
    BY AuthorityAssumption DEF Init
  <2>3. pool \in [Pools -> PoolRow] /\ lease \in [Pools -> LeaseRow]
    BY DEF Init, PoolRow, LeaseRow
  <2>4. draft \in Draft /\ deliveries \in [Nodes -> Seq(Delivery)] /\ auth \in [Nodes -> Nat]
    BY EmptyTyped DEF Init
  <2>5. /\ file \in [Nodes -> Fences \cup {Torn}] /\ mem \in [Nodes -> Fences \cup {None}]
        /\ proj \in [Nodes -> Stored \cup {None}] /\ serving \in [Nodes -> Pools \cup {None}]
        /\ hand \in [Nodes -> Hand]
    BY EmptyTyped DEF Init
  <2>6. \A n \in Nodes : {auth[n], hand[n].auth} \subseteq 0 .. Len(deliveries[n])
    BY DEF Init, Idle
  <2> QED
    BY <2>1, <2>2, <2>3, <2>4, <2>5, <2>6 DEF TypeOK
<1>2. ASSUME NEW n \in Nodes PROVE GatewayInv(n)
  <2>1. DOMAIN deliveries[n] = {} /\ mem[n] = None /\ proj[n] = None /\ hand[n] = Idle
    BY <1>2 DEF Init
  <2>2. \A p \in Pools : Owed(n, p) = {}
    BY <2>1 DEF Owed, Attested
  <2>3. hand[n].auth = 0 /\ hand[n].stage = "idle"
    BY <2>1 DEF Idle
  <2> QED
    BY <2>1, <2>2, <2>3 DEF GatewayInv, KeepInv, Keeps, FileInv, LaneInv, PassInv, BoundInv
<1>3. \A n \in Nodes : DOMAIN deliveries[n] = {}
  BY DEF Init
<1>4. draft.what = "none" /\ \A p \in Pools : pool[p].act = "legacy"
  BY DEF Init, NoDraft
<1>5. LedgerInv /\ GotInv
  BY <1>3, <1>4 DEF LedgerInv, DrainInv, ArmInv, FencedInv, ReleaseAfterBarrier, GotInv
<1> QED
  BY <1>1, <1>2, <1>5 DEF IInv

LEMMA NextInv == ASSUME IInv, [Next]_vars PROVE IInv'
<1>1. CASE UNCHANGED vars
  <2>1. /\ UNCHANGED <<base, ver, spent, enabled, pool, lease, draft, deliveries>>
        /\ UNCHANGED <<auth, file, mem, proj, serving, hand>>
    BY <1>1 DEF vars, baseVars, poolVars, nodeVars
  <2>2. /\ base \in Content /\ ver \in 1 .. MaxVer
        /\ spent \in [{"edits", "troubles"} -> Nat] /\ lease \in [Pools -> LeaseRow]
    BY DEF IInv, TypeOK
  <2> QED
    BY <2>1, <2>2, OutsideStep
<1>2. ASSUME NEW n \in Nodes,
             \/ Fetch(n) \/ Accept(n) \/ Reject(n) \/ Install(n) \/ InstallFails(n)
             \/ Post(n) \/ Withdraw(n) \/ Crash(n) \/ GoStale(n)
             \/ \E p \in Pools : Serve(n, p) \/ ServeFails(n, p)
      PROVE  IInv'
  BY <1>2, FetchStep, AcceptStep, RejectStep, InstallStep, InstallFailsStep, PostStep,
     WithdrawStep, CrashStep, StaleStep, ServeStep, ServeFailsStep
<1>3. ASSUME NEW p \in Pools,
             \/ ArmPlan(p) \/ ArmIssue(p) \/ ArmReady(p) \/ ArmLease(p) \/ ArmConfirm(p)
             \/ DrainPlan(p) \/ DrainIssue(p) \/ DrainReady(p) \/ DrainUnfence(p) \/ DrainFinish(p)
             \/ Request(p, "fenced_ha") \/ Request(p, "legacy") \/ LeaseLapse(p)
      PROVE  IInv'
  BY <1>3, ArmPlanStep, ArmIssueStep, ArmReadyStep, ArmLeaseStep, ArmConfirmStep, DrainPlanStep,
     DrainIssueStep, DrainReadyStep, DrainUnfenceStep, DrainFinishStep, RequestStep, LeaseLapseStep
<1>4. CASE ReadBase \/ MaintainPlan \/ MaintainIssue \/ Abandon
  BY <1>4, ReadBaseStep, MaintainPlanStep, MaintainIssueStep, AbandonStep
<1>5. CASE OptOut \/ OptIn \/ Edit \/ Notify \/ NextBucket
  BY <1>5, OptOutStep, OptInStep, EditStep, NotifyStep, BucketStep
<1> QED
  BY <1>1, <1>2, <1>3, <1>4, <1>5 DEF Next

\* The gateways keep their word and the ledger its order at every step.
LEMMA Inductive == Spec => []IInv
<1>1. Init => IInv
  BY InitInv
<1>2. IInv /\ [Next]_vars => IInv'
  BY NextInv
<1> QED
  BY <1>1, <1>2, PTL DEF Spec

\* What a gateway acknowledged as fenced binds it, once no release is open.
LEMMA PromiseOwed ==
  ASSUME NEW n \in Nodes, NEW p \in Pools, ReleasesSettled(n, p)
  PROVE  Classified(n, p) \subseteq Owed(n, p)
<1> SUFFICES ASSUME NEW k \in Classified(n, p) PROVE k \in Owed(n, p)
  OBVIOUS
<1>1. /\ k \in DOMAIN deliveries[n] /\ Acked(deliveries[n][k]) /\ Classifies(deliveries[n][k], p)
      /\ ~\E j \in DOMAIN deliveries[n] : j > k /\ Unfences(deliveries[n][j], p)
  BY DEF Classified, AckedOf
<1>2. k \in Attested(n) /\ Firm(n, k, p)
  BY <1>1 DEF Attested, Firm
<1>3. Settled(n, p)
  BY DEF ReleasesSettled, Settled, Attested
<1> QED
  BY <1>1, <1>2, <1>3 DEF Owed

\* Every variable of the model keeps its type, and a gateway never has or works
\* on an authority that was not issued to it.
THEOREM TypeCorrect == Spec => []TypeOK
<1>1. IInv => TypeOK
  BY DEF IInv
<1> QED
  BY <1>1, Inductive, PTL

\* What a gateway acknowledged as fenced is armed and suppressed by its fence file
\* whatever crashed or failed to be saved since, until a release is issued to it:
\* UpdateBase writes the fences before PrepareBaseAuthorityAck, a restart loads
\* them, and a classification that changes nothing in memory, and so is not
\* written again, finds them on the disk.
THEOREM DurableTheorem == Spec => []AcceptedIsDurable
<1>1. IInv => AcceptedIsDurable
  <2> SUFFICES ASSUME IInv, NEW n \in Nodes, NEW p \in Pools,
                      Promised(n, p) # {}, ReleasesSettled(n, p), file[n] # Torn
               PROVE  p \in Armed(file[n]) /\ Promised(n, p) \subseteq file[n][p].sup
    BY DEF AcceptedIsDurable
  <2>1. \A k \in Classified(n, p) : Has(file[n], p, deliveries[n][k].cls[p])
    BY PromiseOwed DEF IInv, GatewayInv, KeepInv, Keeps
  <2>2. PICK k \in Classified(n, p) : TRUE
    BY DEF Promised
  <2> QED
    BY <2>1, <2>2 DEF Has, Promised
<1> QED
  BY <1>1, Inductive, PTL

\* None of those fields is shown by the projector, whatever base it has.
THEOREM HiddenTheorem == Spec => []AcceptedIsHidden
<1>1. IInv => AcceptedIsHidden
  <2> SUFFICES ASSUME IInv, NEW n \in Nodes, NEW p \in Pools, proj[n] # None,
                      ReleasesSettled(n, p), NEW s \in Visible(mem[n], proj[n], p),
                      s \in Promised(n, p)
               PROVE  FALSE
    BY DEF AcceptedIsHidden
  <2>1. mem[n] # None
    BY DEF IInv, GatewayInv, LaneInv
  <2>2. PICK k \in Classified(n, p) : s \in deliveries[n][k].cls[p]
    BY DEF Promised
  <2>3. Has(mem[n], p, deliveries[n][k].cls[p])
    BY <2>1, <2>2, PromiseOwed DEF IInv, GatewayInv, KeepInv, Keeps
  <2>4. mem[n][p] # None /\ mem[n][p].armed /\ s \in mem[n][p].sup
    BY <2>2, <2>3 DEF Has, Armed
  <2> QED
    BY <2>4 DEF Visible, Suppresses
<1> QED
  BY <1>1, Inductive, PTL

\* UpdateBase binds every armed fence to the base on show, also after a failed or
\* torn save, a restart and the arming of a fence by a serving lease.
THEOREM BoundTheorem == Spec => []FenceBoundToBase
<1>1. IInv => FenceBoundToBase
  BY DEF IInv, GatewayInv, BoundInv, FenceBoundToBase
<1> QED
  BY <1>1, Inductive, PTL

\* While fenced_ha is recorded, every member's disk arms the pool's fence: what
\* ConfirmHandoffOwnershipModeTransitionWithLeadership read of the ledger cannot
\* have been undone by a drain whose tick had started before.
THEOREM FencedTheorem == Spec => []FencedEverywhere
<1>1. IInv => FencedEverywhere
  <2> SUFFICES ASSUME IInv, NEW p \in Pools, pool[p].act = "fenced_ha", NEW n \in Nodes,
                      file[n] # Torn, ReleasesSettled(n, p)
               PROVE  p \in Armed(file[n])
    BY DEF FencedEverywhere
  <2>1. PICK k \in DOMAIN deliveries[n] :
          Acked(deliveries[n][k]) /\ Classifies(deliveries[n][k], p) /\ Firm(n, k, p)
    BY DEF IInv, LedgerInv, FencedInv
  <2>2. k \in Classified(n, p)
    BY <2>1 DEF Classified, AckedOf, Firm, Classifies
  <2>3. Has(file[n], p, deliveries[n][k].cls[p])
    BY <2>2, PromiseOwed DEF IInv, GatewayInv, KeepInv, Keeps
  <2> QED
    BY <2>3 DEF Has
<1> QED
  BY <1>1, Inductive, PTL

\* No member is sent a release before every member acknowledged the maintain
\* authority of the revision before it, however ticks of arming, draining and
\* retries follow each other (ReconcileHandoffOwnershipDrainWithLeadership).
THEOREM BarrierTheorem == Spec => []ReleaseAfterBarrier
<1>1. IInv => ReleaseAfterBarrier
  BY DEF IInv, LedgerInv
<1> QED
  BY <1>1, Inductive, PTL
=============================================================================
