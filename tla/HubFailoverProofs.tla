------------------------- MODULE HubFailoverProofs -------------------------
(***************************************************************************)
(* Proofs about HubFailover for any set of gateways, any thresholds in the *)
(* code's order and any number of requests, restarts, failures and edits:  *)
(* type correctness for any number of replicas, and for one replica that   *)
(* demotions and restorations of the row are witnessed by ticks in a row.  *)
(***************************************************************************)
EXTENDS HubFailover, FiniteSetTheorems, TLAPS

\* R orders S strictly and totally.
StrictOrder(S, R) ==
  /\ \A x \in S : <<x, x>> \notin R
  /\ \A x, y, z \in S : <<x, y>> \in R /\ <<y, z>> \in R => <<x, z>> \in R
  /\ \A x, y \in S : x # y => <<x, y>> \in R \/ <<y, x>> \in R

\* A finite set has its order: the place of an element is the number of those
\* before it, and no two have the same.
LEMMA OrderedIs ==
  ASSUME NEW S, IsFiniteSet(S), NEW R, StrictOrder(S, R)
  PROVE  /\ Ordered(S, R) \in [1..Cardinality(S) -> S]
         /\ IsInjective(Ordered(S, R))
         /\ ToSet(Ordered(S, R)) = S
<1> DEFINE n == Cardinality(S)
           Down(x) == {y \in S : <<y, x>> \in R}
           f == [x \in S |-> Cardinality(Down(x)) + 1]
<1>1. n \in Nat
  BY FS_CardinalityType
<1>2. ASSUME NEW x \in S
      PROVE  IsFiniteSet(Down(x)) /\ Cardinality(Down(x)) \in 0..(n - 1)
  <2>1. IsFiniteSet(S \ {x}) /\ Cardinality(S \ {x}) = n - 1
    BY FS_RemoveElement
  <2>2. Down(x) \in SUBSET (S \ {x})
    BY DEF StrictOrder
  <2>3. IsFiniteSet(Down(x)) /\ Cardinality(Down(x)) <= n - 1
    BY <2>1, <2>2, FS_Subset
  <2> QED
    BY <1>1, <2>3, FS_CardinalityType
<1> DEFINE rank(x) == Cardinality(Down(x))
<1>3. \A x \in S : rank(x) \in 0..(n - 1)
  BY <1>2
<1>4. \A x \in S : f[x] = rank(x) + 1
  OBVIOUS
<1>5. ASSUME NEW x \in S, NEW y \in S, <<x, y>> \in R PROVE f[x] < f[y]
  <2>1. Down(x) \in SUBSET Down(y) /\ x \in Down(y) /\ x \notin Down(x)
    BY <1>5 DEF StrictOrder
  <2>2. Cardinality(Down(x)) <= Cardinality(Down(y)) /\ Cardinality(Down(x)) # Cardinality(Down(y))
    BY <1>2, <2>1, FS_Subset
  <2> HIDE DEF n, f, Down
  <2>3. rank(x) <= rank(y) /\ rank(x) # rank(y)
    BY <2>2
  <2> HIDE DEF rank
  <2> QED
    BY <1>1, <1>3, <1>4, <2>3
<1>6. DOMAIN f = S /\ f = [x \in S |-> f[x]]
  OBVIOUS
<1> HIDE DEF f, rank
<1>7. f \in Injection(S, 1..n)
  <2> HIDE DEF n
  <2>1. f \in [S -> 1..n]
    <3>1. \A x \in S : f[x] \in 1..n
      BY <1>1, <1>3, <1>4
    <3> QED
      BY <1>6, <3>1
  <2>2. \A x, y \in S : f[x] = f[y] => x = y
    <3> SUFFICES ASSUME NEW x \in S, NEW y \in S, x # y PROVE f[x] # f[y]
      OBVIOUS
    <3>1. CASE <<x, y>> \in R
      BY <1>5, <2>1, <3>1
    <3>2. CASE <<y, x>> \in R
      BY <1>5, <2>1, <3>2
    <3> QED
      BY <3>1, <3>2 DEF StrictOrder
  <2> QED
    BY <2>1, <2>2 DEF Injection, IsInjective
<1>8. IsFiniteSet(1..n) /\ Cardinality(1..n) = n
  BY <1>1, FS_Interval
<1>9. f \in Surjection(S, 1..n)
  BY <1>7, <1>8, FS_Injection
<1>10. \A k \in 1..n : \E x \in S : f[x] = k
  BY <1>9 DEF Surjection
<1> DEFINE s == [k \in 1..n |-> CHOOSE x \in S : f[x] = k]
<1>11. \A k \in 1..n : s[k] \in S /\ f[s[k]] = k
  BY <1>10
<1>12. s \in [1..n -> S]
  BY <1>11
<1>13. \A i, j \in DOMAIN s : i < j => <<s[i], s[j]>> \in R
  <2> SUFFICES ASSUME NEW i \in 1..n, NEW j \in 1..n, i < j PROVE <<s[i], s[j]>> \in R
    BY <1>12
  <2>1. s[i] # s[j]
    BY <1>11
  <2>2. ~(<<s[j], s[i]>> \in R)
    BY <1>1, <1>5, <1>11
  <2> HIDE DEF s
  <2> QED
    BY <1>11, <2>1, <2>2 DEF StrictOrder
<1> HIDE DEF s
<1> DEFINE t == Ordered(S, R)
<1>14. t \in [1..n -> S] /\ (\A i, j \in DOMAIN t : i < j => <<t[i], t[j]>> \in R)
  BY <1>12, <1>13 DEF Ordered
<1> HIDE DEF t
<1>15. IsInjective(t)
  <2> SUFFICES ASSUME NEW i \in 1..n, NEW j \in 1..n, i # j PROVE t[i] # t[j]
    BY <1>14 DEF IsInjective
  <2>1. <<t[i], t[j]>> \in R \/ <<t[j], t[i]>> \in R
    BY <1>1, <1>14
  <2> QED
    BY <1>14, <2>1 DEF StrictOrder
<1>16. t \in Surjection(1..n, S)
  <2>1. t \in Injection(1..n, S)
    BY <1>14, <1>15 DEF Injection
  <2> QED
    BY <1>8, <2>1, FS_Injection
<1>17. ToSet(t) = S
  BY <1>14, <1>16 DEF ToSet, Surjection
<1> QED
  BY <1>14, <1>15, <1>17 DEF t

\* The order of some members is a sequence of exactly these.
LEMMA OrderedTyped ==
  ASSUME NEW S, S \subseteq Members, NEW R, StrictOrder(S, R)
  PROVE  /\ Ordered(S, R) \in Orders
         /\ ToSet(Ordered(S, R)) = S
         /\ Len(Ordered(S, R)) = Cardinality(S)
<1> DEFINE t == Ordered(S, R)
<1>1. /\ IsFiniteSet(S) /\ Cardinality(S) \in Nat /\ Cardinality(Members) \in Nat
      /\ Cardinality(S) <= Cardinality(Members)
  BY Bounds, FS_Subset, FS_CardinalityType
<1>2. t \in [1..Cardinality(S) -> S] /\ IsInjective(t) /\ ToSet(t) = S
  BY <1>1, OrderedIs
<1> HIDE DEF t
<1>3. t \in SeqOf(Members, Cardinality(Members))
  <2>1. t \in [1..Cardinality(S) -> Members] /\ Cardinality(S) \in 0..Cardinality(Members)
    BY <1>1, <1>2
  <2> QED
    BY <2>1 DEF SeqOf
<1>4. Len(t) = Cardinality(S)
  BY <1>1, <1>2
<1> QED
  BY <1>2, <1>3, <1>4 DEF t, Orders

\* Pin, health and id order any gateways: no two have the same id.
LEMMA HubOrderStrict ==
  ASSUME NEW g \in Gateways, NEW S, S \subseteq Members
  PROVE  StrictOrder(S, HubOrder(g))
<1>1. \A a, b \in Members : <<a, b>> \in HubOrder(g) <=> hubLess(g, a, b)
  BY DEF HubOrder
<1>2. \A a \in Members : a \in Nat /\ g[a].pin \in Nat /\ g[a].healthy \in BOOLEAN
  BY Bounds DEF Gateways, Gateway
<1>3. \A a \in Members : ~hubLess(g, a, a)
  BY <1>2 DEF hubLess
<1>4. \A a, b, c \in Members : hubLess(g, a, b) /\ hubLess(g, b, c) => hubLess(g, a, c)
  BY <1>2 DEF hubLess
<1>5. \A a, b \in Members : a # b => hubLess(g, a, b) \/ hubLess(g, b, a)
  BY <1>2 DEF hubLess
<1> QED
  BY <1>1, <1>3, <1>4, <1>5 DEF StrictOrder

\* An election is a sequence of members without repetition.
LEMMA ElectTyped ==
  ASSUME NEW g \in Gateways
  PROVE  electSiteHubSet[g] \in Orders
<1>1. Pins(g) \subseteq Members /\ Capable(g) \subseteq Members
  BY DEF Pins, Capable
<1>2. Ordered(Pins(g), HubOrder(g)) \in Orders
  BY <1>1, HubOrderStrict, OrderedTyped
<1> DEFINE c == Ordered(Capable(g), HubOrder(g))
<1>3. ToSet(c) = Capable(g) /\ Len(c) = Cardinality(Capable(g)) /\ c \in Orders
  BY <1>1, HubOrderStrict, OrderedTyped
<1> HIDE DEF c
<1>4. ASSUME Capable(g) # {} PROVE <<c[1]>> \in Orders
  <2>1. c \in SeqOf(Members, Cardinality(Members))
    BY <1>3 DEF Orders
  <2>2. PICK k \in 0..Cardinality(Members) : c \in [1..k -> Members]
    BY <2>1 DEF SeqOf
  <2>3. Cardinality(Members) \in Nat
    BY Bounds, FS_CardinalityType
  <2>4. k # 0
    BY <1>3, <1>4, <2>2 DEF ToSet
  <2>5. c[1] \in Members /\ 1 \in 0..Cardinality(Members)
    BY <2>2, <2>3, <2>4
  <2>6. <<c[1]>> \in [1..1 -> Members]
    BY <2>5
  <2>7. <<c[1]>> \in SeqOf(Members, Cardinality(Members))
    BY <2>5, <2>6 DEF SeqOf
  <2> QED
    BY <2>6, <2>7 DEF Orders, IsInjective
<1> QED
  BY <1>2, <1>4 DEF electSiteHubSet, c

\* Places of a sequence without repetition order its members.
LEMMA DemotedTyped ==
  ASSUME NEW c \in Orders, NEW D \in SUBSET Members
  PROVE  /\ DemotedOrder[c][D] \in Orders
         /\ ToSet(DemotedOrder[c][D]) = ToSet(c) \cap D
<1> DEFINE S == ToSet(c) \cap D
           R == {p \in Members \X Members : \E i, j \in DOMAIN c :
                    i < j /\ p = <<c[i], c[j]>>}
<1>1. PICK k \in 0..Cardinality(Members) : c \in [1..k -> Members]
  BY DEF Orders, SeqOf
<1>2. IsInjective(c)
  BY DEF Orders
<1>3. \A x \in S : x \in Members /\ \E i \in 1..k : c[i] = x
  BY <1>1 DEF ToSet
<1>4. Cardinality(Members) \in Nat
  BY Bounds, FS_CardinalityType
<1>5. \A i, j \in 1..k : <<c[i], c[j]>> \in R <=> i < j
  <2> SUFFICES ASSUME NEW i \in 1..k, NEW j \in 1..k PROVE <<c[i], c[j]>> \in R <=> i < j
    OBVIOUS
  <2>1. \A a, b \in DOMAIN c : <<c[a], c[b]>> = <<c[i], c[j]>> => a = i /\ b = j
    BY <1>1, <1>2 DEF IsInjective
  <2> QED
    BY <1>1, <2>1
<1> HIDE DEF R
<1>6. StrictOrder(S, R)
  <2>1. \A x \in S : <<x, x>> \notin R
    BY <1>1, <1>3, <1>4, <1>5
  <2>2. \A x, y, z \in S : <<x, y>> \in R /\ <<y, z>> \in R => <<x, z>> \in R
    <3> SUFFICES ASSUME NEW x \in S, NEW y \in S, NEW z \in S, <<x, y>> \in R, <<y, z>> \in R
                 PROVE  <<x, z>> \in R
      OBVIOUS
    <3>1. PICK i \in 1..k, j \in 1..k, l \in 1..k : c[i] = x /\ c[j] = y /\ c[l] = z
      BY <1>3
    <3> QED
      BY <1>4, <1>5, <3>1
  <2>3. \A x, y \in S : x # y => <<x, y>> \in R \/ <<y, x>> \in R
    <3> SUFFICES ASSUME NEW x \in S, NEW y \in S, x # y
                 PROVE  <<x, y>> \in R \/ <<y, x>> \in R
      OBVIOUS
    <3>1. PICK i \in 1..k, j \in 1..k : c[i] = x /\ c[j] = y
      BY <1>3
    <3> QED
      BY <1>4, <1>5, <3>1
  <2> QED
    BY <2>1, <2>2, <2>3 DEF StrictOrder
<1>7. DemotedOrder[c][D] = Ordered(S, R)
  BY DEF DemotedOrder, R
<1>8. S \subseteq Members
  BY <1>3
<1> HIDE DEF S
<1>9. Ordered(S, R) \in Orders /\ ToSet(Ordered(S, R)) = S
  BY <1>6, <1>8, OrderedTyped
<1> QED
  BY <1>7, <1>9 DEF S

-----------------------------------------------------------------------------
(* The controller.                                                         *)

\* Counts stay within their thresholds.
LEMMA CountTyped ==
  ASSUME NEW c \in RunType, NEW v \in Verdicts
  PROVE  Count(c, v) \in RunType
<1>1. c.stale \in 0..DemoteTicks /\ c.fresh \in 0..RestoreTicks
  BY DEF RunType
<1>2. Cap(c.stale, DemoteTicks) \in 0..DemoteTicks /\ Cap(c.fresh, RestoreTicks) \in 0..RestoreTicks
  BY <1>1, Bounds DEF Cap
<1>3. 0 \in 0..DemoteTicks /\ 0 \in 0..RestoreTicks
  BY Bounds
<1>4. v = "fresh" \/ v = "stale" \/ v = "none"
  BY DEF Verdicts
<1> QED
  BY <1>2, <1>3, <1>4 DEF Count, RunType

\* A run that another is ahead of stays behind it when both count a verdict,
\* and equal stale runs stay equal.
LEMMA CountMonotone ==
  ASSUME NEW c \in RunType, NEW d \in RunType, NEW v \in Verdicts,
         c.stale <= d.stale, c.fresh <= d.fresh
  PROVE  /\ Count(c, v).stale <= Count(d, v).stale
         /\ Count(c, v).fresh <= Count(d, v).fresh
         /\ c.stale = d.stale => Count(c, v).stale = Count(d, v).stale
         /\ v = "fresh" => Count(c, v).stale = 0 /\ Count(d, v).stale = 0
         /\ v = "stale" => Count(c, v).fresh = 0 /\ Count(d, v).fresh = 0
         /\ v = "none" => Count(c, v) = c /\ Count(d, v) = d
<1>1. /\ c.stale \in Nat /\ c.fresh \in Nat /\ d.stale \in Nat /\ d.fresh \in Nat
      /\ DemoteTicks \in Nat /\ RestoreTicks \in Nat
  BY Bounds DEF RunType
<1>2. Cap(c.stale, DemoteTicks) <= Cap(d.stale, DemoteTicks)
  BY <1>1 DEF Cap
<1>3. Cap(c.fresh, RestoreTicks) <= Cap(d.fresh, RestoreTicks)
  BY <1>1 DEF Cap
<1>4. c.stale = d.stale => Cap(c.stale, DemoteTicks) = Cap(d.stale, DemoteTicks)
  OBVIOUS
<1>5. v = "fresh" \/ v = "stale" \/ v = "none"
  BY DEF Verdicts
<1> QED
  BY <1>1, <1>2, <1>3, <1>4, <1>5 DEF Count

\* m is demoted by a controller that was b and has counted to n.
Demoted(m, M, seen, b, n) ==
  IF m \notin M \/ seen[m] = "none" THEN m \in b.demoted
  ELSE IF seen[m] = "fresh" THEN m \in b.demoted /\ n[m].fresh < RestoreTicks
       ELSE m \in b.demoted \/ n[m].stale >= DemoteTicks

\* a is b after a tick that counted the verdicts of the members M.
Counted(a, b, M, seen) ==
  /\ a.seeded = b.seeded
  /\ \A m \in Members :
       a.count[m] = IF m \in M THEN Count(b.count[m], seen[m]) ELSE b.count[m]
  /\ \A m \in Members : m \in a.demoted <=> Demoted(m, M, seen, b, a.count)

\* Step counts the members of the configured set.
LEMMA StepIs ==
  ASSUME NEW b \in Controller, NEW c \in Orders, NEW seen \in [Members -> Verdicts]
  PROVE  Step(b, c, seen) \in Controller /\ Counted(Step(b, c, seen), b, ToSet(c), seen)
<1> DEFINE n == [m \in Members |-> IF m \in ToSet(c) THEN Count(b.count[m], seen[m]) ELSE b.count[m]]
           D == {m \in Members : Demoted(m, ToSet(c), seen, b, n)}
           a == [b EXCEPT !.count = n, !.demoted = D]
<1>1. Step(b, c, seen) = a
  BY DEF Step, Demoted
<1>2. n \in [Members -> RunType]
  <2>1. \A m \in Members : b.count[m] \in RunType /\ seen[m] \in Verdicts
    BY DEF Controller
  <2> QED
    BY <2>1, CountTyped
<1>3. D \in SUBSET Members
  OBVIOUS
<1> HIDE DEF D
<1>4. \A m \in Members : n[m] = IF m \in ToSet(c) THEN Count(b.count[m], seen[m]) ELSE b.count[m]
  OBVIOUS
<1> HIDE DEF n
<1>5. a \in Controller /\ a.count = n /\ a.demoted = D /\ a.seeded = b.seeded
  BY <1>2, <1>3 DEF Controller
<1> HIDE DEF a
<1>6. \A m \in Members : m \in a.demoted <=> Demoted(m, ToSet(c), seen, b, n)
  BY <1>5 DEF D
<1> QED
  BY <1>1, <1>4, <1>5, <1>6 DEF Counted

\* A controller at its first tick takes over the demotion of the row.
LEMMA SeedIs ==
  ASSUME NEW f \in Controller, NEW d, ToSet(d) \subseteq Members
  PROVE  LET b == seedDemoted(f, d)
         IN  /\ b \in Controller /\ b.seeded = TRUE /\ b.count = f.count
             /\ f.demoted \subseteq b.demoted
             /\ f.seeded = TRUE => b.demoted = f.demoted
             /\ f.seeded # TRUE => ToSet(d) \subseteq b.demoted
<1>1. f.seeded \in BOOLEAN /\ f.demoted \in SUBSET Members /\ f.count \in [Members -> RunType]
  BY DEF Controller
<1>2. CASE f.seeded = TRUE
  BY <1>2 DEF seedDemoted
<1>3. CASE f.seeded = FALSE
  <2>1. seedDemoted(f, d) = [f EXCEPT !.seeded = TRUE, !.demoted = @ \cup ToSet(d)]
    BY <1>3 DEF seedDemoted
  <2> QED
    BY <1>1, <1>3, <2>1 DEF Controller
<1> QED
  BY <1>1, <1>2, <1>3

\* What an order has for members and length.
LEMMA OrdersAre ==
  ASSUME NEW s \in Orders
  PROVE  ToSet(s) \subseteq Members /\ Len(s) \in Nat
<1>1. PICK k \in 0..Cardinality(Members) : s \in [1..k -> Members]
  BY DEF Orders, SeqOf
<1>2. Cardinality(Members) \in Nat
  BY Bounds, FS_CardinalityType
<1>3. Len(s) = k
  BY <1>1, <1>2
<1> QED
  BY <1>1, <1>2, <1>3 DEF ToSet

\* The empty set is in order.
LEMMA NothingOrdered == << >> \in Orders /\ ToSet(<< >>) = {} /\ Len(<< >>) = 0
<1>1. Cardinality(Members) \in Nat
  BY Bounds, FS_CardinalityType
<1>2. << >> \in [1..0 -> Members] /\ 0 \in 0..Cardinality(Members)
  BY <1>1
<1>3. << >> \in SeqOf(Members, Cardinality(Members))
  BY <1>2 DEF SeqOf
<1> QED
  BY <1>2, <1>3 DEF Orders, IsInjective, ToSet

-----------------------------------------------------------------------------
(* The tick.                                                               *)

\* What a tick of r does: it seeds its controller to b, counts the members M
\* to a, and has the row x to write, if it is another.
Ticked(r, seen, b, a, M, x) ==
  /\ b.seeded = TRUE /\ b.count = fc[r].count
  /\ fc[r].demoted \subseteq b.demoted
  /\ fc[r].seeded = TRUE => b.demoted = fc[r].demoted
  /\ fc[r].seeded # TRUE => ToSet(row.demoted) \subseteq b.demoted
  /\ Counted(a, b, M, seen)
  /\ ToSet(x.demoted) \subseteq a.demoted
  /\ Len(x.configured) > 1 => ToSet(x.configured) \cap a.demoted \subseteq ToSet(x.demoted)
  /\ Witness(M, seen, b.demoted \ fc[r].demoted, b.demoted \ a.demoted)
  /\ fc' = [fc EXCEPT ![r] = a]
  /\ tick' = [tick EXCEPT ![r] = IF x = row THEN Idle
                                  ELSE [at |-> "write", current |-> row, next |-> x]]
  /\ tick[r] = Idle
  /\ UNCHANGED <<gw, row, leader, req, troubles>>

\* Tick does what Ticked says, whatever the election gave.
LEMMA TickIs ==
  ASSUME TypeOK, NEW r \in Replicas, NEW seen \in [Members -> Verdicts], Tick(r, seen)
  PROVE  \E b \in Controller, a \in Controller, M \in SUBSET Members, x \in RowType :
           Ticked(r, seen, b, a, M, x)
<1> DEFINE c == electSiteHubSet[gw]
           several == Len(c) >= 2
           b == seedDemoted(fc[r], row.demoted)
           a == IF several THEN Step(b, c, seen) ELSE b
           M == IF several THEN ToSet(c) ELSE {}
           d == IF several THEN DemotedOrder[c][a.demoted] ELSE << >>
           x == [configured |-> c, demoted |-> d]
<1>1. /\ gw \in Gateways /\ row \in RowType /\ fc[r] \in Controller
  BY DEF TypeOK
<1>2. row.demoted \in Orders
  BY <1>1 DEF RowType
<1>3. c \in Orders
  BY <1>1, ElectTyped
<1>4. ToSet(c) \subseteq Members /\ Len(c) \in Nat /\ ToSet(row.demoted) \subseteq Members
  BY <1>2, <1>3, OrdersAre
<1>5. /\ b \in Controller /\ b.seeded = TRUE /\ b.count = fc[r].count
      /\ fc[r].demoted \subseteq b.demoted
      /\ fc[r].seeded = TRUE => b.demoted = fc[r].demoted
      /\ fc[r].seeded # TRUE => ToSet(row.demoted) \subseteq b.demoted
  BY <1>1, <1>4, SeedIs
<1>6. /\ tick[r] = Idle
      /\ UNCHANGED <<gw, row, leader, req, troubles>>
      /\ Witness(M, seen, b.demoted \ fc[r].demoted, b.demoted \ a.demoted)
      /\ fc' = [fc EXCEPT ![r] = a]
      /\ tick' = [tick EXCEPT ![r] = IF x = row THEN Idle
                                      ELSE [at |-> "write", current |-> row, next |-> x]]
  <2> HIDE DEF b
  <2>1. failoverOrg(r, b, seen)
    BY DEF Tick, b
  <2>2. tick[r] = Idle /\ UNCHANGED <<gw, row, leader, req, troubles>>
    BY <2>1 DEF failoverOrg
  <2>3. PICK c1 \in {c} : \E a1 \in {IF Len(c1) >= 2 THEN Step(b, c1, seen) ELSE b} :
          LET d1 == IF Len(c1) >= 2 THEN DemotedOrder[c1][a1.demoted] ELSE << >>
              x1 == [configured |-> c1, demoted |-> d1]
          IN  /\ Witness(IF Len(c1) >= 2 THEN ToSet(c1) ELSE {},
                         seen, b.demoted \ fc[r].demoted, b.demoted \ a1.demoted)
              /\ fc' = [fc EXCEPT ![r] = a1]
              /\ tick' = [tick EXCEPT ![r] = IF x1 = row THEN Idle
                                    ELSE [at |-> "write", current |-> row, next |-> x1]]
    BY <2>1, Zenon DEF failoverOrg
  <2>4. c1 = c
    OBVIOUS
  <2>5. PICK a1 \in {a} :
              /\ Witness(M, seen, b.demoted \ fc[r].demoted, b.demoted \ a1.demoted)
              /\ fc' = [fc EXCEPT ![r] = a1]
              /\ tick' = [tick EXCEPT ![r] =
                   IF [configured |-> c,
                       demoted |-> IF several THEN DemotedOrder[c][a1.demoted] ELSE << >>] = row
                   THEN Idle
                   ELSE [at |-> "write", current |-> row,
                         next |-> [configured |-> c,
                                   demoted |-> IF several THEN DemotedOrder[c][a1.demoted]
                                               ELSE << >>]]]
    BY <2>3, <2>4, Zenon
  <2>6. a1 = a
    OBVIOUS
  <2> QED
    BY <2>2, <2>5, <2>6, Zenon
<1> HIDE DEF b, c
<1>7. a \in Controller /\ Counted(a, b, M, seen)
  <2>1. CASE several
    BY <1>3, <1>5, <2>1, StepIs
  <2>2. CASE ~several
    BY <1>5, <2>2 DEF Counted, Demoted
  <2> QED
    BY <2>1, <2>2
<1>8. M \in SUBSET Members
  BY <1>4
<1> HIDE DEF a, M
<1>9. a.demoted \in SUBSET Members
  BY <1>7 DEF Controller
<1>10. /\ d \in Orders /\ ToSet(d) \subseteq a.demoted
       /\ Len(c) > 1 => ToSet(c) \cap a.demoted \subseteq ToSet(d)
  <2>1. CASE several
    BY <1>3, <1>9, <2>1, DemotedTyped
  <2>2. CASE ~several
    BY <1>4, <2>2, NothingOrdered
  <2> QED
    BY <2>1, <2>2
<1> HIDE DEF d
<1>11. x \in RowType /\ x.configured = c /\ x.demoted = d
  BY <1>3, <1>10 DEF RowType
<1> HIDE DEF x
<1>12. Ticked(r, seen, b, a, M, x)
  BY <1>5, <1>6, <1>7, <1>10, <1>11 DEF Ticked
<1> QED
  BY <1>5, <1>7, <1>8, <1>11, <1>12

-----------------------------------------------------------------------------
(* Type correctness, for any number of replicas.                           *)

\* The initial values have their types.
LEMMA NewTyped == NewFailoverController \in Controller /\ NewRun \in RunType
<1>1. NewRun \in RunType
  BY Bounds DEF NewRun, RunType
<1> QED
  BY <1>1 DEF NewFailoverController, Controller

\* The values of rest have their types.
LEMMA IdleTyped == Idle \in TickState /\ NoRequest \in Request /\ NoRow \in RowType
  BY NothingOrdered DEF Idle, TickState, NoRequest, Request, NoRow, RowType

\* The start has its type.
LEMMA InitTyped == Init => TypeOK
<1> SUFFICES ASSUME Init PROVE TypeOK
  OBVIOUS
<1>1. gw \in Gateways
  BY Bounds DEF Init, Gateways, Gateway
<1>2. row \in RowType
  BY <1>1, ElectTyped, NothingOrdered DEF Init, RowType
<1>3. fc \in [Replicas -> Controller] /\ tick \in [Replicas -> TickState] /\ req \in [Handlers -> Request]
  BY NewTyped, IdleTyped DEF Init
<1>4. runs \in [Members -> RunType]
  BY NewTyped DEF Init
<1> QED
  BY <1>1, <1>2, <1>3, <1>4, Bounds DEF Init, TypeOK

\* The tick keeps the types.
LEMMA TickTyped ==
  ASSUME TypeOK, NEW r \in Replicas, NEW seen \in [Members -> Verdicts], Tick(r, seen)
  PROVE  TypeOK'
<1>1. PICK b \in Controller, a \in Controller, M \in SUBSET Members, x \in RowType :
        Ticked(r, seen, b, a, M, x)
  BY TickIs
<1>2. fc' \in [Replicas -> Controller]
  BY <1>1 DEF Ticked, TypeOK
<1>3. tick' \in [Replicas -> TickState]
  <2>1. [at |-> "write", current |-> row, next |-> x] \in TickState
    BY <1>1 DEF TypeOK, TickState
  <2> QED
    BY <1>1, <2>1, IdleTyped DEF Ticked, TypeOK
<1>4. runs' \in [Members -> RunType]
  <2>1. \A m \in Members : Count(runs[m], seen[m]) \in RunType /\ runs[m] \in RunType
    BY CountTyped DEF TypeOK
  <2> QED
    BY <1>1, <2>1 DEF Ticked, Witness
<1>5. convicted' \in SUBSET Members /\ cleared' \in SUBSET Members
  <2>1. b.demoted \in SUBSET Members /\ M \in SUBSET Members
    BY DEF Controller
  <2> QED
    BY <1>1, <2>1 DEF Ticked, Witness, TypeOK
<1> QED
  BY <1>1, <1>2, <1>3, <1>4, <1>5 DEF Ticked, TypeOK

\* Every action keeps the types.
LEMMA StepTyped == TypeOK /\ [Next]_vars => TypeOK'
<1> SUFFICES ASSUME TypeOK, [Next]_vars PROVE TypeOK'
  OBVIOUS
<1>1. ASSUME NEW r \in Replicas, NEW seen \in [Members -> Verdicts], Tick(r, seen) PROVE TypeOK'
  BY <1>1, TickTyped
<1>2. ASSUME NEW r \in Replicas, TickWrite(r) PROVE TypeOK'
  <2>1. tick[r].next \in RowType /\ row \in RowType
    BY DEF TypeOK, TickState
  <2>2. row' \in RowType
    BY <1>2, <2>1 DEF TickWrite, RowType
  <2> QED
    BY <1>2, <2>2, IdleTyped DEF TickWrite, TypeOK, history
<1>3. ASSUME NEW r \in Replicas, TickFail(r) PROVE TypeOK'
  BY <1>3, IdleTyped, Bounds DEF TickFail, Trouble, TypeOK, history
<1>4. ASSUME NEW r \in Replicas, Restart(r) PROVE TypeOK'
  BY <1>4, IdleTyped, NewTyped, Bounds DEF Restart, Trouble, TypeOK, history
<1>5. ASSUME NEW r \in Replicas, GainLeadership(r) PROVE TypeOK'
  BY <1>5 DEF GainLeadership, TypeOK, history
<1>6. CASE LoseLeadership
  BY <1>6, Bounds DEF LoseLeadership, Trouble, TypeOK, history
<1>7. ASSUME NEW h \in Handlers, NEW m \in Members, Edit(h, m) PROVE TypeOK'
  <2>1. gw' \in Gateways
    BY <1>7 DEF Edit, TypeOK, Gateways, Gateway
  <2>2. [NoRequest EXCEPT !.at = "edited"] \in Request
    BY IdleTyped DEF Request
  <2> QED
    BY <1>7, <2>1, <2>2, Bounds DEF Edit, Trouble, TypeOK, history
<1>8. ASSUME NEW h \in Handlers, ReconcileRead(h) PROVE TypeOK'
  <2>1. [at |-> "write", configured |-> electSiteHubSet[gw]] \in Request
    BY ElectTyped DEF TypeOK, Request
  <2> QED
    BY <1>8, <2>1 DEF ReconcileRead, TypeOK, history
<1>9. ASSUME NEW h \in Handlers, ReconcileWrite(h) PROVE TypeOK'
  <2>1. req[h].configured \in Orders /\ row \in RowType
    BY DEF TypeOK, Request
  <2>2. row' \in RowType
    BY <1>9, <2>1 DEF ReconcileWrite, RowType
  <2> QED
    BY <1>9, <2>2, IdleTyped DEF ReconcileWrite, TypeOK, history
<1>10. ASSUME NEW h \in Handlers, ReconcileFail(h) PROVE TypeOK'
  BY <1>10, IdleTyped, Bounds DEF ReconcileFail, Trouble, TypeOK, history
<1>11. ASSUME NEW m \in Members, Report(m) PROVE TypeOK'
  <2>1. gw' \in Gateways
    BY <1>11 DEF Report, TypeOK, Gateways, Gateway
  <2> QED
    BY <1>11, <2>1, Bounds DEF Report, Trouble, TypeOK, history
<1>12. CASE UNCHANGED vars
  BY <1>12 DEF vars, TypeOK
<1> QED
  BY <1>1, <1>2, <1>3, <1>4, <1>5, <1>6, <1>7, <1>8, <1>9, <1>10, <1>11, <1>12 DEF Next

\* The row, the controllers and the requests keep their types, for any number
\* of replicas and gateways: elections and demotions are sequences of members
\* without repetition.
THEOREM TypeCorrect == Spec => []TypeOK
<1> QED
  BY InitTyped, StepTyped, PTL DEF Spec

-----------------------------------------------------------------------------
(* Demotions and restorations, for one replica.                            *)

OneReplica == \A r, s \in Replicas : r = s

\* A controller has demoted nobody that was not convicted, has counted no more
\* than all ticks saw, and has demoted whom it counted out.
ControllerInv ==
  \A r \in Replicas :
    /\ fc[r].demoted \subseteq convicted
    /\ \A m \in Members :
         /\ fc[r].count[m].stale <= runs[m].stale
         /\ fc[r].count[m].fresh <= runs[m].fresh
         /\ fc[r].count[m].stale >= DemoteTicks => m \in fc[r].demoted

\* A member that the row still demotes and the controller does not any more,
\* since the write of its restoration has not been done or has failed, is
\* cleared, and the controller misses no stale verdict of it.
SeedInv ==
  \A r \in Replicas : fc[r].seeded = TRUE =>
    \A m \in ToSet(row.demoted) \ fc[r].demoted :
      m \in cleared /\ runs[m].stale = fc[r].count[m].stale

\* The row a tick is about to write demotes whom its controller demotes.
WriteInv ==
  \A r \in Replicas : tick[r].at = "write" =>
    /\ fc[r].seeded = TRUE
    /\ ToSet(tick[r].next.demoted) \subseteq fc[r].demoted
    /\ Len(tick[r].next.configured) > 1 =>
         ToSet(tick[r].next.configured) \cap fc[r].demoted
           \subseteq ToSet(tick[r].next.demoted)

IInv == TypeOK /\ ControllerInv /\ SeedInv /\ WriteInv

\* The start satisfies the invariant.
LEMMA InitIInv == Init => IInv
<1> SUFFICES ASSUME Init PROVE IInv
  OBVIOUS
<1>1. TypeOK
  BY InitTyped
<1>2. DemoteTicks \in Nat \ {0}
  BY Bounds
<1>3. ASSUME NEW r \in Replicas
      PROVE  /\ fc[r].demoted = {} /\ fc[r].seeded = FALSE /\ tick[r].at = "idle"
             /\ \A m \in Members : fc[r].count[m] = NewRun /\ runs[m] = NewRun
  BY DEF Init, NewFailoverController, Idle
<1>4. NewRun.stale = 0 /\ NewRun.fresh = 0
  BY DEF NewRun
<1>5. ControllerInv
  <2>1. ~(0 >= DemoteTicks)
    BY <1>2
  <2> SUFFICES ASSUME NEW r \in Replicas, NEW m \in Members
               PROVE  /\ fc[r].count[m].stale <= runs[m].stale
                      /\ fc[r].count[m].fresh <= runs[m].fresh
                      /\ ~(fc[r].count[m].stale >= DemoteTicks)
    BY <1>3 DEF ControllerInv
  <2>2. /\ fc[r].count[m].stale = 0 /\ fc[r].count[m].fresh = 0
        /\ runs[m].stale = 0 /\ runs[m].fresh = 0
    BY <1>3, <1>4
  <2> QED
    BY <2>1, <2>2
<1>6. SeedInv /\ WriteInv
  BY <1>3 DEF SeedInv, WriteInv
<1> QED
  BY <1>1, <1>5, <1>6 DEF IInv

\* A tick preserves the invariant: what its controller demotes it has seen
\* stale as often as all ticks did, and the same of a restoration.
LEMMA TickIInv ==
  ASSUME OneReplica, IInv, NEW r \in Replicas, NEW seen \in [Members -> Verdicts], Tick(r, seen)
  PROVE  IInv'
<1>1. PICK b \in Controller, a \in Controller, M \in SUBSET Members, x \in RowType :
        Ticked(r, seen, b, a, M, x)
  BY TickIs DEF IInv
<1>2. TypeOK'
  BY TickTyped DEF IInv
<1>3. \A s \in Replicas : s = r
  BY DEF OneReplica
<1>4. fc'[r] = a /\ row' = row
  BY <1>1 DEF Ticked, IInv, TypeOK
<1> DEFINE n(m) == IF m \in M THEN Count(runs[m], seen[m]) ELSE runs[m]
           f == fc[r]
<1>5. /\ \A m \in Members : runs'[m] = n(m)
      /\ convicted' = ((convicted \cup (b.demoted \ f.demoted)) \ (b.demoted \ a.demoted))
                         \cup {m \in M : n(m).stale >= DemoteTicks}
      /\ cleared' = (cleared \cup {m \in M : n(m).fresh >= RestoreTicks})
                         \ {m \in M : n(m).stale >= DemoteTicks}
  BY <1>1 DEF Ticked, Witness
<1>6. ASSUME NEW m \in Members
      PROVE  /\ runs[m] \in RunType /\ b.count[m] \in RunType /\ seen[m] \in Verdicts
             /\ b.count[m].stale <= runs[m].stale /\ b.count[m].fresh <= runs[m].fresh
             /\ b.count[m].stale >= DemoteTicks => m \in b.demoted
  <2>1. f.count[m].stale <= runs[m].stale /\ f.count[m].fresh <= runs[m].fresh
    BY DEF IInv, ControllerInv
  <2>2. f.count[m].stale >= DemoteTicks => m \in f.demoted
    BY DEF IInv, ControllerInv
  <2>3. b.count = f.count /\ f.demoted \subseteq b.demoted
    BY <1>1 DEF Ticked
  <2> QED
    BY <2>1, <2>2, <2>3 DEF IInv, TypeOK, Controller
<1>7. ASSUME NEW m \in Members
      PROVE  /\ a.count[m] = IF m \in M THEN Count(b.count[m], seen[m]) ELSE b.count[m]
             /\ m \in a.demoted <=> Demoted(m, M, seen, b, a.count)
  BY <1>1 DEF Ticked, Counted
<1>8. ASSUME NEW m \in Members
      PROVE  /\ a.count[m] \in RunType /\ n(m) \in RunType
             /\ a.count[m].stale <= n(m).stale /\ a.count[m].fresh <= n(m).fresh
             /\ b.count[m].stale = runs[m].stale => a.count[m].stale = n(m).stale
  <2>1. CASE m \in M
    <3>1. a.count[m] = Count(b.count[m], seen[m]) /\ n(m) = Count(runs[m], seen[m])
      BY <1>7, <2>1
    <3>2. Count(b.count[m], seen[m]) \in RunType /\ Count(runs[m], seen[m]) \in RunType
      BY <1>6, CountTyped
    <3> HIDE DEF n
    <3> QED
      BY <1>6, <3>1, <3>2, CountMonotone
  <2>2. CASE m \notin M
    <3>1. a.count[m] = b.count[m] /\ n(m) = runs[m]
      BY <1>7, <2>2
    <3> HIDE DEF n
    <3> QED
      BY <1>6, <3>1
  <2> QED
    BY <2>1, <2>2
<1>9. ASSUME NEW m \in M
      PROVE  /\ seen[m] = "fresh" => a.count[m].stale = 0 /\ n(m).stale = 0
             /\ seen[m] = "none" => a.count[m] = b.count[m] /\ n(m) = runs[m]
  BY <1>6, <1>7, CountMonotone
<1>10. ASSUME NEW m \in Members PROVE seen[m] = "fresh" \/ seen[m] = "stale" \/ seen[m] = "none"
  BY <1>6 DEF Verdicts
<1>11. /\ DemoteTicks \in Nat /\ DemoteTicks > 0 /\ RestoreTicks \in Nat
       /\ \A m \in Members : /\ n(m).stale \in Nat /\ n(m).fresh \in Nat
                              /\ a.count[m].stale \in Nat /\ a.count[m].fresh \in Nat
                              /\ b.count[m].stale \in Nat
  BY <1>6, <1>8, Bounds DEF RunType
<1> HIDE DEF n
<1>12. a.demoted \subseteq convicted'
  <2> SUFFICES ASSUME NEW m \in a.demoted PROVE m \in convicted'
    OBVIOUS
  <2>1. m \in Members
    BY DEF Controller
  <2>2. CASE m \in b.demoted
    <3>1. f.demoted \subseteq convicted
      BY DEF IInv, ControllerInv
    <3> QED
      BY <1>5, <2>2, <3>1
  <2>3. CASE m \notin b.demoted
    <3>1. m \in M /\ a.count[m].stale >= DemoteTicks
      BY <1>7, <2>1, <2>3 DEF Demoted
    <3>2. n(m).stale >= DemoteTicks
      BY <1>8, <1>11, <2>1, <3>1
    <3> QED
      BY <1>5, <3>1, <3>2
  <2> QED
    BY <2>2, <2>3
<1>13. ASSUME NEW m \in Members, a.count[m].stale >= DemoteTicks PROVE m \in a.demoted
  <2>1. CASE m \notin M \/ seen[m] = "none"
    BY <1>6, <1>7, <1>9, <1>13, <2>1 DEF Demoted
  <2>2. CASE m \in M /\ seen[m] = "fresh"
    BY <1>9, <1>11, <1>13, <2>2
  <2>3. CASE m \in M /\ seen[m] = "stale"
    BY <1>7, <1>13, <2>3 DEF Demoted
  <2> QED
    BY <1>10, <2>1, <2>2, <2>3
<1>14. ControllerInv'
  <2>1. \A m \in Members : /\ a.count[m].stale <= runs'[m].stale
                           /\ a.count[m].fresh <= runs'[m].fresh
    BY <1>5, <1>8
  <2> QED
    BY <1>3, <1>4, <1>12, <1>13, <2>1 DEF ControllerInv
<1>15. ASSUME NEW m \in ToSet(row.demoted) \ a.demoted
       PROVE  m \in cleared' /\ runs'[m].stale = a.count[m].stale
  <2>1. m \in Members
    BY OrdersAre DEF IInv, TypeOK, RowType
  <2>2. CASE m \in b.demoted
    <3>1. m \in M /\ seen[m] = "fresh" /\ ~(a.count[m].fresh < RestoreTicks)
      BY <1>7, <1>10, <1>15, <2>1, <2>2 DEF Demoted
    <3>2. n(m).fresh >= RestoreTicks /\ n(m).stale = 0 /\ a.count[m].stale = 0
      BY <1>8, <1>9, <1>11, <2>1, <3>1
    <3>3. ~(n(m).stale >= DemoteTicks)
      BY <1>11, <3>2
    <3> QED
      BY <1>5, <2>1, <3>1, <3>2, <3>3
  <2>3. CASE m \notin b.demoted
    <3>1. f.seeded = TRUE /\ b.demoted = f.demoted /\ b.count = f.count
      BY <1>1, <1>15, <2>3 DEF Ticked
    <3>2. m \in cleared /\ runs[m].stale = b.count[m].stale
      BY <1>15, <2>3, <3>1 DEF IInv, SeedInv
    <3>3. a.count[m].stale = n(m).stale
      BY <1>8, <2>1, <3>2
    <3>4. ~(n(m).stale >= DemoteTicks)
      BY <1>13, <1>15, <2>1, <3>3
    <3> QED
      BY <1>5, <2>1, <3>2, <3>3, <3>4
  <2> QED
    BY <2>2, <2>3
<1>16. SeedInv'
  BY <1>3, <1>4, <1>15 DEF SeedInv
<1>17. WriteInv'
  <2>1. a.seeded = TRUE
    BY <1>1 DEF Ticked, Counted
  <2>2. tick'[r] = IF x = row THEN Idle ELSE [at |-> "write", current |-> row, next |-> x]
    BY <1>1 DEF Ticked, IInv, TypeOK
  <2>3. tick'[r].at = "write" => tick'[r].next = x
    BY <2>2 DEF Idle
  <2>4. /\ ToSet(x.demoted) \subseteq a.demoted
        /\ Len(x.configured) > 1 => ToSet(x.configured) \cap a.demoted \subseteq ToSet(x.demoted)
    BY <1>1 DEF Ticked
  <2> QED
    BY <1>3, <1>4, <2>1, <2>3, <2>4 DEF WriteInv
<1> QED
  BY <1>2, <1>14, <1>16, <1>17 DEF IInv

\* So does every other action of the only replica.
LEMMA StepIInv == OneReplica /\ IInv /\ [Next]_vars => IInv'
<1> SUFFICES ASSUME OneReplica, IInv, [Next]_vars PROVE IInv'
  OBVIOUS
<1>1. TypeOK'
  BY StepTyped DEF IInv
<1>2. ASSUME NEW r \in Replicas, NEW seen \in [Members -> Verdicts], Tick(r, seen) PROVE IInv'
  BY <1>2, TickIInv
<1>3. ASSUME NEW r \in Replicas, TickWrite(r) PROVE IInv'
  <2>1. UNCHANGED <<fc, runs, convicted, cleared>> /\ tick'[r] = Idle
    BY <1>3 DEF TickWrite, history, IInv, TypeOK
  <2>2. \A s \in Replicas : s = r
    BY DEF OneReplica
  <2>3. ControllerInv'
    BY <2>1 DEF IInv, ControllerInv
  <2>4. WriteInv'
    BY <2>1, <2>2 DEF WriteInv, Idle
  <2>5. ToSet(row'.demoted) \ fc[r].demoted \subseteq ToSet(row.demoted) \ fc[r].demoted
    <3>1. row'.demoted = row.demoted \/ row'.demoted = tick[r].next.demoted
      BY <1>3 DEF TickWrite
    <3>2. ToSet(tick[r].next.demoted) \subseteq fc[r].demoted
      BY <1>3 DEF TickWrite, IInv, WriteInv
    <3>3. CASE row'.demoted = row.demoted
      BY <3>3
    <3>4. CASE row'.demoted = tick[r].next.demoted
      BY <3>2, <3>4
    <3> QED
      BY <3>1, <3>3, <3>4
  <2>6. SeedInv'
    BY <2>1, <2>2, <2>5 DEF IInv, SeedInv
  <2> QED
    BY <1>1, <2>3, <2>4, <2>6 DEF IInv
<1>4. ASSUME NEW r \in Replicas, TickFail(r) PROVE IInv'
  <2>1. UNCHANGED <<row, fc, runs, convicted, cleared>> /\ tick'[r] = Idle
    BY <1>4 DEF TickFail, history, IInv, TypeOK
  <2>2. \A s \in Replicas : s = r
    BY DEF OneReplica
  <2> QED
    BY <1>1, <2>1, <2>2 DEF IInv, ControllerInv, SeedInv, WriteInv, Idle
<1>5. ASSUME NEW r \in Replicas, Restart(r) PROVE IInv'
  <2>1. /\ UNCHANGED <<row, runs, convicted, cleared>> /\ tick'[r] = Idle
        /\ fc'[r] = NewFailoverController
    BY <1>5 DEF Restart, history, IInv, TypeOK
  <2>2. \A s \in Replicas : s = r
    BY DEF OneReplica
  <2>3. /\ fc'[r].demoted = {} /\ fc'[r].seeded = FALSE
        /\ \A m \in Members : fc'[r].count[m].stale = 0 /\ fc'[r].count[m].fresh = 0
    BY <2>1 DEF NewFailoverController, NewRun
  <2>4. \A m \in Members : runs[m].stale \in Nat /\ runs[m].fresh \in Nat
    BY Bounds DEF IInv, TypeOK, RunType
  <2>5. ControllerInv'
    BY <2>1, <2>2, <2>3, <2>4, Bounds DEF ControllerInv
  <2> QED
    BY <1>1, <2>1, <2>2, <2>3, <2>5 DEF IInv, SeedInv, WriteInv, Idle
<1>6. ASSUME UNCHANGED <<fc, tick, runs, convicted, cleared>>, row'.demoted = row.demoted
      PROVE  IInv'
  BY <1>1, <1>6 DEF IInv, ControllerInv, SeedInv, WriteInv
<1>7. ASSUME NEW r \in Replicas, GainLeadership(r) PROVE IInv'
  BY <1>6, <1>7 DEF GainLeadership, history
<1>8. CASE LoseLeadership
  BY <1>6, <1>8 DEF LoseLeadership, history
<1>9. ASSUME NEW h \in Handlers, NEW m \in Members, Edit(h, m) PROVE IInv'
  BY <1>6, <1>9 DEF Edit, history
<1>10. ASSUME NEW h \in Handlers, ReconcileRead(h) PROVE IInv'
  BY <1>6, <1>10 DEF ReconcileRead, history
<1>11. ASSUME NEW h \in Handlers, ReconcileWrite(h) PROVE IInv'
  <2>1. row'.demoted = row.demoted
    BY <1>11 DEF ReconcileWrite, IInv, TypeOK, RowType
  <2> QED
    BY <1>6, <1>11, <2>1 DEF ReconcileWrite, history
<1>12. ASSUME NEW h \in Handlers, ReconcileFail(h) PROVE IInv'
  BY <1>6, <1>12 DEF ReconcileFail, history
<1>13. ASSUME NEW m \in Members, Report(m) PROVE IInv'
  BY <1>6, <1>13 DEF Report, history
<1>14. CASE UNCHANGED vars
  BY <1>6, <1>14 DEF vars
<1> QED
  BY <1>2, <1>3, <1>4, <1>5, <1>7, <1>8, <1>9, <1>10, <1>11, <1>12, <1>13, <1>14 DEF Next

\* The invariant holds throughout.
LEMMA Inductive == ASSUME OneReplica PROVE Spec => []IInv
<1>1. OneReplica
  OBVIOUS
<1> QED
  BY <1>1, InitIInv, StepIInv, PTL DEF Spec

-----------------------------------------------------------------------------

\* Only the transaction of a tick changes the demotion of the row.
LEMMA OnlyTickDemotes ==
  ASSUME TypeOK, [Next]_vars, row'.demoted # row.demoted
  PROVE  \E r \in Replicas : TickWrite(r) /\ row'.demoted = tick[r].next.demoted
<1>1. ~UNCHANGED vars
  BY DEF vars
<1>2. ASSUME NEW h \in Handlers PROVE ~ReconcileWrite(h)
  BY DEF ReconcileWrite, TypeOK, RowType
<1>3. ASSUME NEW r \in Replicas, NEW seen \in [Members -> Verdicts] PROVE ~Tick(r, seen)
  BY DEF Tick, failoverOrg
<1>4. PICK r \in Replicas : TickWrite(r)
  BY <1>1, <1>2, <1>3
     DEF Next, TickFail, Restart, GainLeadership, LoseLeadership, Edit, ReconcileRead, ReconcileFail, Report
<1> QED
  BY <1>4 DEF TickWrite

\* With one replica, a member is demoted in the row only after DemoteTicks
\* stale ticks in a row since its last restoration, or taken over by a
\* restarted process, for any number of gateways, requests, restarts, failed
\* transactions and edits.
THEOREM DemotionTheorem == ASSUME OneReplica PROVE Spec => NoSpuriousDemotion
<1>1. ASSUME IInv, [Next]_vars, NEW m \in Members, m \in ToSet(row'.demoted) \ ToSet(row.demoted)
      PROVE  m \in convicted
  <2>1. PICK r \in Replicas : TickWrite(r) /\ row'.demoted = tick[r].next.demoted
    BY <1>1, OnlyTickDemotes DEF IInv
  <2> QED
    BY <1>1, <2>1 DEF TickWrite, IInv, WriteInv, ControllerInv
<1>2. IInv /\ [Next]_vars =>
        [\A m \in Members :
           m \in ToSet(row'.demoted) \ ToSet(row.demoted) => m \in convicted]_vars
  BY <1>1
<1>3. Spec => []IInv
  BY Inductive
<1> QED
  BY <1>2, <1>3, PTL DEF Spec, NoSpuriousDemotion

\* With one replica, a tick restores a member of the set it elected only after
\* RestoreTicks fresh ticks in a row since its last stale run.
THEOREM RestoreTheorem == ASSUME OneReplica PROVE Spec => RestoreWitnessed
<1> DEFINE Restored ==
      \A r \in Replicas, m \in ToSet(row.demoted) \ ToSet(row'.demoted) :
          LET elected == tick[r].next.configured
          IN  tick'[r] # tick[r] /\ m \in ToSet(elected) /\ Len(elected) > 1
                => m \in cleared
<1>1. ASSUME IInv, [Next]_vars PROVE Restored
  <2> SUFFICES ASSUME NEW r \in Replicas, NEW m \in ToSet(row.demoted) \ ToSet(row'.demoted),
                      m \in ToSet(tick[r].next.configured), Len(tick[r].next.configured) > 1
               PROVE  m \in cleared
    OBVIOUS
  <2>1. PICK s \in Replicas : TickWrite(s) /\ row'.demoted = tick[s].next.demoted
    BY <1>1, OnlyTickDemotes DEF IInv
  <2>2. s = r
    BY DEF OneReplica
  <2>3. tick[r].at = "write"
    BY <2>1, <2>2 DEF TickWrite
  <2>4. m \notin fc[r].demoted /\ fc[r].seeded = TRUE
    BY <1>1, <2>1, <2>2, <2>3 DEF IInv, WriteInv
  <2> QED
    BY <1>1, <2>4 DEF IInv, SeedInv
<1>2. IInv /\ [Next]_vars => [Restored]_vars
  BY <1>1
<1>3. Spec => []IInv
  BY Inductive
<1> QED
  BY <1>2, <1>3, PTL DEF Spec, RestoreWitnessed
=============================================================================
