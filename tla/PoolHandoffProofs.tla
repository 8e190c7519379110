------------------------- MODULE PoolHandoffProofs -------------------------
(***************************************************************************)
(* Proofs about PoolHandoff for any set of members, any clock lag within   *)
(* the margin, and any bound on time, operations and renewals: break       *)
(* before make on the gateways, one owner per generation, releases that    *)
(* hold, and retries that change nothing twice.                            *)
(***************************************************************************)
EXTENDS PoolHandoff, WellFoundedInduction, TLAPS

\* The old owner acknowledged a row of the generation that replaces it.
Withdrawn(o) ==
  \E i \in Rows(o.old) : Row(o.old, i).gen = o.gen /\ Row(o.old, i).receipt # Never

\* What the CAS of an operation rests on.
Released(o) == (o.expAt # Never /\ o.oldExp + Skew <= now) \/ Withdrawn(o)

OpInv ==
  \A k \in DOMAIN ops :
    /\ ops[k].wdAt # Never => Withdrawn(ops[k])
    /\ ops[k].phase \in {"cas_active"} \cup PostCAS => Released(ops[k])

\* n has a row of the k-th operation and of this role.
HasRow(n, k, role) == \E i \in Rows(n) : Row(n, i).op = k /\ Row(n, i).role = role

\* Between its transactions the leader's decision stays good: no other action
\* touches the pool, and the third transaction finds the second's row.
DeferInv ==
  deferred # NoDelivery =>
    /\ deferred.stage \in {"issue", "advance"}
    /\ deferred.phase \in {"prepare_candidate", "await_prepared_ack", "enable_serving"}
    /\ ops # << >> /\ DeferredPoolMatches
    /\ deferred.stage = "advance" => HasRow(Artifact.node, Len(ops), Artifact.role)

\* A row of an operation carries its generation.
RowInv ==
  \A n \in Nodes : \A i \in Rows(n) :
    Row(n, i).op # 0 => Row(n, i).op \in DOMAIN ops /\ Row(n, i).gen = ops[Row(n, i).op].gen

\* A generation that passed was passed on by its owner.
PassedInv ==
  \A n \in Nodes : \A i \in Rows(n) :
    Row(n, i).role = "serving" /\ Row(n, i).gen < gen =>
      \E k \in DOMAIN ops : /\ ops[k].gen = Row(n, i).gen + 1 /\ ops[k].old = n
                            /\ ops[k].phase \in PostCAS

\* What a gateway acknowledged is not ahead of what it applied, and its lease
\* is the row it applied or a newer one it failed to record.
Attests(n) ==
  /\ applied[n] # 0
  /\ \A i \in Rows(n) :
       Row(n, i).receipt # Never =>
         /\ Row(n, i).gen <= Row(n, applied[n]).gen
         /\ i = applied[n] \/ Row(n, i).rev < Row(n, applied[n]).rev
  /\ lease[n] # 0 =>
       /\ Row(n, lease[n]).role = "serving"
       /\ Row(n, lease[n]).gen >= Row(n, applied[n]).gen
       /\ lease[n] = applied[n] \/ Row(n, lease[n]).rev > Row(n, applied[n]).rev

GatewayInv == \A n \in Nodes : Attests(n)

\* RetriesIdempotent in two parts: an artifact has one row, and a phase that
\* waits for one has it.
OnceInv ==
  \A n \in Nodes : \A i, j \in Rows(n) :
    Row(n, i).op = Row(n, j).op /\ Row(n, i).op # 0 /\ Row(n, i).role = Row(n, j).role => i = j

Prepared == {"await_prepared_ack", "await_withdrawal", "cas_active"} \cup PostCAS
Enabled  == {"await_serving_ack", "finalize", "complete"}

AwaitInv ==
  \A k \in DOMAIN ops :
    /\ ops[k].phase \in Prepared => HasRow(ops[k].new, k, "prepared")
    /\ ops[k].phase \in Enabled => HasRow(ops[k].new, k, "serving")

IInv ==
  /\ TypeOK /\ DeferInv /\ RowInv /\ OpInv /\ PassedInv /\ GatewayInv
  /\ OneOwnerPerGeneration /\ OnceInv /\ AwaitInv

-----------------------------------------------------------------------------
(* The tables.                                                             *)

LEMMA Least == ASSUME NEW T, T \subseteq Nat, T # {} PROVE \E x \in T : \A y \in T : x <= y
<1>1. PICK x \in T : \A y \in T : ~(<<y, x>> \in OpToRel(<, Nat))
  BY WFMin, NatLessThanWellFounded
<1>2. \A y \in T : ~(y < x)
  BY <1>1 DEF OpToRel
<1> QED
  BY <1>2

\* Rows and operations have their fields.
LEMMA RowTyped ==
  ASSUME TypeOK, NEW n \in Nodes, NEW i \in Rows(n)
  PROVE  /\ Row(n, i) \in Delivery /\ Row(n, i).role \in {"prepared", "withdrawal", "serving"}
         /\ Row(n, i).gen \in Nat /\ Row(n, i).rev \in Nat /\ Row(n, i).epoch \in Nat
         /\ Row(n, i).exp \in Nat /\ Row(n, i).op \in Nat /\ Row(n, i).receipt \in Stamp
<1>1. deliveries[n] \in Seq(Delivery) /\ i \in DOMAIN deliveries[n]
  BY DEF TypeOK, Rows
<1>2. Row(n, i) \in Delivery
  BY <1>1 DEF Row
<1> QED
  BY <1>2 DEF Delivery

LEMMA OpTyped ==
  ASSUME TypeOK, NEW k \in DOMAIN ops
  PROVE  /\ ops[k] \in Operation /\ ops[k].old \in Nodes /\ ops[k].new \in Nodes
         /\ ops[k].gen \in Nat /\ ops[k].oldExp \in Nat /\ ops[k].exp \in Nat
         /\ ops[k].epoch \in Nat /\ ops[k].oldRev \in Nat /\ ops[k].newRev \in Nat
         /\ ops[k].phase \in Phases /\ ops[k].prepAt \in Stamp /\ ops[k].wdAt \in Stamp
         /\ ops[k].expAt \in Stamp /\ ops[k].servAt \in Stamp
<1>1. ops[k] \in Operation
  BY DEF TypeOK
<1> QED
  BY <1>1 DEF Operation

LEMMA LastOp ==
  ASSUME TypeOK, ops # << >>
  PROVE  Len(ops) \in DOMAIN ops /\ Len(ops) \in Nat \ {0} /\ Op = ops[Len(ops)]
BY DEF TypeOK, Op

LEMMA AckFacts ==
  ASSUME TypeOK, NEW n \in Nodes, NEW role
  PROVE  /\ AckOf(n, role) \in Stamp
         /\ AckOf(n, role) # Never =>
              \E i \in Rows(n) : /\ Row(n, i).op = Len(ops) /\ Row(n, i).role = role
                                 /\ Row(n, i).receipt # Never
<1>1. CASE \E i \in Rows(n) : Row(n, i).op = Len(ops) /\ Row(n, i).role = role
  <2> DEFINE c == CHOOSE i \in Rows(n) : Row(n, i).op = Len(ops) /\ Row(n, i).role = role
  <2>1. c \in Rows(n) /\ Row(n, c).op = Len(ops) /\ Row(n, c).role = role
    BY <1>1
  <2>2. AckOf(n, role) = Row(n, c).receipt
    BY <1>1 DEF AckOf
  <2> HIDE DEF c
  <2>3. Row(n, c).receipt \in Stamp
    BY <2>1, RowTyped
  <2> QED
    BY <2>1, <2>2, <2>3
<1>2. CASE ~\E i \in Rows(n) : Row(n, i).op = Len(ops) /\ Row(n, i).role = role
  BY <1>2 DEF AckOf, Stamp
<1> QED
  BY <1>1, <1>2

\* The lease a claim puts in its operation is one of the owner's rows.
LEMMA OldServingFacts ==
  ASSUME IInv, Capable(active, "serving") # {}
  PROVE  OldServing \in Rows(active)
<1> DEFINE C == Capable(active, "serving")
           m == applied[active]
           T == {Row(active, m).rev - Row(active, i).rev : i \in C}
<1>1. active \in Nodes /\ C \subseteq Rows(active)
  BY DEF IInv, TypeOK, Capable
<1>2. m \in Rows(active)
  BY <1>1 DEF IInv, TypeOK, GatewayInv, Attests, Rows
<1>3. \A i \in C : /\ Row(active, i).rev \in Nat
                   /\ Row(active, m).rev - Row(active, i).rev \in Nat
  <2> SUFFICES ASSUME NEW i \in C PROVE /\ Row(active, i).rev \in Nat
                                        /\ Row(active, m).rev - Row(active, i).rev \in Nat
    OBVIOUS
  <2>1. Row(active, i).rev \in Nat /\ Row(active, m).rev \in Nat
    BY <1>1, <1>2, RowTyped DEF IInv
  <2>2. i = m \/ Row(active, i).rev < Row(active, m).rev
    BY <1>1 DEF IInv, GatewayInv, Attests, Capable
  <2> QED
    BY <2>1, <2>2
<1>4. PICK x \in T : \A y \in T : x <= y
  <2>1. T \subseteq Nat /\ T # {}
    BY <1>3
  <2> QED
    BY <2>1, Least
<1>5. PICK i \in C : x = Row(active, m).rev - Row(active, i).rev
  BY <1>4
<1>6. \A j \in C : Row(active, j).rev <= Row(active, i).rev
  <2> SUFFICES ASSUME NEW j \in C PROVE Row(active, j).rev <= Row(active, i).rev
    OBVIOUS
  <2>1. x <= Row(active, m).rev - Row(active, j).rev
    BY <1>4
  <2>2. Row(active, m).rev \in Nat
    BY <1>1, <1>2, RowTyped DEF IInv
  <2> QED
    BY <1>3, <1>5, <2>1, <2>2
<1>7. OldServing \in C
  BY <1>6 DEF OldServing
<1> QED
  BY <1>1, <1>7

-----------------------------------------------------------------------------
(* What steps keep.                                                        *)

\* Rows are never removed and keep what they say; a receipt stays.
RowsKept ==
  \A n \in Nodes : \A i \in Rows(n) :
    /\ i \in Rows(n)'
    /\ Row(n, i)'.role = Row(n, i).role /\ Row(n, i)'.gen = Row(n, i).gen
    /\ Row(n, i)'.rev = Row(n, i).rev /\ Row(n, i)'.op = Row(n, i).op
    /\ Row(n, i)'.exp = Row(n, i).exp
    /\ Row(n, i).receipt # Never => Row(n, i)'.receipt # Never

\* The last operation moves to a phase; the rest of it, and the others, stay.
Moves(phase, wdAt, expAt) ==
  /\ ops # << >>
  /\ ops' \in Seq(Operation) /\ Len(ops') = Len(ops) /\ DOMAIN ops' = DOMAIN ops
  /\ \A k \in DOMAIN ops : /\ ops'[k].old = ops[k].old /\ ops'[k].new = ops[k].new
                           /\ ops'[k].gen = ops[k].gen /\ ops'[k].oldExp = ops[k].oldExp
                           /\ k # Len(ops) => ops'[k] = ops[k]
  /\ ops'[Len(ops)].phase = phase
  /\ ops'[Len(ops)].wdAt = wdAt /\ ops'[Len(ops)].expAt = expAt

LEMMA MovesFacts ==
  ASSUME TypeOK, ops # << >>, NEW o \in Operation, ops' = [ops EXCEPT ![Len(ops)] = o],
         o.old = Op.old, o.new = Op.new, o.gen = Op.gen, o.oldExp = Op.oldExp
  PROVE  Moves(o.phase, o.wdAt, o.expAt)
<1>1. ops \in Seq(Operation) /\ Len(ops) \in DOMAIN ops
  BY DEF TypeOK
<1>2. ops' \in Seq(Operation) /\ Len(ops') = Len(ops) /\ DOMAIN ops' = DOMAIN ops
  BY <1>1
<1>3. ops'[Len(ops)] = o /\ \A k \in DOMAIN ops : k # Len(ops) => ops'[k] = ops[k]
  BY <1>1
<1> QED
  BY <1>2, <1>3 DEF Moves, Op

LEMMA KeptRow ==
  ASSUME RowsKept, NEW n \in Nodes, NEW k, NEW role, HasRow(n, k, role)
  PROVE  \E i \in DOMAIN deliveries'[n] : /\ deliveries'[n][i].op = k
                                          /\ deliveries'[n][i].role = role
BY DEF RowsKept, HasRow, Rows, Row

\* Steps that change neither pool nor rows.
LEMMA SamePool ==
  ASSUME IInv, UNCHANGED <<active, gen, ops, deferred, deliveries>>, now \in Nat, now' \in Nat,
         now <= now'
  PROVE  /\ DeferInv' /\ RowInv' /\ OpInv' /\ PassedInv'
         /\ OneOwnerPerGeneration' /\ OnceInv' /\ AwaitInv'
<1>1. DeferInv' /\ RowInv' /\ PassedInv'
  BY DEF IInv, DeferInv, RowInv, PassedInv, Rows, Row, DeferredPoolMatches,
     PreCASPoolMatches,
         PostCASPoolMatches, Op, HasRow, Artifact
<1>2. OneOwnerPerGeneration' /\ OnceInv' /\ AwaitInv'
  BY DEF IInv, OneOwnerPerGeneration, OnceInv, AwaitInv, HasRow, Rows, Row
<1>3. OpInv'
  <2>1. \A k \in DOMAIN ops : ops[k].oldExp \in Nat
    BY OpTyped DEF IInv
  <2> QED
    BY <2>1, HandoffAssumption DEF IInv, OpInv, Withdrawn, Released, Rows, Row
<1> QED
  BY <1>1, <1>2, <1>3

\* Steps that only move the last operation.
LEMMA MovesKeep ==
  ASSUME IInv, NEW phase, NEW wdAt, NEW expAt, Moves(phase, wdAt, expAt),
         UNCHANGED <<deliveries, now, applied, lease>>
  PROVE  /\ RowInv' /\ OnceInv' /\ GatewayInv'
         /\ UNCHANGED <<active, gen>> => OneOwnerPerGeneration'
         /\ UNCHANGED gen /\ (Op.phase \in PostCAS => phase \in PostCAS) => PassedInv'
         /\ /\ wdAt # Never => Withdrawn(Op)
            /\ phase \in {"cas_active"} \cup PostCAS =>
                 (expAt # Never /\ Op.oldExp + Skew <= now) \/ Withdrawn(Op)
            => OpInv'
         /\ /\ phase \in Prepared => HasRow(Op.new, Len(ops), "prepared")
            /\ phase \in Enabled => HasRow(Op.new, Len(ops), "serving")
            => AwaitInv'
<1>0. Len(ops) \in DOMAIN ops /\ Op = ops[Len(ops)]
  BY LastOp DEF IInv, Moves
<1>1. RowInv' /\ OnceInv' /\ GatewayInv'
  BY DEF IInv, Moves, RowInv, OnceInv, GatewayInv, Attests, Rows, Row
<1>2. UNCHANGED <<active, gen>> => OneOwnerPerGeneration'
  BY DEF IInv, OneOwnerPerGeneration, Rows, Row
<1>3. ASSUME UNCHANGED gen, Op.phase \in PostCAS => phase \in PostCAS PROVE PassedInv'
  <2>1. \A k \in DOMAIN ops : ops[k].phase \in PostCAS => ops'[k].phase \in PostCAS
    BY <1>0, <1>3 DEF Moves
  <2> QED
    BY <1>3, <2>1 DEF IInv, Moves, PassedInv, Rows, Row
<1>4. ASSUME wdAt # Never => Withdrawn(Op),
             phase \in {"cas_active"} \cup PostCAS =>
               (expAt # Never /\ Op.oldExp + Skew <= now) \/ Withdrawn(Op)
      PROVE  OpInv'
  <2>1. \A k \in DOMAIN ops : Withdrawn(ops[k])' <=> Withdrawn(ops[k])
    BY DEF Moves, Withdrawn, Rows, Row
  <2>2. \A k \in DOMAIN ops \ {Len(ops)} :
          ops'[k] = ops[k] /\ (Released(ops[k])' <=> Released(ops[k]))
    BY <2>1 DEF Moves, Released
  <2>3. Released(ops[Len(ops)])' <=>
          (expAt # Never /\ Op.oldExp + Skew <= now) \/ Withdrawn(Op)
    BY <1>0, <2>1 DEF Moves, Released
  <2>4. ASSUME NEW k \in DOMAIN ops
        PROVE  /\ ops'[k].wdAt # Never => Withdrawn(ops[k])'
               /\ ops'[k].phase \in {"cas_active"} \cup PostCAS => Released(ops[k])'
    <3>1. CASE k = Len(ops)
      BY <1>0, <1>4, <2>1, <2>3, <3>1 DEF Moves
    <3>2. CASE k # Len(ops)
      BY <2>1, <2>2, <3>2 DEF IInv, OpInv
    <3> QED
      BY <3>1, <3>2
  <2> QED
    BY <2>4 DEF OpInv, Moves
<1>5. ASSUME phase \in Prepared => HasRow(Op.new, Len(ops), "prepared"),
             phase \in Enabled => HasRow(Op.new, Len(ops), "serving")
      PROVE  AwaitInv'
  <2>1. \A n, k, role : HasRow(n, k, role)' <=> HasRow(n, k, role)
    BY DEF HasRow, Rows, Row
  <2>2. ASSUME NEW k \in DOMAIN ops
        PROVE  /\ ops'[k].phase \in Prepared => HasRow(ops'[k].new, k, "prepared")
               /\ ops'[k].phase \in Enabled => HasRow(ops'[k].new, k, "serving")
    <3>1. CASE k = Len(ops)
      BY <1>0, <1>5, <3>1 DEF Moves
    <3>2. CASE k # Len(ops)
      BY <3>2 DEF IInv, Moves, AwaitInv
    <3> QED
      BY <3>1, <3>2
  <2> QED
    BY <2>1, <2>2 DEF AwaitInv, Moves, HasRow, Rows, Row
<1> QED
  BY <1>1, <1>2, <1>3, <1>4, <1>5

-----------------------------------------------------------------------------
(* The inductive invariant.                                                *)

LEMMA InitIInv == Init => IInv
<1> SUFFICES ASSUME Init PROVE IInv
  OBVIOUS
<1> USE HandoffAssumption DEF Init
<1> DEFINE first(n) == [role |-> IF n = FirstOwner THEN "serving" ELSE "prepared",
                        gen |-> 1, rev |-> 1, epoch |-> 1, exp |-> 2 * TTL, op |-> 0, receipt |-> 0]
<1>1. \A n \in Nodes : /\ deliveries[n] = << first(n) >> /\ Len(deliveries[n]) = 1
                       /\ Rows(n) = {1} /\ Row(n, 1) = first(n)
  BY DEF Rows, Row
<1>2. TypeOK
  <2>1. \A n \in Nodes : first(n) \in Delivery
    BY DEF Delivery, Stamp
  <2>2. deliveries \in [Nodes -> Seq(Delivery)]
    <3>1. \A n \in Nodes : << first(n) >> \in Seq(Delivery)
      BY <2>1
    <3> QED
      BY <3>1
  <2>3. deferred \in Deferral
    BY DEF NoDelivery, Deferral, Phases, Stamp, Never
  <2>4. ackState \in [Nodes -> Fence]
    BY DEF Fence
  <2>5. \A n \in Nodes : {applied[n], lease[n], hand[n]} \subseteq 0 .. Len(deliveries[n])
    BY <1>1
  <2> QED
    BY <2>2, <2>3, <2>4, <2>5 DEF TypeOK
<1>3. DeferInv /\ OpInv /\ AwaitInv
  BY DEF DeferInv, OpInv, AwaitInv
<1>4. RowInv /\ PassedInv /\ OneOwnerPerGeneration /\ OnceInv
  BY <1>1 DEF RowInv, PassedInv, OneOwnerPerGeneration, OnceInv
<1>5. GatewayInv
  <2> SUFFICES ASSUME NEW n \in Nodes PROVE Attests(n)
    BY DEF GatewayInv
  <2>1. applied[n] = 1 /\ lease[n] \in {0, 1} /\ (lease[n] # 0 => n = FirstOwner)
    OBVIOUS
  <2>2. Rows(n) = {1} /\ Row(n, 1).gen = 1 /\ (n = FirstOwner => Row(n, 1).role = "serving")
    <3>1. Rows(n) = {1} /\ Row(n, 1) = first(n)
      BY <1>1
    <3>2. first(n).gen = 1 /\ (n = FirstOwner => first(n).role = "serving")
      OBVIOUS
    <3> QED
      BY <3>1, <3>2
  <2> QED
    BY <2>1, <2>2 DEF Attests
<1> QED
  BY <1>2, <1>3, <1>4, <1>5 DEF IInv

\* Decisions of the leader change its memory only.
LEMMA DeferStep ==
  ASSUME IInv, ops # << >>, NEW prep \in Stamp, Defer(prep),
         Op.phase \in {"prepare_candidate", "await_prepared_ack", "enable_serving"},
         IF Op.phase = "enable_serving" THEN PostCASPoolMatches ELSE PreCASPoolMatches
  PROVE  IInv'
<1>1. deferred' = [stage |-> "issue", phase |-> Op.phase, prep |-> prep]
  BY DEF Defer
<1>2. TypeOK'
  <2>1. deferred' \in Deferral
    BY <1>1 DEF Deferral, Phases
  <2> QED
    BY <2>1 DEF IInv, TypeOK, Defer, rowVars, nodeVars
<1>3. DeferInv'
  BY <1>1 DEF DeferInv, Defer, DeferredPoolMatches, PreCASPoolMatches,
     PostCASPoolMatches, Op
<1>4. RowInv' /\ OpInv' /\ PassedInv' /\ GatewayInv'
  BY DEF IInv, Defer, rowVars, nodeVars, RowInv, OpInv, PassedInv, GatewayInv,
     Attests, Withdrawn,
         Released, Rows, Row
<1>5. OneOwnerPerGeneration' /\ OnceInv' /\ AwaitInv'
  BY DEF IInv, Defer, rowVars, OneOwnerPerGeneration, OnceInv, AwaitInv,
     HasRow, Rows, Row
<1> QED
  BY <1>2, <1>3, <1>4, <1>5 DEF IInv

\* What a gateway does on its own leaves pool and rows alone.
LEMMA GatewayStep ==
  ASSUME IInv, NEW n \in Nodes,
         Fetch(n) \/ Apply(n) \/ ApplyUnrecorded(n) \/ Drop(n) \/ LoseLease(n)
  PROVE  IInv'
<1> USE DEF poolVars, rowVars
<1>0. UNCHANGED <<now, active, gen, armed, ops, deferred, deliveries, ackState>> /\ now \in Nat
  BY DEF IInv, TypeOK, Fetch, Apply, ApplyUnrecorded, Drop, LoseLease
<1>1. /\ DeferInv' /\ RowInv' /\ OpInv' /\ PassedInv'
      /\ OneOwnerPerGeneration' /\ OnceInv' /\ AwaitInv'
  BY <1>0, SamePool
<1>t. /\ TypeOK /\ GatewayInv
      /\ {applied[n], lease[n], hand[n]} \subseteq 0 .. Len(deliveries[n])
      /\ Rows(n) = 1 .. Len(deliveries[n]) /\ Len(deliveries[n]) \in Nat
  BY DEF IInv, TypeOK, Rows
<1>2. ASSUME NEW a \in 0 .. Len(deliveries[n]), NEW l \in 0 .. Len(deliveries[n]),
             NEW h \in 0 .. Len(deliveries[n]),
             applied' = [applied EXCEPT ![n] = a], lease' = [lease EXCEPT ![n] = l],
             hand' = [hand EXCEPT ![n] = h]
      PROVE  TypeOK'
  <2>1. /\ applied' \in [Nodes -> Nat] /\ lease' \in [Nodes -> Nat] /\ hand' \in [Nodes -> Nat]
        /\ \A m \in Nodes : {applied'[m], lease'[m], hand'[m]} \subseteq 0 .. Len(deliveries[m])
    BY <1>2, <1>t DEF TypeOK
  <2> QED
    BY <1>0, <1>t, <2>1 DEF TypeOK
<1>4. CASE Fetch(n)
  <2>1. PICK i \in Rows(n) : hand' = [hand EXCEPT ![n] = i]
    BY <1>4 DEF Fetch
  <2>2. UNCHANGED <<applied, lease>>
    BY <1>4 DEF Fetch
  <2>3. TypeOK'
    BY <1>0, <1>t, <2>1, <2>2 DEF TypeOK
  <2>4. GatewayInv'
    BY <1>0, <1>t, <2>2 DEF GatewayInv, Attests, Rows, Row
  <2> QED
    BY <1>1, <2>3, <2>4 DEF IInv
<1>5. CASE Apply(n)
  <2> DEFINE i == hand[n]
             d == Row(n, i)
  <2>1. /\ i # 0 /\ Newer(n, d) /\ lease' = [lease EXCEPT ![n] = Installed(i, d)]
        /\ applied' = [applied EXCEPT ![n] = i] /\ hand' = [hand EXCEPT ![n] = 0]
    BY <1>5 DEF Apply
  <2>2. i \in Rows(n) /\ applied[n] \in Rows(n) /\ applied[n] # 0
    BY <1>t, <2>1 DEF GatewayInv, Attests
  <2>3. Installed(i, d) \in {0, i} /\ (Installed(i, d) # 0 => d.role = "serving")
    BY <2>1 DEF Installed
  <2>4. TypeOK'
    <3>1. i \in 0 .. Len(deliveries[n]) /\ Installed(i, d) \in 0 .. Len(deliveries[n])
      BY <1>t, <2>2, <2>3
    <3>2. 0 \in 0 .. Len(deliveries[n])
      BY <1>t
    <3> QED
      BY <1>2, <2>1, <3>1, <3>2
  <2>5. d.gen >= Row(n, applied[n]).gen /\ d.rev > Row(n, applied[n]).rev
    BY <2>1, <2>2 DEF Newer
  <2>6. /\ applied'[n] = i /\ lease'[n] = Installed(i, d)
        /\ \A m \in Nodes \ {n} : applied'[m] = applied[m] /\ lease'[m] = lease[m]
    BY <1>t, <2>1 DEF TypeOK
  <2>7. \A j \in Rows(n) : Row(n, j).gen \in Nat /\ Row(n, j).rev \in Nat
    BY <1>t, RowTyped
  <2> HIDE DEF i, d
  <2>8. GatewayInv'
    <3>1. ASSUME NEW j \in Rows(n), Row(n, j).receipt # Never
          PROVE  Row(n, j).gen <= d.gen /\ Row(n, j).rev < d.rev
      <4>0. Attests(n)
        BY <1>t DEF GatewayInv
      <4>1. Row(n, j).gen <= Row(n, applied[n]).gen /\ Row(n, j).rev <= Row(n, applied[n]).rev
        BY <2>2, <2>7, <3>1, <4>0 DEF Attests
      <4>2. d.gen \in Nat /\ d.rev \in Nat
        BY <2>2, <2>7 DEF d
      <4> QED
        BY <2>2, <2>5, <2>7, <4>1, <4>2
    <3>2. d.gen \in Nat
      BY <2>2, <2>7 DEF d
    <3>3. Attests(n)'
      BY <1>0, <2>1, <2>3, <2>6, <3>1, <3>2 DEF d, Attests, Rows, Row
    <3> QED
      BY <1>0, <1>t, <2>6, <3>3 DEF GatewayInv, Attests, Rows, Row
  <2> QED
    BY <1>1, <2>4, <2>8 DEF IInv
<1>6. CASE ApplyUnrecorded(n)
  <2> DEFINE i == hand[n]
             d == Row(n, i)
  <2>1. /\ i # 0 /\ Newer(n, d) /\ UNCHANGED applied /\ hand' = [hand EXCEPT ![n] = 0]
        /\ \E l \in {Installed(i, d), 0} : lease' = [lease EXCEPT ![n] = l]
    BY <1>6 DEF ApplyUnrecorded
  <2>2. i \in Rows(n) /\ applied[n] \in Rows(n) /\ applied[n] # 0
    BY <1>t, <2>1 DEF GatewayInv, Attests
  <2>3. PICK l \in {0, i} : lease' = [lease EXCEPT ![n] = l] /\ (l # 0 => d.role = "serving")
    BY <2>1 DEF Installed
  <2>4. TypeOK'
    <3>1. applied' = [applied EXCEPT ![n] = applied[n]]
      BY <1>t, <2>1 DEF TypeOK
    <3> QED
      <4>1. applied[n] \in 0 .. Len(deliveries[n]) /\ l \in 0 .. Len(deliveries[n])
        BY <1>t, <2>2, <2>3
      <4>2. 0 \in 0 .. Len(deliveries[n])
        BY <1>t
      <4> QED
        BY <1>2, <2>1, <2>3, <3>1, <4>1, <4>2
  <2>5. d.gen >= Row(n, applied[n]).gen /\ d.rev > Row(n, applied[n]).rev
    BY <2>1, <2>2 DEF Newer
  <2>6. lease'[n] = l /\ \A m \in Nodes \ {n} : lease'[m] = lease[m]
    BY <1>t, <2>3 DEF TypeOK
  <2> HIDE DEF i, d
  <2>7. Attests(n)'
    <3>1. Attests(n)
      BY <1>t DEF GatewayInv
    <3>2. l # 0 => Row(n, l) = d
      BY <2>3 DEF d
    <3> QED
      BY <1>0, <2>1, <2>2, <2>3, <2>5, <2>6, <3>1, <3>2 DEF Attests, Rows, Row
  <2>8. GatewayInv'
    BY <1>0, <1>t, <2>1, <2>6, <2>7 DEF GatewayInv, Attests, Rows, Row
  <2> QED
    BY <1>1, <2>4, <2>8 DEF IInv
<1>7. CASE Drop(n)
  <2>1. UNCHANGED <<applied, lease>> /\ hand' = [hand EXCEPT ![n] = 0]
    BY <1>7 DEF Drop
  <2>2. TypeOK'
    BY <1>0, <1>t, <2>1 DEF TypeOK
  <2>3. GatewayInv'
    BY <1>0, <1>t, <2>1 DEF GatewayInv, Attests, Rows, Row
  <2> QED
    BY <1>1, <2>2, <2>3 DEF IInv
<1>8. CASE LoseLease(n)
  <2>1. UNCHANGED <<applied, hand>> /\ lease' = [lease EXCEPT ![n] = 0]
    BY <1>8 DEF LoseLease
  <2>2. TypeOK'
    BY <1>0, <1>t, <2>1 DEF TypeOK
  <2>3. GatewayInv'
    BY <1>0, <1>t, <2>1 DEF GatewayInv, Attests, TypeOK, Rows, Row
  <2> QED
    BY <1>1, <2>2, <2>3 DEF IInv
<1> QED
  BY <1>4, <1>5, <1>6, <1>7, <1>8

\* New rows: unacknowledged, a serving one for the owner under the current
\* generation, and one of an operation under its own and for the first time.
LEMMA AddStep ==
  ASSUME IInv, NEW S \in SUBSET Nodes, NEW r \in [Nodes -> Delivery],
         deliveries' = [n \in Nodes |-> IF n \in S THEN Append(deliveries[n], r[n])
                                        ELSE deliveries[n]],
         \A n \in S : /\ r[n].receipt = Never
                      /\ r[n].role = "serving" => n = active /\ r[n].gen = gen
                      /\ r[n].op # 0 => /\ r[n].op \in DOMAIN ops /\ r[n].gen = ops[r[n].op].gen
                                        /\ ~HasRow(n, r[n].op, r[n].role),
         UNCHANGED <<now, active, gen, armed, ops, ackState, applied, lease, hand>>
  PROVE  /\ deferred' \in Deferral => TypeOK'
         /\ RowsKept
         /\ \A n \in S : \E i \in DOMAIN deliveries'[n] :
              deliveries'[n][i].op = r[n].op /\ deliveries'[n][i].role = r[n].role
         /\ RowInv' /\ OpInv' /\ PassedInv' /\ GatewayInv'
         /\ OneOwnerPerGeneration' /\ OnceInv' /\ AwaitInv'
<1> USE DEF Rows, Row
<1> DEFINE next(n) == Len(deliveries[n]) + 1
<1>0. deliveries \in [Nodes -> Seq(Delivery)] /\ TypeOK
  BY DEF IInv, TypeOK
<1>1. ASSUME NEW n \in Nodes
      PROVE  /\ deliveries'[n] \in Seq(Delivery) /\ Len(deliveries[n]) \in Nat
             /\ Rows(n) = 1 .. Len(deliveries[n])
             /\ Rows(n)' = IF n \in S THEN 1 .. next(n) ELSE Rows(n)
             /\ Len(deliveries'[n]) >= Len(deliveries[n])
             /\ \A i \in Rows(n) : deliveries'[n][i] = deliveries[n][i]
             /\ n \in S => deliveries'[n][next(n)] = r[n]
  <2>1. deliveries[n] \in Seq(Delivery) /\ r[n] \in Delivery
    BY <1>0
  <2>2. CASE n \in S
    <3>1. deliveries'[n] = Append(deliveries[n], r[n])
      BY <2>2
    <3> QED
      BY <2>1, <2>2, <3>1
  <2>3. CASE n \notin S
    <3>1. deliveries'[n] = deliveries[n]
      BY <2>3
    <3> QED
      BY <2>1, <2>3, <3>1
  <2> QED
    BY <2>2, <2>3
<1>2. ASSUME NEW n \in Nodes, NEW i \in Rows(n)'
      PROVE  \/ i \in Rows(n) /\ deliveries'[n][i] = deliveries[n][i]
             \/ n \in S /\ i = next(n) /\ i \notin Rows(n) /\ deliveries'[n][i] = r[n]
  BY <1>1
<1>3. RowsKept
  BY <1>1 DEF RowsKept
<1>4. ASSUME NEW n \in S
      PROVE  \E i \in DOMAIN deliveries'[n] :
               deliveries'[n][i].op = r[n].op /\ deliveries'[n][i].role = r[n].role
  <2>1. next(n) \in Rows(n)' /\ deliveries'[n][next(n)] = r[n]
    BY <1>1
  <2> QED
    BY <2>1
<1>5. deferred' \in Deferral => TypeOK'
  <2>1. deliveries' \in [Nodes -> Seq(Delivery)]
    BY <1>1
  <2>2. \A n \in Nodes : {applied[n], lease[n], hand[n]} \subseteq 0 .. Len(deliveries'[n])
    BY <1>0, <1>1 DEF TypeOK
  <2> QED
    BY <1>0, <2>1, <2>2 DEF TypeOK
<1> HIDE DEF next
<1>6. RowInv'
  BY <1>2 DEF IInv, RowInv
<1>7. OpInv'
  <2>1. ASSUME NEW k \in DOMAIN ops, Withdrawn(ops[k]) PROVE Withdrawn(ops[k])'
    <3>1. ops[k].old \in Nodes
      BY <1>0, OpTyped
    <3>2. PICK i \in Rows(ops[k].old) : /\ deliveries[ops[k].old][i].gen = ops[k].gen
                                        /\ deliveries[ops[k].old][i].receipt # Never
      BY <2>1 DEF Withdrawn
    <3>3. i \in Rows(ops[k].old)' /\ deliveries'[ops[k].old][i] = deliveries[ops[k].old][i]
      BY <1>1, <3>1, <3>2
    <3> QED
      BY <3>2, <3>3 DEF Withdrawn
  <2> QED
    BY <2>1 DEF IInv, OpInv, Released
<1>8. PassedInv'
  BY <1>2, <1>0 DEF IInv, PassedInv, TypeOK
<1>9. GatewayInv'
  <2> SUFFICES ASSUME NEW n \in Nodes PROVE Attests(n)'
    BY DEF GatewayInv
  <2>1. Attests(n)
    BY DEF IInv, GatewayInv
  <2>2. /\ \A i \in Rows(n) : deliveries'[n][i] = deliveries[n][i]
        /\ \A i \in Rows(n)' : deliveries'[n][i].receipt # Never => i \in Rows(n)
    BY <1>1, <1>2
  <2>3. applied[n] \in Rows(n) /\ (lease[n] # 0 => lease[n] \in Rows(n))
    BY <1>0, <1>1, <2>1 DEF TypeOK, Attests
  <2> QED
    BY <2>1, <2>2, <2>3 DEF Attests
<1>10. OneOwnerPerGeneration'
  <2> SUFFICES ASSUME NEW m \in Nodes, NEW n \in Nodes, NEW i \in Rows(m)', NEW j \in Rows(n)',
                      deliveries'[m][i].role = "serving", deliveries'[n][j].role = "serving"
               PROVE  /\ deliveries'[m][i].gen = deliveries'[n][j].gen => m = n
                      /\ deliveries'[m][i].gen <= gen
                      /\ deliveries'[m][i].gen = gen => m = active
    BY DEF OneOwnerPerGeneration
  <2>0. gen \in Nat
    BY <1>0 DEF TypeOK
  <2>1. \/ i \in Rows(m) /\ deliveries'[m][i] = deliveries[m][i]
        \/ m = active /\ deliveries'[m][i].gen = gen
    BY <1>2
  <2>2. \/ j \in Rows(n) /\ deliveries'[n][j] = deliveries[n][j]
        \/ n = active /\ deliveries'[n][j].gen = gen
    BY <1>2
  <2> QED
    BY <2>0, <2>1, <2>2 DEF IInv, OneOwnerPerGeneration
<1>11. OnceInv'
  <2> SUFFICES ASSUME NEW n \in Nodes, NEW i \in Rows(n)', NEW j \in Rows(n)',
                      deliveries'[n][i].op = deliveries'[n][j].op, deliveries'[n][i].op # 0,
                      deliveries'[n][i].role = deliveries'[n][j].role
               PROVE  i = j
    BY DEF OnceInv
  <2> QED
    BY <1>2 DEF IInv, OnceInv, HasRow
<1>12. AwaitInv'
  <2>1. \A k \in DOMAIN ops, role \in {"prepared", "serving"} :
          HasRow(ops[k].new, k, role) => HasRow(ops[k].new, k, role)'
    BY <1>0, <1>3, OpTyped DEF HasRow, RowsKept
  <2> QED
    BY <2>1 DEF IInv, AwaitInv
<1> QED
  BY <1>3, <1>4, <1>5, <1>6, <1>7, <1>8, <1>9, <1>10, <1>11, <1>12

LEMMA BucketTyped == TypeOK => Bucket \in Nat
BY HandoffAssumption DEF TypeOK, Bucket

\* Renewal.
LEMMA RenewStep == ASSUME IInv, NEW skipped \in SUBSET Nodes, Renew(skipped) PROVE IInv'
<1> DEFINE S == {n \in Nodes \ skipped : ~Renewed(n)}
           r == [n \in Nodes |-> Renewal(n)]
<1>1. TypeOK /\ deferred = NoDelivery /\ UNCHANGED <<now, poolVars, ackState, nodeVars>>
  BY DEF IInv, Renew
<1>2. \A n \in Nodes : /\ Renewal(n) \in Delivery /\ Renewal(n).receipt = Never /\ Renewal(n).op = 0
                       /\ Renewal(n).role = "serving" => n = active
                       /\ Renewal(n).gen = gen
  <2> SUFFICES ASSUME NEW n \in Nodes
               PROVE  /\ Renewal(n) \in Delivery /\ Renewal(n).receipt = Never /\ Renewal(n).op = 0
                      /\ Renewal(n).role = "serving" => n = active
                      /\ Renewal(n).gen = gen
    OBVIOUS
  <2>1. Bucket \in Nat /\ gen \in Nat /\ ackState[n] \in Fence
    BY <1>1, BucketTyped DEF TypeOK
  <2>2. ackState[n].rev + 1 \in Nat /\ ackState[n].epoch + 1 \in Nat
    BY <2>1 DEF Fence
  <2> QED
    BY <2>1, <2>2 DEF Renewal, RenewalRole, Delivery, Stamp
<1>3. r \in [Nodes -> Delivery] /\ S \in SUBSET Nodes
  BY <1>2
<1>4. deliveries' = [n \in Nodes |-> IF n \in S THEN Append(deliveries[n], r[n]) ELSE deliveries[n]]
  BY DEF Renew
<1>5. \A n \in S : /\ r[n].receipt = Never
                   /\ r[n].role = "serving" => n = active /\ r[n].gen = gen
                   /\ r[n].op = 0
  BY <1>2
<1>6. UNCHANGED <<now, active, gen, armed, ops, ackState, applied, lease, hand, deferred>>
  BY <1>1 DEF poolVars, nodeVars
<1> HIDE DEF S, r
<1>7. /\ deferred' \in Deferral => TypeOK'
      /\ RowInv' /\ OpInv' /\ PassedInv' /\ GatewayInv'
      /\ OneOwnerPerGeneration' /\ OnceInv' /\ AwaitInv'
  BY <1>3, <1>4, <1>5, <1>6, AddStep
<1>8. DeferInv' /\ deferred' \in Deferral
  BY <1>1, <1>6 DEF DeferInv, TypeOK, NoDelivery
<1> QED
  BY <1>7, <1>8 DEF IInv

\* A claim appends an operation that has done nothing yet.
LEMMA ClaimStep == ASSUME IInv, NEW candidate \in Nodes, Claim(candidate) PROVE IInv'
<1> DEFINE o == [old |-> active, new |-> candidate, gen |-> gen + 1,
                 oldExp |-> Row(active, OldServing).exp,
                 exp |-> Larger(Bucket, Row(active, OldServing).exp + Budget),
                 epoch |-> Larger(ackState[active].epoch, ackState[candidate].epoch) + 1,
                 oldRev |-> ackState[active].rev + 1, newRev |-> ackState[candidate].rev + 1,
                 phase |-> "prepare_candidate",
                 prepAt |-> Never, wdAt |-> Never, expAt |-> Never, servAt |-> Never]
<1>1. /\ TypeOK /\ deferred = NoDelivery /\ ops' = Append(ops, o)
      /\ UNCHANGED <<now, active, gen, armed, deferred, rowVars, nodeVars>>
  BY DEF IInv, Claim
<1>2. o \in Operation
  <2>1. Row(active, OldServing).exp \in Nat
    <3>1. OldServing \in Rows(active) /\ active \in Nodes
      BY <1>1, OldServingFacts DEF Claim, TypeOK
    <3> QED
      BY <1>1, <3>1, RowTyped
  <2>2. Bucket \in Nat /\ gen \in Nat /\ active \in Nodes /\ Budget \in Nat
    BY <1>1, BucketTyped, HandoffAssumption DEF TypeOK
  <2>3. /\ ackState[active].rev \in Nat /\ ackState[candidate].rev \in Nat
        /\ ackState[active].epoch \in Nat /\ ackState[candidate].epoch \in Nat
    BY <1>1, <2>2 DEF TypeOK, Fence
  <2>5. /\ Larger(Bucket, Row(active, OldServing).exp + Budget) \in Nat
        /\ Larger(ackState[active].epoch, ackState[candidate].epoch) + 1 \in Nat
    <3>1. Row(active, OldServing).exp + Budget \in Nat
      BY <2>1, <2>2
    <3> QED
      BY <2>2, <2>3, <3>1 DEF Larger
  <2> QED
    BY <2>1, <2>2, <2>3, <2>5 DEF Operation, Phases, Stamp
<1>3. o.phase = "prepare_candidate" /\ o.wdAt = Never
  OBVIOUS
<1> HIDE DEF o
<1>4. /\ ops' \in Seq(Operation) /\ Len(ops) \in Nat /\ Len(ops') = Len(ops) + 1
      /\ DOMAIN ops = 1 .. Len(ops) /\ DOMAIN ops' = 1 .. Len(ops) + 1
      /\ \A k \in DOMAIN ops : ops'[k] = ops[k]
      /\ ops'[Len(ops) + 1] = o
  BY <1>1, <1>2 DEF TypeOK
<1>5. UNCHANGED <<now, active, gen, armed, deferred, deliveries, ackState, applied, lease, hand>>
  BY <1>1 DEF rowVars, nodeVars
<1>6. TypeOK'
  BY <1>1, <1>4, <1>5 DEF TypeOK
<1>7. DeferInv'
  BY <1>1, <1>5 DEF DeferInv, NoDelivery
<1>8. RowInv' /\ PassedInv'
  <2>1. \A k \in DOMAIN ops : k \in DOMAIN ops' /\ ops'[k] = ops[k]
    BY <1>4
  <2> QED
    BY <1>5, <2>1 DEF IInv, RowInv, PassedInv, Rows, Row
<1>9. GatewayInv' /\ OneOwnerPerGeneration' /\ OnceInv'
  BY <1>5 DEF IInv, GatewayInv, Attests, OneOwnerPerGeneration, OnceInv, Rows,
     Row
<1>10. OpInv'
  <2> SUFFICES ASSUME NEW k \in DOMAIN ops'
               PROVE  /\ ops'[k].wdAt # Never => Withdrawn(ops[k])'
                      /\ ops'[k].phase \in {"cas_active"} \cup PostCAS => Released(ops[k])'
    BY DEF OpInv
  <2>1. CASE k \in DOMAIN ops
    BY <1>4, <1>5, <2>1 DEF IInv, OpInv, Withdrawn, Released, Rows, Row
  <2>2. CASE k = Len(ops) + 1
    BY <1>3, <1>4, <2>2 DEF PostCAS
  <2> QED
    BY <1>4, <2>1, <2>2
<1>11. AwaitInv'
  <2> SUFFICES ASSUME NEW k \in DOMAIN ops'
               PROVE  /\ ops'[k].phase \in Prepared => HasRow(ops[k].new, k, "prepared")'
                      /\ ops'[k].phase \in Enabled => HasRow(ops[k].new, k, "serving")'
    BY DEF AwaitInv
  <2>1. CASE k \in DOMAIN ops
    BY <1>4, <1>5, <2>1 DEF IInv, AwaitInv, HasRow, Rows, Row
  <2>2. CASE k = Len(ops) + 1
    BY <1>3, <1>4, <2>2 DEF Prepared, Enabled, PostCAS
  <2> QED
    BY <1>4, <2>1, <2>2
<1> QED
  BY <1>6, <1>7, <1>8, <1>9, <1>10, <1>11 DEF IInv

\* The second transaction of a delivery.
LEMMA IssueStep == ASSUME IInv, Issue PROVE IInv'
<1> DEFINE a == Artifact
           row == [role |-> a.role, gen |-> Op.gen, rev |-> a.rev, epoch |-> Op.epoch,
                   exp |-> Op.exp, op |-> Len(ops), receipt |-> Never]
           S == IF HasRow(a.node, Len(ops), a.role) THEN {} ELSE {a.node}
           r == [n \in Nodes |-> row]
<1>1. /\ TypeOK /\ deferred.stage = "issue" /\ deferred # NoDelivery
      /\ deferred' = [deferred EXCEPT !.stage = "advance"]
      /\ UNCHANGED <<now, active, gen, armed, ops, ackState, applied, lease, hand>>
  BY DEF IInv, Issue, nodeVars, NoDelivery
<1>2. /\ ops # << >> /\ DeferredPoolMatches
      /\ deferred.phase \in {"prepare_candidate", "await_prepared_ack", "enable_serving"}
  BY <1>1 DEF IInv, DeferInv
<1>3. Len(ops) \in DOMAIN ops /\ Len(ops) \in Nat \ {0} /\ Op = ops[Len(ops)]
  BY <1>1, <1>2, LastOp
<1>4. /\ Op.old \in Nodes /\ Op.new \in Nodes /\ Op.gen \in Nat /\ Op.oldRev \in Nat
      /\ Op.newRev \in Nat /\ Op.exp \in Nat /\ Op.epoch \in Nat
  BY <1>1, <1>3, OpTyped
<1>5. /\ a.node \in Nodes /\ a.rev \in Nat /\ a.role \in {"prepared", "withdrawal", "serving"}
      /\ a.role = "serving" => a.node = active /\ Op.gen = gen
  <2>1. CASE deferred.phase = "prepare_candidate"
    BY <1>4, <2>1 DEF Artifact
  <2>2. CASE deferred.phase = "await_prepared_ack"
    BY <1>4, <2>2 DEF Artifact
  <2>3. CASE deferred.phase = "enable_serving"
    BY <1>2, <1>4, <2>3 DEF Artifact, DeferredPoolMatches, PostCASPoolMatches
  <2> QED
    BY <1>2, <2>1, <2>2, <2>3
<1>6. deliveries' = IF HasRow(a.node, Len(ops), a.role) THEN deliveries
                    ELSE [deliveries EXCEPT ![a.node] = Append(@, row)]
  BY DEF Issue, HasRow
<1> HIDE DEF a
<1>7. row \in Delivery
  BY <1>3, <1>4, <1>5 DEF Delivery, Stamp
<1>8. r \in [Nodes -> Delivery] /\ S \in SUBSET Nodes
  BY <1>5, <1>7
<1>9. deliveries' = [n \in Nodes |-> IF n \in S THEN Append(deliveries[n], r[n]) ELSE deliveries[n]]
  <2>1. deliveries = [n \in Nodes |-> deliveries[n]]
    BY <1>1 DEF TypeOK
  <2> HIDE DEF row
  <2>2. CASE HasRow(a.node, Len(ops), a.role)
    BY <1>6, <2>1, <2>2
  <2>3. CASE ~HasRow(a.node, Len(ops), a.role)
    BY <1>5, <1>6, <2>1, <2>3
  <2> QED
    BY <2>2, <2>3
<1>10. \A n \in S : /\ r[n].receipt = Never
                    /\ r[n].role = "serving" => n = active /\ r[n].gen = gen
                    /\ r[n].op # 0 => /\ r[n].op \in DOMAIN ops /\ r[n].gen = ops[r[n].op].gen
                                      /\ ~HasRow(n, r[n].op, r[n].role)
  BY <1>3, <1>5
<1>11. \A n \in S : r[n].op = Len(ops) /\ r[n].role = a.role /\ n = a.node
  BY <1>5
<1>s. S = {} => HasRow(a.node, Len(ops), a.role)
  OBVIOUS
<1>u. S # {} => a.node \in S
  OBVIOUS
<1> HIDE DEF S, r
<1>12. /\ deferred' \in Deferral => TypeOK'
       /\ RowsKept
       /\ \A n \in S : \E i \in DOMAIN deliveries'[n] :
            deliveries'[n][i].op = r[n].op /\ deliveries'[n][i].role = r[n].role
       /\ RowInv' /\ OpInv' /\ PassedInv' /\ GatewayInv'
       /\ OneOwnerPerGeneration' /\ OnceInv' /\ AwaitInv'
  BY <1>1, <1>8, <1>9, <1>10, AddStep
<1>13. deferred' \in Deferral /\ deferred'.stage = "advance" /\ deferred'.phase = deferred.phase
  BY <1>1 DEF TypeOK, Deferral
<1>14. DeferInv'
  <2>1. Artifact' = Artifact /\ Op' = Op
    BY <1>1, <1>13 DEF Artifact, Op
  <2>2. \E i \in DOMAIN deliveries'[a.node] :
          deliveries'[a.node][i].op = Len(ops) /\ deliveries'[a.node][i].role = a.role
    <3>1. CASE S = {}
      BY <1>5, <1>12, <1>s, <3>1, KeptRow
    <3>2. CASE S # {}
      BY <1>11, <1>12, <1>u, <3>2
    <3> QED
      BY <3>1, <3>2
  <2>3. DeferredPoolMatches'
    BY <1>1, <1>2, <1>13 DEF DeferredPoolMatches, PreCASPoolMatches,
       PostCASPoolMatches, Op
  <2> QED
    BY <1>1, <1>2, <1>13, <2>1, <2>2, <2>3 DEF DeferInv, HasRow, Rows, Row, a
<1> QED
  BY <1>12, <1>13, <1>14 DEF IInv

\* The third transaction of a delivery.
LEMMA AdvanceStep == ASSUME IInv, AdvanceDeferred PROVE IInv'
<1>1. /\ TypeOK /\ deferred.stage = "advance" /\ deferred # NoDelivery /\ deferred' = NoDelivery
      /\ UNCHANGED <<now, active, gen, armed, deliveries, ackState, applied, lease, hand>>
  BY DEF IInv, AdvanceDeferred, rowVars, nodeVars, NoDelivery
<1>2. /\ ops # << >> /\ DeferredPoolMatches
      /\ deferred.phase \in {"prepare_candidate", "await_prepared_ack", "enable_serving"}
      /\ HasRow(Artifact.node, Len(ops), Artifact.role)
  BY <1>1 DEF IInv, DeferInv
<1>3. DeferInv' /\ deferred' \in Deferral
  BY <1>1 DEF DeferInv, Deferral, NoDelivery, Phases, Stamp
<1>4. CASE Op.phase = deferred.phase /\ DeferredPoolMatches
  <2> DEFINE o == [Op EXCEPT !.phase = NextPhase, !.prepAt = Larger(@, deferred.prep)]
  <2>1. ops' = [ops EXCEPT ![Len(ops)] = o]
    BY <1>4 DEF AdvanceDeferred, Op
  <2>2. Len(ops) \in DOMAIN ops /\ Op \in Operation /\ Op.prepAt \in Stamp
    BY <1>1, <1>2, LastOp, OpTyped
  <2>3. NextPhase \in {"await_prepared_ack", "await_withdrawal", "await_serving_ack"}
    BY DEF NextPhase
  <2>4. Larger(Op.prepAt, deferred.prep) \in Stamp
    BY <1>1, <2>2 DEF Larger, TypeOK, Deferral
  <2>5. /\ o \in Operation /\ o.phase = NextPhase /\ o.wdAt = Op.wdAt /\ o.expAt = Op.expAt
        /\ o.old = Op.old /\ o.new = Op.new /\ o.gen = Op.gen /\ o.oldExp = Op.oldExp
    BY <2>2, <2>3, <2>4 DEF Operation, Phases
  <2> HIDE DEF o
  <2>6. Moves(NextPhase, Op.wdAt, Op.expAt)
    <3>1. Moves(o.phase, o.wdAt, o.expAt)
      BY <1>1, <1>2, <2>1, <2>5, MovesFacts
    <3> QED
      BY <2>5, <3>1
  <2>7. /\ Op.wdAt # Never => Withdrawn(Op)
        /\ Op.phase = "enable_serving" =>
             (Op.expAt # Never /\ Op.oldExp + Skew <= now) \/ Withdrawn(Op)
        /\ Op.phase \in Prepared => HasRow(Op.new, Len(ops), "prepared")
    BY <2>2 DEF IInv, OpInv, Released, AwaitInv, Op, PostCAS
  <2>8. /\ NextPhase \in {"cas_active"} \cup PostCAS => Op.phase = "enable_serving"
        /\ NextPhase \in Enabled => Op.phase = "enable_serving"
        /\ Op.phase \in PostCAS => NextPhase \in PostCAS
    BY <1>2, <1>4 DEF NextPhase, PostCAS, Enabled
  <2>9. NextPhase \in Prepared => HasRow(Op.new, Len(ops), "prepared")
    <3>1. CASE Op.phase = "prepare_candidate"
      <4>1. Artifact.node = Op.new /\ Artifact.role = "prepared"
        BY <1>4, <3>1 DEF Artifact
      <4> QED
        BY <1>2, <4>1
    <3>2. CASE Op.phase \in {"await_prepared_ack", "enable_serving"}
      BY <2>7, <3>2 DEF Prepared, PostCAS
    <3> QED
      BY <1>2, <1>4, <3>1, <3>2
  <2>10. NextPhase \in Enabled => HasRow(Op.new, Len(ops), "serving")
    <3>1. CASE Op.phase = "enable_serving"
      <4>1. Artifact.node = Op.new /\ Artifact.role = "serving"
        BY <1>4, <3>1 DEF Artifact
      <4> QED
        BY <1>2, <4>1
    <3> QED
      BY <2>8, <3>1
  <2>11. TypeOK'
    BY <1>1, <1>3, <2>6 DEF TypeOK, Moves
  <2>12. /\ RowInv' /\ OnceInv' /\ GatewayInv' /\ OneOwnerPerGeneration' /\ PassedInv'
         /\ OpInv' /\ AwaitInv'
    BY <1>1, <2>6, <2>7, <2>8, <2>9, <2>10, MovesKeep
  <2> QED
    BY <1>3, <2>11, <2>12 DEF IInv
<1>5. CASE ~(Op.phase = deferred.phase /\ DeferredPoolMatches)
  <2>1. UNCHANGED ops
    BY <1>5 DEF AdvanceDeferred
  <2>2. TypeOK'
    BY <1>1, <1>3, <2>1 DEF TypeOK
  <2>3. RowInv' /\ OnceInv' /\ OneOwnerPerGeneration' /\ PassedInv'
    BY <1>1, <2>1 DEF IInv, RowInv, OnceInv, OneOwnerPerGeneration, PassedInv,
       Rows, Row
  <2>4. OpInv' /\ AwaitInv' /\ GatewayInv'
    BY <1>1, <2>1 DEF IInv, OpInv, Withdrawn, Released, AwaitInv, HasRow,
       GatewayInv, Attests,
         Rows, Row
  <2> QED
    BY <1>3, <2>2, <2>3, <2>4 DEF IInv
<1> QED
  BY <1>4, <1>5

\* The leader forgets what it was about.
LEMMA CrashStep == ASSUME IInv, LeaderCrash PROVE IInv'
<1>1. /\ TypeOK /\ deferred' = NoDelivery
      /\ UNCHANGED <<now, active, gen, armed, ops, deliveries, ackState, applied, lease, hand>>
  BY DEF IInv, LeaderCrash, rowVars, nodeVars
<1>2. DeferInv' /\ deferred' \in Deferral
  BY <1>1 DEF DeferInv, Deferral, NoDelivery, Phases, Stamp
<1>3. TypeOK'
  BY <1>1, <1>2 DEF TypeOK
<1>4. RowInv' /\ OnceInv' /\ OneOwnerPerGeneration' /\ PassedInv'
  BY <1>1 DEF IInv, RowInv, OnceInv, OneOwnerPerGeneration, PassedInv, Rows, Row
<1>5. OpInv' /\ AwaitInv' /\ GatewayInv'
  BY <1>1 DEF IInv, OpInv, Withdrawn, Released, AwaitInv, HasRow, GatewayInv,
     Attests, Rows, Row
<1> QED
  BY <1>2, <1>3, <1>4, <1>5 DEF IInv

\* The facts about the last operation that the phases after a delivery need.
LEMMA TickFacts ==
  ASSUME IInv, NEW phase, Ticking(phase)
  PROVE  /\ TypeOK /\ ops # << >> /\ deferred = NoDelivery /\ Op.phase = phase
         /\ Len(ops) \in DOMAIN ops /\ Op = ops[Len(ops)] /\ Op \in Operation
         /\ Op.old \in Nodes /\ Op.new \in Nodes /\ Op.gen \in Nat /\ Op.oldExp \in Nat
         /\ Op.wdAt \in Stamp /\ Op.expAt \in Stamp
         /\ Op.wdAt # Never => Withdrawn(Op)
         /\ Op.phase \in {"cas_active"} \cup PostCAS =>
              (Op.expAt # Never /\ Op.oldExp + Skew <= now) \/ Withdrawn(Op)
         /\ Op.phase \in Prepared => HasRow(Op.new, Len(ops), "prepared")
         /\ Op.phase \in Enabled => HasRow(Op.new, Len(ops), "serving")
<1>1. TypeOK /\ ops # << >> /\ deferred = NoDelivery /\ Op.phase = phase
  BY DEF IInv, Ticking
<1>2. Len(ops) \in DOMAIN ops /\ Op = ops[Len(ops)]
  BY <1>1, LastOp
<1>3. /\ Op \in Operation /\ Op.old \in Nodes /\ Op.new \in Nodes /\ Op.gen \in Nat
      /\ Op.oldExp \in Nat /\ Op.wdAt \in Stamp /\ Op.expAt \in Stamp
  BY <1>1, <1>2, OpTyped
<1> QED
  BY <1>1, <1>2, <1>3 DEF IInv, OpInv, Released, AwaitInv

\* A withdrawal that a tick learns of was acknowledged by the old owner.
LEMMA WithdrawalFacts ==
  ASSUME IInv, NEW phase, Ticking(phase)
  PROVE  Withdrawal \in Stamp /\ (Withdrawal # Never => Withdrawn(Op))
<1>1. /\ TypeOK /\ Len(ops) \in DOMAIN ops /\ Op = ops[Len(ops)] /\ Op.old \in Nodes
      /\ Op.wdAt \in Stamp /\ (Op.wdAt # Never => Withdrawn(Op)) /\ Len(ops) # 0
  BY TickFacts, LastOp
<1>2. AckOf(Op.old, "withdrawal") \in Stamp
  BY <1>1, AckFacts
<1>3. ASSUME AckOf(Op.old, "withdrawal") # Never PROVE Withdrawn(Op)
  <2>1. PICK i \in Rows(Op.old) : Row(Op.old, i).op = Len(ops) /\ Row(Op.old, i).receipt # Never
    BY <1>1, <1>3, AckFacts
  <2>2. Row(Op.old, i).gen = Op.gen
    BY <1>1, <2>1 DEF IInv, RowInv
  <2> QED
    BY <2>1, <2>2 DEF Withdrawn
<1> QED
  BY <1>1, <1>2, <1>3 DEF Withdrawal

\* A step that moves the last operation and leaves owner and generation alone.
LEMMA PhaseStep ==
  ASSUME IInv, ops # << >>, NEW o \in Operation, ops' = [ops EXCEPT ![Len(ops)] = o],
         o.old = Op.old, o.new = Op.new, o.gen = Op.gen, o.oldExp = Op.oldExp,
         UNCHANGED <<now, active, gen, deferred, deliveries, ackState, applied, lease, hand>>,
         armed' \in BOOLEAN,
         Op.phase \in PostCAS => o.phase \in PostCAS,
         o.wdAt # Never => Withdrawn(Op),
         o.phase \in {"cas_active"} \cup PostCAS =>
           (o.expAt # Never /\ Op.oldExp + Skew <= now) \/ Withdrawn(Op),
         o.phase \in Prepared => HasRow(Op.new, Len(ops), "prepared"),
         o.phase \in Enabled => HasRow(Op.new, Len(ops), "serving")
  PROVE  IInv'
<1>1. Moves(o.phase, o.wdAt, o.expAt)
  BY MovesFacts DEF IInv
<1>2. TypeOK'
  BY <1>1 DEF IInv, TypeOK, Moves
<1>3. DeferInv'
  <2>1. Len(ops') = Len(ops) /\ Len(ops) \in DOMAIN ops
    BY <1>1, LastOp DEF Moves, IInv
  <2>2. /\ ops'[Len(ops)].old = ops[Len(ops)].old /\ ops'[Len(ops)].new = ops[Len(ops)].new
        /\ ops'[Len(ops)].gen = ops[Len(ops)].gen
    BY <1>1, <2>1 DEF Moves
  <2>3. Artifact'.node = Artifact.node /\ Artifact'.role = Artifact.role
    BY <2>1, <2>2 DEF Artifact, Op
  <2>4. DeferredPoolMatches' <=> DeferredPoolMatches
    BY <2>1, <2>2 DEF DeferredPoolMatches, PreCASPoolMatches,
       PostCASPoolMatches, Op
  <2>5. ops' # << >>
    BY <1>1, <2>1 DEF Moves, IInv, TypeOK
  <2> QED
    BY <2>1, <2>3, <2>4, <2>5 DEF IInv, DeferInv, HasRow, Rows, Row
<1>4. /\ RowInv' /\ OnceInv' /\ GatewayInv' /\ OneOwnerPerGeneration' /\ PassedInv'
      /\ OpInv' /\ AwaitInv'
  BY <1>1, MovesKeep
<1> QED
  BY <1>2, <1>3, <1>4 DEF IInv

\* The withdrawal or the expiry is recorded.
LEMMA ReadyStep == ASSUME IInv, RecordCASReady PROVE IInv'
<1> USE DEF rowVars, nodeVars
<1>1. /\ Ticking("await_withdrawal") /\ ServingDecision(Withdrawal)
      /\ UNCHANGED <<now, active, gen, armed, deferred, deliveries, ackState, applied, lease, hand>>
  BY DEF RecordCASReady
<1>2. /\ TypeOK /\ ops # << >> /\ Op.phase = "await_withdrawal" /\ Op \in Operation
      /\ (Op.wdAt # Never => Withdrawn(Op))
      /\ HasRow(Op.new, Len(ops), "prepared")
  BY <1>1, TickFacts DEF Prepared
<1>3. Withdrawal \in Stamp /\ (Withdrawal # Never => Withdrawn(Op))
  BY <1>1, WithdrawalFacts
<1>4. armed' \in BOOLEAN /\ now \in Nat
  BY <1>1, <1>2 DEF TypeOK
<1>5. CASE Withdrawal = Never
  <2> DEFINE o == [Op EXCEPT !.phase = "cas_active", !.expAt = now]
  <2>1. ops' = [ops EXCEPT ![Len(ops)] = o]
    BY <1>5 DEF RecordCASReady, Op
  <2>2. /\ o \in Operation /\ o.phase = "cas_active" /\ o.wdAt = Op.wdAt /\ o.expAt = now
        /\ o.old = Op.old /\ o.new = Op.new /\ o.gen = Op.gen /\ o.oldExp = Op.oldExp
    BY <1>2, <1>4 DEF Operation, Phases, Stamp
  <2>3. o.expAt # Never /\ Op.oldExp + Skew <= now
    BY <1>1, <1>4, <1>5, <2>2 DEF ServingDecision, OldLeaseExpired, Never
  <2> HIDE DEF o
  <2> QED
    BY <1>1, <1>2, <1>4, <2>1, <2>2, <2>3, PhaseStep DEF PostCAS, Prepared,
       Enabled
<1>6. CASE Withdrawal # Never
  <2> DEFINE o == [Op EXCEPT !.phase = "cas_active", !.wdAt = Withdrawal]
  <2>1. ops' = [ops EXCEPT ![Len(ops)] = o]
    BY <1>6 DEF RecordCASReady, Op
  <2>2. /\ o \in Operation /\ o.phase = "cas_active" /\ o.wdAt = Withdrawal
        /\ o.old = Op.old /\ o.new = Op.new /\ o.gen = Op.gen /\ o.oldExp = Op.oldExp
    BY <1>2, <1>3 DEF Operation, Phases
  <2>3. Withdrawn(Op)
    BY <1>3, <1>6
  <2> HIDE DEF o
  <2> QED
    BY <1>1, <1>2, <1>4, <2>1, <2>2, <2>3, PhaseStep DEF PostCAS, Prepared,
       Enabled
<1> QED
  BY <1>5, <1>6

\* The CAS: every serving row of the generation it ends is the old owner's.
LEMMA CASStep == ASSUME IInv, CommitCAS PROVE IInv'
<1> USE DEF rowVars, nodeVars
<1>1. /\ Ticking("cas_active") /\ active = Op.old /\ gen = Op.gen - 1
      /\ active' = Op.new /\ gen' = Op.gen
      /\ UNCHANGED <<now, armed, deferred, deliveries, ackState, applied, lease, hand>>
  BY DEF CommitCAS, PreCASPoolMatches
<1>2. /\ TypeOK /\ ops # << >> /\ deferred = NoDelivery /\ Op.phase = "cas_active"
      /\ Len(ops) \in DOMAIN ops /\ Op = ops[Len(ops)] /\ Op \in Operation
      /\ Op.new \in Nodes /\ Op.old \in Nodes /\ Op.gen \in Nat
      /\ Op.wdAt # Never => Withdrawn(Op)
      /\ (Op.expAt # Never /\ Op.oldExp + Skew <= now) \/ Withdrawn(Op)
      /\ HasRow(Op.new, Len(ops), "prepared")
  BY <1>1, TickFacts DEF Prepared
<1>3. gen \in Nat /\ gen' = gen + 1
  BY <1>1, <1>2 DEF TypeOK
<1> DEFINE o == [Op EXCEPT !.phase = "enable_serving"]
<1>4. ops' = [ops EXCEPT ![Len(ops)] = o]
  BY DEF CommitCAS, Advance, Op
<1>5. /\ o \in Operation /\ o.phase = "enable_serving" /\ o.wdAt = Op.wdAt /\ o.expAt = Op.expAt
      /\ o.old = Op.old /\ o.new = Op.new /\ o.gen = Op.gen /\ o.oldExp = Op.oldExp
  BY <1>2 DEF Operation, Phases
<1> HIDE DEF o
<1>6. Moves("enable_serving", Op.wdAt, Op.expAt)
  <2>1. Moves(o.phase, o.wdAt, o.expAt)
    BY <1>2, <1>4, <1>5, MovesFacts
  <2> QED
    BY <1>5, <2>1
<1>7. TypeOK'
  BY <1>1, <1>2, <1>6 DEF TypeOK, Moves
<1>8. DeferInv'
  BY <1>1, <1>2 DEF DeferInv, NoDelivery
<1>9. RowInv' /\ OnceInv' /\ GatewayInv' /\ OpInv' /\ AwaitInv'
  BY <1>1, <1>2, <1>6, MovesKeep DEF PostCAS, Enabled
<1>10. \A n \in Nodes : \A i \in Rows(n) :
         /\ Row(n, i).gen \in Nat
         /\ Row(n, i).role = "serving" => /\ Row(n, i).gen <= gen
                                          /\ Row(n, i).gen = gen => n = Op.old
  BY <1>1, <1>2, RowTyped DEF IInv, OneOwnerPerGeneration
<1>11. OneOwnerPerGeneration'
  <2> SUFFICES ASSUME NEW m \in Nodes, NEW n \in Nodes, NEW i \in Rows(m), NEW j \in Rows(n),
                      Row(m, i).role = "serving", Row(n, j).role = "serving"
               PROVE  /\ Row(m, i).gen = Row(n, j).gen => m = n
                      /\ Row(m, i).gen < gen'
    BY <1>1, <1>3, <1>10 DEF OneOwnerPerGeneration, Rows, Row
  <2> QED
    BY <1>3, <1>10 DEF IInv, OneOwnerPerGeneration
<1>12. PassedInv'
  <2> SUFFICES ASSUME NEW n \in Nodes, NEW i \in Rows(n), Row(n, i).role = "serving",
                      Row(n, i).gen < gen'
               PROVE  \E k \in DOMAIN ops' : /\ ops'[k].gen = Row(n, i).gen + 1 /\ ops'[k].old = n
                                             /\ ops'[k].phase \in PostCAS
    BY <1>1 DEF PassedInv, Rows, Row
  <2>1. CASE Row(n, i).gen = gen
    <3>1. n = Op.old
      BY <1>10, <2>1
    <3>2. /\ Len(ops) \in DOMAIN ops' /\ ops'[Len(ops)].gen = Op.gen /\ ops'[Len(ops)].old = Op.old
          /\ ops'[Len(ops)].phase \in PostCAS
      BY <1>2, <1>6 DEF Moves, PostCAS
    <3> QED
      BY <1>1, <1>3, <2>1, <3>1, <3>2
  <2>2. CASE Row(n, i).gen < gen
    <3>1. PICK k \in DOMAIN ops : /\ ops[k].gen = Row(n, i).gen + 1 /\ ops[k].old = n
                                  /\ ops[k].phase \in PostCAS
      BY <2>2 DEF IInv, PassedInv
    <3>2. k # Len(ops)
      BY <1>2, <3>1 DEF PostCAS
    <3> QED
      BY <1>6, <3>1, <3>2 DEF Moves
  <2> QED
    BY <1>3, <1>10, <2>1, <2>2
<1> QED
  BY <1>7, <1>8, <1>9, <1>11, <1>12 DEF IInv

\* The last phases, and a failure.
LEMMA FinalStep == ASSUME IInv, FinalizeSuccess \/ Complete PROVE IInv'
<1> USE DEF rowVars, nodeVars
<1>1. /\ UNCHANGED <<now, active, gen, armed, deferred, deliveries, ackState, applied, lease, hand>>
      /\ Ticking("await_serving_ack") \/ Ticking("finalize")
  BY DEF FinalizeSuccess, Complete
<1>2. /\ TypeOK /\ ops # << >> /\ Op.phase \in {"await_serving_ack", "finalize"} /\ Op \in Operation
      /\ Op.new \in Nodes /\ (Op.wdAt # Never => Withdrawn(Op))
      /\ (Op.expAt # Never /\ Op.oldExp + Skew <= now) \/ Withdrawn(Op)
      /\ HasRow(Op.new, Len(ops), "prepared") /\ HasRow(Op.new, Len(ops), "serving")
  BY <1>1, TickFacts DEF Prepared, Enabled, PostCAS
<1>3. PICK o \in Operation :
        /\ ops' = [ops EXCEPT ![Len(ops)] = o] /\ o.phase \in {"finalize", "complete"}
        /\ o.wdAt = Op.wdAt /\ o.expAt = Op.expAt
        /\ o.old = Op.old /\ o.new = Op.new /\ o.gen = Op.gen /\ o.oldExp = Op.oldExp
  <2>1. CASE FinalizeSuccess
    <3> DEFINE o == [Op EXCEPT !.phase = "finalize", !.servAt = AckOf(Op.new, "serving")]
    <3>1. ops' = [ops EXCEPT ![Len(ops)] = o]
      BY <2>1 DEF FinalizeSuccess, Op
    <3>2. AckOf(Op.new, "serving") \in Stamp
      BY <1>2, AckFacts
    <3>3. /\ o \in Operation /\ o.phase = "finalize" /\ o.wdAt = Op.wdAt /\ o.expAt = Op.expAt
          /\ o.old = Op.old /\ o.new = Op.new /\ o.gen = Op.gen /\ o.oldExp = Op.oldExp
      BY <1>2, <3>2 DEF Operation, Phases
    <3> HIDE DEF o
    <3> QED
      BY <3>1, <3>3
  <2>2. CASE Complete
    <3> DEFINE o == [Op EXCEPT !.phase = "complete"]
    <3>1. ops' = [ops EXCEPT ![Len(ops)] = o]
      BY <2>2 DEF Complete, Advance, Op
    <3>2. /\ o \in Operation /\ o.phase = "complete" /\ o.wdAt = Op.wdAt /\ o.expAt = Op.expAt
          /\ o.old = Op.old /\ o.new = Op.new /\ o.gen = Op.gen /\ o.oldExp = Op.oldExp
      BY <1>2 DEF Operation, Phases
    <3> HIDE DEF o
    <3> QED
      BY <3>1, <3>2
  <2> QED
    BY <2>1, <2>2
<1>4. o.phase \in PostCAS /\ armed' \in BOOLEAN
  BY <1>1, <1>2, <1>3 DEF PostCAS, TypeOK
<1> QED
  BY <1>1, <1>2, <1>3, <1>4, PhaseStep

LEMMA MembershipStep == ASSUME IInv, MembershipChanges PROVE IInv'
<1> USE DEF rowVars, nodeVars
<1>1. /\ UNCHANGED <<now, active, gen, deferred, deliveries, ackState, applied, lease, hand>>
      /\ armed' = FALSE /\ TypeOK /\ now \in Nat
  BY DEF IInv, TypeOK, MembershipChanges
<1>2. CASE ~Quiet /\ Op.phase \in PreCAS
  <2>1. ops # << >> /\ Len(ops) \in DOMAIN ops /\ Op = ops[Len(ops)]
    <3>1. ops # << >>
      BY <1>2 DEF Quiet
    <3> QED
      BY <1>1, <3>1, LastOp
  <2>2. Op \in Operation /\ (Op.wdAt # Never => Withdrawn(Op))
    BY <1>1, <2>1, OpTyped DEF IInv, OpInv
  <2> DEFINE o == [Op EXCEPT !.phase = "failed"]
  <2>3. ops' = [ops EXCEPT ![Len(ops)] = o]
    BY <1>2 DEF MembershipChanges, Advance, Op
  <2>4. /\ o \in Operation /\ o.phase = "failed" /\ o.wdAt = Op.wdAt
        /\ o.old = Op.old /\ o.new = Op.new /\ o.gen = Op.gen /\ o.oldExp = Op.oldExp
    BY <2>2 DEF Operation, Phases
  <2> HIDE DEF o
  <2>5. /\ Op.phase \notin PostCAS
        /\ o.phase \notin PostCAS \cup {"cas_active"} \cup Prepared \cup Enabled
    BY <1>2, <2>4 DEF PreCAS, PostCAS, Prepared, Enabled
  <2>6. armed' \in BOOLEAN
    BY <1>1
  <2> QED
    BY <1>1, <2>1, <2>2, <2>3, <2>4, <2>5, <2>6, PhaseStep
<1>3. CASE ~(~Quiet /\ Op.phase \in PreCAS)
  <2>1. UNCHANGED ops
    BY <1>3 DEF MembershipChanges
  <2>2. TypeOK'
    BY <1>1, <2>1 DEF TypeOK
  <2>3. GatewayInv'
    BY <1>1 DEF IInv, GatewayInv, Attests, Rows, Row
  <2> QED
    BY <1>1, <2>1, <2>2, <2>3, SamePool DEF IInv
<1> QED
  BY <1>2, <1>3

LEMMA TimeStep == ASSUME IInv, TimePasses PROVE IInv'
<1>1. /\ UNCHANGED <<active, gen, armed, ops, deferred, deliveries, ackState, applied, lease, hand>>
      /\ TypeOK /\ now \in Nat /\ now' \in 0 .. MaxTime /\ now' = now + 1
  BY HandoffAssumption DEF IInv, TypeOK, TimePasses, poolVars, rowVars, nodeVars
<1>2. TypeOK'
  BY <1>1 DEF TypeOK
<1>3. GatewayInv'
  BY <1>1 DEF IInv, GatewayInv, Attests, Rows, Row
<1>4. now' \in Nat /\ now <= now'
  BY <1>1
<1> QED
  BY <1>1, <1>2, <1>3, <1>4, SamePool DEF IInv

\* An acknowledgement: the receipt of the row applied last.
LEMMA AckStep == ASSUME IInv, NEW n \in Nodes, ReceiveAck(n) PROVE IInv'
<1> USE DEF Rows, Row
<1> DEFINE i == applied[n]
           d == deliveries[n][i]
<1>1. /\ TypeOK /\ i # 0
      /\ deliveries' = [deliveries EXCEPT ![n][i].receipt = now]
      /\ ackState' = [ackState EXCEPT ![n] = [gen |-> d.gen, rev |-> d.rev, epoch |-> d.epoch]]
      /\ UNCHANGED <<now, active, gen, armed, ops, deferred, applied, lease, hand>>
  BY DEF IInv, ReceiveAck, poolVars, nodeVars
<1>2. i \in Rows(n) /\ now \in Nat
  BY <1>1 DEF TypeOK
<1>3. /\ d \in Delivery /\ d.gen \in Nat /\ d.rev \in Nat /\ d.epoch \in Nat
  BY <1>1, <1>2, RowTyped
<1> DEFINE e == [d EXCEPT !.receipt = now]
<1>4. /\ e \in Delivery /\ e.role = d.role /\ e.gen = d.gen /\ e.rev = d.rev /\ e.op = d.op
      /\ e.exp = d.exp /\ e.receipt = now /\ now # Never
  BY <1>2, <1>3 DEF Delivery, Stamp, Never
<1>5. deliveries' = [deliveries EXCEPT ![n] = [deliveries[n] EXCEPT ![i] = e]]
  BY <1>1
<1> HIDE DEF d, e
<1>6. /\ deliveries' \in [Nodes -> Seq(Delivery)]
      /\ \A m \in Nodes : Len(deliveries'[m]) = Len(deliveries[m]) /\ Rows(m)' = Rows(m)
      /\ \A m \in Nodes : \A j \in Rows(m) :
           ~(m = n /\ j = i) => deliveries'[m][j] = deliveries[m][j]
      /\ deliveries'[n][i] = e
  <2>1. deliveries \in [Nodes -> Seq(Delivery)] /\ deliveries[n] \in Seq(Delivery)
    BY <1>1 DEF TypeOK
  <2>2. /\ [deliveries[n] EXCEPT ![i] = e] \in Seq(Delivery)
        /\ Len([deliveries[n] EXCEPT ![i] = e]) = Len(deliveries[n])
        /\ DOMAIN [deliveries[n] EXCEPT ![i] = e] = DOMAIN deliveries[n]
    BY <1>2, <1>4, <2>1
  <2> QED
    BY <1>2, <1>5, <2>1, <2>2
<1>7. RowsKept
  <2> SUFFICES ASSUME NEW m \in Nodes, NEW j \in Rows(m)
               PROVE  /\ j \in Rows(m)'
                      /\ deliveries'[m][j].role = deliveries[m][j].role
                      /\ deliveries'[m][j].gen = deliveries[m][j].gen
                      /\ deliveries'[m][j].rev = deliveries[m][j].rev
                      /\ deliveries'[m][j].op = deliveries[m][j].op
                      /\ deliveries'[m][j].exp = deliveries[m][j].exp
                      /\ deliveries[m][j].receipt # Never => deliveries'[m][j].receipt # Never
    BY DEF RowsKept
  <2> QED
    BY <1>4, <1>6 DEF d
<1>8. TypeOK'
  <2>1. ackState' \in [Nodes -> Fence]
    BY <1>1, <1>3 DEF TypeOK, Fence
  <2> QED
    BY <1>1, <1>6, <2>1 DEF TypeOK
<1>k. \A m \in Nodes : /\ Rows(m)' = Rows(m)
                       /\ \A j \in Rows(m) : /\ deliveries'[m][j].role = deliveries[m][j].role
                                             /\ deliveries'[m][j].gen = deliveries[m][j].gen
                                             /\ deliveries'[m][j].rev = deliveries[m][j].rev
                                             /\ deliveries'[m][j].op = deliveries[m][j].op
  BY <1>6, <1>7 DEF RowsKept
<1>9. DeferInv'
  <2>1. CASE deferred = NoDelivery
    BY <1>1, <2>1 DEF DeferInv, NoDelivery
  <2>2. CASE deferred # NoDelivery
    <3>1. /\ ops # << >> /\ DeferredPoolMatches /\ DeferredPoolMatches' /\ Artifact' = Artifact
          /\ deferred.phase \in {"prepare_candidate", "await_prepared_ack", "enable_serving"}
      BY <1>1, <2>2 DEF IInv, DeferInv, DeferredPoolMatches, PreCASPoolMatches,
           PostCASPoolMatches, Op, Artifact
    <3>2. Op.new \in Nodes /\ Op.old \in Nodes
      BY <1>1, <3>1, LastOp, OpTyped
    <3>3. Artifact.node \in Nodes
      BY <3>1, <3>2 DEF Artifact
    <3>4. ASSUME HasRow(Artifact.node, Len(ops), Artifact.role)
          PROVE  HasRow(Artifact.node, Len(ops), Artifact.role)'
      <4>1. \E j \in DOMAIN deliveries'[Artifact.node] :
               /\ deliveries'[Artifact.node][j].op = Len(ops)
               /\ deliveries'[Artifact.node][j].role = Artifact.role
        BY <1>7, <3>3, <3>4, KeptRow
      <4> QED
        BY <1>1, <3>1, <4>1 DEF HasRow
    <3> QED
      BY <1>1, <2>2, <3>1, <3>4 DEF IInv, DeferInv
  <2> QED
    BY <2>1, <2>2
<1>10. RowInv' /\ PassedInv' /\ OneOwnerPerGeneration' /\ OnceInv'
  BY <1>1, <1>k DEF IInv, RowInv, PassedInv, OneOwnerPerGeneration, OnceInv
<1>11. OpInv'
  <2>1. ASSUME NEW k \in DOMAIN ops, Withdrawn(ops[k]) PROVE Withdrawn(ops[k])'
    <3>1. ops[k].old \in Nodes
      BY <1>1, OpTyped
    <3>2. PICK j \in Rows(ops[k].old) : /\ deliveries[ops[k].old][j].gen = ops[k].gen
                                        /\ deliveries[ops[k].old][j].receipt # Never
      BY <2>1 DEF Withdrawn
    <3>3. /\ j \in Rows(ops[k].old)' /\ deliveries'[ops[k].old][j].gen = ops[k].gen
          /\ deliveries'[ops[k].old][j].receipt # Never
      BY <1>1, <1>7, <3>1, <3>2 DEF RowsKept
    <3> QED
      BY <1>1, <3>3 DEF Withdrawn
  <2> QED
    BY <1>1, <2>1 DEF IInv, OpInv, Released
<1>12. AwaitInv'
  <2>1. \A k \in DOMAIN ops : ops[k].new \in Nodes
    BY <1>1, OpTyped
  <2> QED
    BY <1>1, <1>k, <2>1 DEF IInv, AwaitInv, HasRow
<1>13. GatewayInv'
  <2> SUFFICES ASSUME NEW m \in Nodes PROVE Attests(m)'
    BY DEF GatewayInv
  <2>1. Attests(m)
    BY DEF IInv, GatewayInv
  <2>2. applied[m] \in Rows(m) /\ (lease[m] # 0 => lease[m] \in Rows(m))
    BY <1>1, <2>1 DEF TypeOK, Attests
  <2>3. ASSUME NEW j \in Rows(m), deliveries'[m][j].receipt # Never
        PROVE  /\ deliveries[m][j].gen <= deliveries[m][applied[m]].gen
               /\ j = applied[m] \/ deliveries[m][j].rev < deliveries[m][applied[m]].rev
    <3>1. CASE m = n /\ j = i
      BY <1>3, <3>1 DEF d
    <3>2. CASE ~(m = n /\ j = i)
      BY <1>6, <2>1, <2>3, <3>2 DEF Attests
    <3> QED
      BY <3>1, <3>2
  <2> QED
    BY <1>1, <1>k, <2>1, <2>2, <2>3 DEF Attests
<1> QED
  BY <1>8, <1>9, <1>10, <1>11, <1>12, <1>13 DEF IInv

\* Every step preserves the inductive invariant.
LEMMA StepIInv == IInv /\ [Next]_vars => IInv'
<1> SUFFICES ASSUME IInv, [Next]_vars PROVE IInv'
  OBVIOUS
<1>1. ASSUME NEW skipped \in SUBSET Nodes, Renew(skipped) PROVE IInv'
  BY <1>1, RenewStep
<1>2. ASSUME NEW n \in Nodes, Claim(n) PROVE IInv'
  BY <1>2, ClaimStep
<1>3. CASE PrepareCandidate
  <2>1. ops # << >> /\ Op.phase = "prepare_candidate" /\ PreCASPoolMatches /\ Defer(Never)
    BY <1>3 DEF PrepareCandidate, Ticking
  <2>2. Never \in Stamp
    BY DEF Stamp
  <2> QED
    BY <2>1, <2>2, DeferStep
<1>4. CASE WithdrawOld
  <2>1. /\ ops # << >> /\ Op.phase = "await_prepared_ack" /\ PreCASPoolMatches
        /\ Defer(AckOf(Op.new, "prepared")) /\ Ticking("await_prepared_ack")
    BY <1>4 DEF WithdrawOld, Ticking
  <2>2. AckOf(Op.new, "prepared") \in Stamp
    BY <2>1, TickFacts, AckFacts
  <2> QED
    BY <2>1, <2>2, DeferStep
<1>5. CASE EnableNew
  <2>1. ops # << >> /\ Op.phase = "enable_serving" /\ PostCASPoolMatches /\ Defer(Never)
    BY <1>5 DEF EnableNew, Ticking
  <2>2. Never \in Stamp
    BY DEF Stamp
  <2> QED
    BY <2>1, <2>2, DeferStep
<1>6. CASE Issue \/ AdvanceDeferred \/ LeaderCrash
  BY <1>6, IssueStep, AdvanceStep, CrashStep
<1>7. CASE RecordCASReady \/ CommitCAS \/ FinalizeSuccess \/ Complete
  BY <1>7, ReadyStep, CASStep, FinalStep
<1>8. CASE MembershipChanges \/ TimePasses
  BY <1>8, MembershipStep, TimeStep
<1>9. ASSUME NEW n \in Nodes,
             \/ Fetch(n) \/ Apply(n) \/ ApplyUnrecorded(n) \/ Drop(n) \/ LoseLease(n)
             \/ ReceiveAck(n)
      PROVE  IInv'
  BY <1>9, GatewayStep, AckStep
<1>10. CASE UNCHANGED vars
  <2>1. /\ UNCHANGED <<now, active, gen, armed, ops, deferred, deliveries, ackState, applied,
                       lease, hand>>
        /\ TypeOK /\ now \in Nat
    BY <1>10 DEF vars, poolVars, rowVars, nodeVars, IInv, TypeOK
  <2>2. TypeOK'
    BY <2>1 DEF TypeOK
  <2>3. GatewayInv'
    BY <2>1 DEF IInv, GatewayInv, Attests, Rows, Row
  <2> QED
    BY <2>1, <2>2, <2>3, SamePool DEF IInv
<1> QED
  BY <1>1, <1>2, <1>3, <1>4, <1>5, <1>6, <1>7, <1>8, <1>9, <1>10 DEF Next

LEMMA Inductive == Spec => []IInv
BY InitIInv, StepIInv, PTL DEF Spec

-----------------------------------------------------------------------------
(* The theorems.                                                           *)

\* The tables, the leader's memory and the gateways' stores keep their types,
\* and a gateway refers to rows that exist.
THEOREM TypeCorrect == Spec => []TypeOK
<1>1. IInv => TypeOK
  BY DEF IInv
<1> QED
  BY <1>1, Inductive, PTL

\* handoff_orchestration.go and the renewals issue serving leases of one
\* generation to one gateway only, whatever the order of renewals, claims,
\* failures and retries, and for any number of members.
THEOREM OneOwnerTheorem == Spec => []OneOwnerPerGeneration
<1>1. IInv => OneOwnerPerGeneration
  BY DEF IInv
<1> QED
  BY <1>1, Inductive, PTL

\* The delivery phases of handoff_orchestration.go, each of three transactions
\* with a crash anywhere between them, leave one row per artifact, and no
\* phase waits for a row that was never issued.
THEOREM RetryTheorem == Spec => []RetriesIdempotent
<1>1. IInv => RetriesIdempotent
  BY DEF IInv, RetriesIdempotent, OnceInv, AwaitInv, HasRow, Prepared, Enabled
<1> QED
  BY <1>1, Inductive, PTL

\* What the attestor of pool_vip_ownership_attestation_v3.go acknowledged is
\* not undone: no lease older than an acknowledged release comes back.
THEOREM ReleaseTheorem == Spec => []ReleaseHolds
<1>1. IInv => ReleaseHolds
  <2> SUFFICES ASSUME IInv, NEW n \in Nodes, NEW i \in Rows(n), Row(n, i).role # "serving",
                      Row(n, i).receipt # Never, lease[n] # 0
               PROVE  Row(n, lease[n]).rev > Row(n, i).rev
    BY DEF ReleaseHolds
  <2>1. Attests(n)
    BY DEF IInv, GatewayInv
  <2>2. applied[n] \in Rows(n) /\ lease[n] \in Rows(n)
    BY <2>1 DEF IInv, TypeOK, Attests, Rows
  <2>3. Row(n, i).rev \in Nat /\ Row(n, applied[n]).rev \in Nat /\ Row(n, lease[n]).rev \in Nat
    BY <2>2, RowTyped DEF IInv
  <2>4. i = applied[n] \/ Row(n, i).rev < Row(n, applied[n]).rev
    BY <2>1 DEF Attests
  <2>5. /\ Row(n, lease[n]).role = "serving"
        /\ lease[n] = applied[n] \/ Row(n, lease[n]).rev > Row(n, applied[n]).rev
    BY <2>1 DEF Attests
  <2> QED
    BY <2>3, <2>4, <2>5
<1> QED
  BY <1>1, Inductive, PTL

\* A lease past its expiry and the margin on the control plane's clock is past
\* its expiry on the gateway's.
LEMMA Expired ==
  ASSUME TypeOK, NEW n \in Nodes, NEW e \in Nat, e + Skew <= now
  PROVE  ~(Clock(n) < e)
<1>1. now \in Nat /\ Skew \in Nat /\ Lag[n] \in 0 .. Skew
  BY HandoffAssumption DEF TypeOK
<1>2. ~(now - Lag[n] < e)
  BY <1>1
<1> QED
  BY <1>2 DEF Clock

\* The previous owner that renewals may leave out carries no traffic, on any
\* clock within the margin.
THEOREM RetiredTheorem == Spec => []RetiredOwnerSilent
<1>1. IInv => RetiredOwnerSilent
  <2> SUFFICES ASSUME IInv, NEW n \in Nodes, RetiredOwner(n), Serving(n) PROVE FALSE
    BY DEF RetiredOwnerSilent
  <2>1. Attests(n) /\ lease[n] # 0 /\ Clock(n) < Row(n, lease[n]).exp
    BY DEF IInv, GatewayInv, Serving
  <2>2. lease[n] \in Rows(n) /\ Row(n, lease[n]).role = "serving"
    BY <2>1 DEF IInv, TypeOK, Attests, Rows
  <2>3. Row(n, lease[n]).exp \in Nat /\ Row(n, lease[n]).exp + Skew <= now
    BY <2>2, RowTyped DEF IInv, RetiredOwner
  <2> QED
    BY <2>1, <2>3, Expired DEF IInv
<1> QED
  BY <1>1, Inductive, PTL

\* Break before make, for any number of members, operations and renewals and
\* any clocks within the margin: a gateway that carries the pool's traffic is
\* the owner the database names, under the current generation, as long as the
\* old lease of every operation that went by expiry covered its old owner.
THEOREM OwnerTheorem == Spec => []OnlyOwnerServes
<1>1. IInv => OnlyOwnerServes
  <2> SUFFICES ASSUME IInv, ExpiriesCovered, NEW n \in Nodes, Serving(n)
               PROVE  n = active /\ Row(n, lease[n]).gen = gen
    BY DEF OnlyOwnerServes
  <2> DEFINE l == lease[n]
  <2>1. Attests(n) /\ l # 0 /\ Clock(n) < Row(n, l).exp /\ TypeOK
    BY DEF IInv, GatewayInv, Serving
  <2>2. l \in Rows(n) /\ applied[n] \in Rows(n) /\ Row(n, l).role = "serving"
    BY <2>1 DEF IInv, TypeOK, Attests, Rows
  <2>3. Row(n, l).gen \in Nat /\ Row(n, l).exp \in Nat /\ Row(n, applied[n]).gen \in Nat
    BY <2>1, <2>2, RowTyped
  <2>4. Row(n, l).gen <= gen /\ (Row(n, l).gen = gen => n = active) /\ gen \in Nat
    BY <2>2 DEF IInv, TypeOK, OneOwnerPerGeneration
  <2>5. ASSUME Row(n, l).gen < gen PROVE FALSE
    <3>1. PICK k \in DOMAIN ops : /\ ops[k].gen = Row(n, l).gen + 1 /\ ops[k].old = n
                                  /\ ops[k].phase \in PostCAS
      BY <2>2, <2>5 DEF IInv, PassedInv
    <3>2. Released(ops[k])
      BY <3>1 DEF IInv, OpInv
    <3>3. CASE Withdrawn(ops[k])
      <4>1. PICK i \in Rows(n) : Row(n, i).gen = ops[k].gen /\ Row(n, i).receipt # Never
        BY <3>1, <3>3 DEF Withdrawn
      <4>2. Row(n, i).gen <= Row(n, applied[n]).gen /\ Row(n, l).gen >= Row(n, applied[n]).gen
        BY <2>1, <4>1 DEF Attests
      <4> QED
        BY <2>3, <3>1, <4>1, <4>2
    <3>4. CASE ops[k].expAt # Never /\ ops[k].oldExp + Skew <= now
      <4>1. Row(n, l).exp <= ops[k].oldExp
        BY <2>2, <2>3, <3>1, <3>4 DEF ExpiriesCovered, Covered
      <4>2. ops[k].oldExp \in Nat /\ now \in Nat
        BY <2>1, OpTyped DEF TypeOK
      <4>3. Row(n, l).exp + Skew <= now
        BY <2>3, <3>4, <4>1, <4>2, HandoffAssumption
      <4> QED
        BY <2>1, <2>3, <4>3, Expired
    <3> QED
      BY <3>2, <3>3, <3>4 DEF Released
  <2> QED
    BY <2>3, <2>4, <2>5
<1> QED
  BY <1>1, Inductive, PTL
=============================================================================
