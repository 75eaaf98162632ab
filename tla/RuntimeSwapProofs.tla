------------------------- MODULE RuntimeSwapProofs --------------------------
(***************************************************************************)
(* Proofs about RuntimeSwap for every number of layers, experts and slots, *)
(* every lookahead and limit, and every mixture of safe settings.          *)
(***************************************************************************)
EXTENDS RuntimeSwap, TLAPS

(* Every variable holds a value of its type.                                *)
PendingType == [slots : Placements, evict : (SUBSET Slots) \ {{}}, missed : BOOLEAN]
JobType == [state : {"none", "running", "done", "failed"}, left : SUBSET Slots]
SwapTypeOK ==
    /\ opt \in SafeOptions
    /\ layer \in Layers
    /\ pc \in {"commit", "schedule", "swap", "compute", "raised"}
    /\ map \in [Layers -> {Tables(slots) : slots \in Placements}]
    /\ weights \in [Layers -> [Slots -> Experts]]
    /\ pending \in [Layers -> PendingType \cup {NoPending}]
    /\ job \in [Layers -> JobType]

(* There is work exactly for what is pending; when the work on live slots   *)
(* is done nothing is left of it, and it does not fail.                     *)
JobsMatch ==
    \A l \in Layers :
        /\ job[l].state = "none" <=> ~ IsPending(l)
        /\ job[l].left \subseteq pending[l].evict
        /\ ~ opt.staging /\ job[l].state = "done" => job[l].left = {}
        /\ job[l].state = "failed" => opt.staging

(* Only staged prefetches are missed, and a plan that was not missed still  *)
(* fits the placement it was made for.                                      *)
FreshOrMissed ==
    \A l \in Layers : IsPending(l) =>
        IF pending[l].missed THEN opt.staging
        ELSE \A s \in Slots \ pending[l].evict : pending[l].slots[s] = map[l].slots[s]

(* A slot holds the expert of the mapping, but for the live slots that the  *)
(* worker has written already.                                              *)
WeightsFollow ==
    \A l \in Layers : \A s \in Slots :
        weights[l][s] = IF ~ opt.staging /\ s \in pending[l].evict \ job[l].left
                        THEN pending[l].slots[s] ELSE map[l].slots[s]

(* Past its entry, nothing is pending for the layer unless it was missed.   *)
SettledOnEntry ==
    pc \in {"schedule", "swap", "compute"} => ~ IsPending(layer) \/ pending[layer].missed

(* The inductive invariant.  The mapping alone is not inductive: that a     *)
(* commit keeps it a bijection needs the plan to be fresh, which needs to   *)
(* know what may be pending when the foreground swaps.                      *)
SwapInv == SwapTypeOK /\ JobsMatch /\ FreshOrMissed /\ WeightsFollow /\ SettledOnEntry

-----------------------------------------------------------------------------
(* Facts about tables and plans. *)

(* The tables of a placement name it, and two placements have other tables. *)
LEMMA TablesFields ==
  ASSUME NEW slots \in Placements
  PROVE  /\ Tables(slots).slots = slots
         /\ Tables(slots).mask = Range(slots)
         /\ \A s \in Slots : slots[s] \in Experts
         /\ \A s, u \in Slots : slots[s] = slots[u] => s = u
         /\ \A e \in Experts : e \in Range(slots) <=> \E s \in Slots : slots[s] = e
BY DEF Tables, Placements, Range, IsInjective

(* A plan keeps what it does not evict and is a placement again.            *)
LEMMA PlanFields ==
  ASSUME SwapTypeOK, NEW l \in Layers, NEW plan \in Plans(l)
  PROVE  /\ plan.slots \in Placements
         /\ plan.evict \in (SUBSET Slots) \ {{}}
         /\ \A s \in Slots \ plan.evict : plan.slots[s] = map[l].slots[s]
<1>1. PICK T \in Targets : plan \in PlansFor(l, T)
  BY DEF Plans
<1>2. PICK E \in {D \in SUBSET Evictable(l, T) : D # {} /\ Cardinality(D) <= Taken(l, T)} :
      \E g \in [E -> New(l, T)] :
        /\ IsInjective(g)
        /\ plan = Plan([s \in Slots |-> IF s \in DOMAIN g THEN g[s] ELSE map[l].slots[s]], DOMAIN g)
  BY <1>1 DEF PlansFor
<1>3. PICK g \in [E -> New(l, T)] :
        /\ IsInjective(g)
        /\ plan = Plan([s \in Slots |-> IF s \in DOMAIN g THEN g[s] ELSE map[l].slots[s]], DOMAIN g)
  BY <1>2
<1>4. PICK slots \in Placements : map[l] = Tables(slots)
  BY DEF SwapTypeOK
<1>5. map[l].slots = slots
  BY <1>4, TablesFields
<1>6. E \subseteq Slots /\ E # {}
  BY <1>2 DEF Evictable
<1>7. plan.evict = E /\ plan.slots = [s \in Slots |-> IF s \in E THEN g[s] ELSE slots[s]]
  BY <1>3, <1>5 DEF Plan
<1>8. \A s \in E : g[s] \in Experts /\ g[s] \notin Range(slots)
  BY <1>3, <1>5 DEF New, Targets
<1>9. \A s, u \in E : g[s] = g[u] => s = u
  BY <1>3 DEF IsInjective
<1>10. \A s \in Slots : slots[s] \in Experts /\ slots[s] \in Range(slots)
  BY TablesFields
<1>11. \A s, u \in Slots : slots[s] = slots[u] => s = u
  BY TablesFields
<1>12. plan.slots \in Placements
  BY <1>6, <1>7, <1>8, <1>9, <1>10, <1>11 DEF Placements, IsInjective
<1> QED
  BY <1>5, <1>6, <1>7, <1>12

(* The delta is the full update, when the plan fits the placement.          *)
LEMMA DeltaIsFull ==
  ASSUME NEW slots \in Placements,
         NEW plan, plan.slots \in Placements, plan.evict \in SUBSET Slots,
         \A s \in Slots \ plan.evict : plan.slots[s] = slots[s]
  PROVE  DeltaTables(Tables(slots), plan) = Tables(plan.slots)
<1> DEFINE old == Tables(slots)
           new == plan.slots
           out == {old.slots[s] : s \in plan.evict}
           in  == {new[s] : s \in plan.evict}
<1>1. /\ old.slots = slots /\ old.mask = Range(slots)
      /\ \A s, u \in Slots : slots[s] = slots[u] => s = u
      /\ \A e \in Experts : e \in Range(slots) <=> \E s \in Slots : slots[s] = e
      /\ \A s \in Slots : slots[s] \in Experts
  BY TablesFields
<1>2. /\ \A s, u \in Slots : new[s] = new[u] => s = u
      /\ \A e \in Experts : e \in Range(new) <=> \E s \in Slots : new[s] = e
      /\ \A s \in Slots : new[s] \in Experts
  BY TablesFields
<1>3. [s \in Slots |-> IF s \in plan.evict THEN new[s] ELSE old.slots[s]] = new
  BY <1>1 DEF Placements
<1>4. out \subseteq Experts /\ in \subseteq Experts /\ Range(slots) \subseteq Experts /\ Range(new) \subseteq Experts
  BY <1>1, <1>2 DEF Placements, Range
<1>5. (old.mask \ out) \cup in = Range(new)
  <2>1. ASSUME NEW e \in Experts PROVE e \in (old.mask \ out) \cup in <=> e \in Range(new)
    BY <1>1, <1>2
  <2> QED
    BY <2>1, <1>1, <1>4
<1>6. ASSUME NEW e \in Experts
      PROVE  (IF e \in in THEN CHOOSE s \in plan.evict : new[s] = e
              ELSE IF e \in out THEN NoSlot ELSE old.index[e])
             = IF e \in Range(new) THEN CHOOSE s \in Slots : new[s] = e ELSE NoSlot
  <2>1. old.index[e] = IF e \in Range(slots) THEN CHOOSE s \in Slots : slots[s] = e ELSE NoSlot
    BY DEF Tables
  <2>2. CASE e \in in
    <3>1. PICK s \in plan.evict : new[s] = e
      BY <2>2
    <3>2. (CHOOSE u \in plan.evict : new[u] = e) = s
      BY <3>1, <1>2
    <3>3. (CHOOSE u \in Slots : new[u] = e) = s
      BY <3>1, <1>2
    <3>4. e \in Range(new)
      BY <3>1, <1>2
    <3> QED
      BY <2>2, <3>2, <3>3, <3>4
  <2>3. CASE e \notin in /\ e \in out
    BY <2>3, <1>1, <1>2
  <2>4. CASE e \notin in /\ e \notin out /\ e \in Range(slots)
    <3>1. PICK s \in Slots : slots[s] = e
      BY <2>4, <1>1
    <3>2. s \notin plan.evict /\ new[s] = e
      BY <3>1, <2>4, <1>1
    <3>3. (CHOOSE u \in Slots : slots[u] = e) = s
      BY <3>1, <1>1
    <3>4. (CHOOSE u \in Slots : new[u] = e) = s
      BY <3>2, <1>2
    <3>5. e \in Range(new)
      BY <3>2, <1>2
    <3> QED
      BY <2>1, <2>4, <3>3, <3>4, <3>5
  <2>5. CASE e \notin in /\ e \notin out /\ e \notin Range(slots)
    BY <2>1, <2>5, <1>1, <1>2
  <2> QED
    BY <2>2, <2>3, <2>4, <2>5
<1>7. [e \in Experts |-> IF e \in in THEN CHOOSE s \in plan.evict : new[s] = e
                          ELSE IF e \in out THEN NoSlot ELSE old.index[e]]
      = [e \in Experts |-> IF e \in Range(new) THEN CHOOSE s \in Slots : new[s] = e ELSE NoSlot]
  BY <1>6, Zenon
<1>8. DeltaTables(old, plan) =
        [slots |-> [s \in Slots |-> IF s \in plan.evict THEN new[s] ELSE old.slots[s]],
         mask  |-> (old.mask \ out) \cup in,
         index |-> [e \in Experts |-> IF e \in in THEN CHOOSE s \in plan.evict : new[s] = e
                                      ELSE IF e \in out THEN NoSlot ELSE old.index[e]]]
  BY DEF DeltaTables
<1>9. Tables(new) =
        [slots |-> new, mask |-> Range(new),
         index |-> [e \in Experts |-> IF e \in Range(new) THEN CHOOSE s \in Slots : new[s] = e
                                      ELSE NoSlot]]
  BY DEF Tables
<1> QED
  BY <1>3, <1>5, <1>7, <1>8, <1>9, Zenon

(* The mapping of a layer is the tables of its slots, remapped or not.      *)
LEMMA MapIsTables ==
  ASSUME SwapTypeOK, NEW l \in Layers
  PROVE  /\ map[l].slots \in Placements
         /\ map[l] = Tables(map[l].slots)
         /\ \A s \in Slots : map[l].slots[s] \in Experts
<1>1. PICK slots \in Placements : map[l] = Tables(slots)
  BY DEF SwapTypeOK
<1> QED
  BY <1>1, TablesFields

LEMMA RemappedFields ==
  ASSUME SwapTypeOK, NEW l \in Layers,
         NEW plan, plan.slots \in Placements, plan.evict \in SUBSET Slots,
         \A s \in Slots \ plan.evict : plan.slots[s] = map[l].slots[s]
  PROVE  /\ Remapped(l, plan) \in {Tables(slots) : slots \in Placements}
         /\ Remapped(l, plan).slots = plan.slots
<1>1. DeltaTables(map[l], plan) = Tables(plan.slots)
  BY MapIsTables, DeltaIsFull
<1>2. Remapped(l, plan) = Tables(plan.slots)
  BY <1>1 DEF Remapped
<1> QED
  BY <1>2, TablesFields

(* What is pending is a plan; what is not pending evicts nothing.           *)
LEMMA PendingFields ==
  ASSUME SwapTypeOK, NEW l \in Layers
  PROVE  /\ IsPending(l) => pending[l] \in PendingType
         /\ ~ IsPending(l) => pending[l].evict = {}
BY DEF SwapTypeOK, IsPending, NoPending

-----------------------------------------------------------------------------
(* One lemma for each step that touches a mapping, a plan or a slot. *)

LEMMA CommitPreserves == ASSUME SwapInv, CommitPrefetch PROVE SwapInv'
<1> USE DEF SwapInv
<1> DEFINE p == pending[layer]
<1>1. layer \in Layers /\ IsPending(layer) /\ ~ p.missed
  BY DEF CommitPrefetch, Stale, JobsMatch, SwapTypeOK
<1>2. p \in PendingType /\ \A s \in Slots \ p.evict : p.slots[s] = map[layer].slots[s]
  BY <1>1, PendingFields DEF FreshOrMissed
<1>3. p.slots \in Placements /\ p.evict \in SUBSET Slots
  BY <1>2 DEF PendingType
<1>4. /\ Remapped(layer, p) \in {Tables(slots) : slots \in Placements}
      /\ Remapped(layer, p).slots = p.slots
  BY <1>1, <1>2, <1>3, RemappedFields
<1>5. \A s \in Slots : p.slots[s] \in Experts
  BY <1>3, TablesFields
<1>6. /\ weights' = IF opt.staging THEN [weights EXCEPT ![layer] = Written(layer, p)] ELSE weights
      /\ map' = [map EXCEPT ![layer] = Remapped(layer, p)]
      /\ pending' = [pending EXCEPT ![layer] = NoPending]
      /\ job' = [job EXCEPT ![layer] = NoJob]
      /\ UNCHANGED <<opt, layer>> /\ pc' = "schedule"
  BY DEF CommitPrefetch, Clear, Keeps
<1>7. Written(layer, p) \in [Slots -> Experts]
  BY <1>1, <1>3, <1>5 DEF Written, SwapTypeOK
<1>8. SwapTypeOK'
  BY <1>1, <1>4, <1>6, <1>7 DEF SwapTypeOK, NoJob, JobType
<1>9. JobsMatch'
  BY <1>1, <1>6 DEF JobsMatch, SwapTypeOK, NoJob, NoPending, IsPending
<1>10. FreshOrMissed'
  BY <1>1, <1>6 DEF FreshOrMissed, SwapTypeOK, IsPending
<1>11. WeightsFollow'
  <2> SUFFICES ASSUME NEW l \in Layers, NEW s \in Slots
               PROVE  (weights[l][s] = IF ~ opt.staging /\ s \in pending[l].evict \ job[l].left
                                       THEN pending[l].slots[s] ELSE map[l].slots[s])'
    BY DEF WeightsFollow
  <2>1. CASE l # layer
    BY <2>1, <1>6 DEF WeightsFollow, SwapTypeOK
  <2>2. CASE l = layer /\ opt.staging
    <3>1. weights'[l][s] = p.slots[s]
      BY <2>2, <1>1, <1>2, <1>6 DEF Written, WeightsFollow, SwapTypeOK
    <3> QED
      BY <3>1, <2>2, <1>1, <1>4, <1>6 DEF SwapTypeOK
  <2>3. CASE l = layer /\ ~ opt.staging
    <3>1. job[layer].left = {}
      BY <2>3, <1>1 DEF JobsMatch, CommitPrefetch
    <3>2. weights[layer][s] = p.slots[s]
      BY <2>3, <3>1, <1>1, <1>2 DEF WeightsFollow
    <3> QED
      BY <3>2, <2>3, <1>1, <1>4, <1>6 DEF SwapTypeOK, NoPending
  <2> QED
    BY <2>1, <2>2, <2>3
<1>12. SettledOnEntry'
  BY <1>1, <1>6 DEF SettledOnEntry, SwapTypeOK, IsPending
<1> QED
  BY <1>8, <1>9, <1>10, <1>11, <1>12

LEMMA SwapPreserves == ASSUME SwapInv, SwapInForeground PROVE SwapInv'
<1> USE DEF SwapInv
<1>1. layer \in Layers
  BY DEF SwapTypeOK
<1>2. PICK plan \in Plans(layer) :
        /\ weights' = [weights EXCEPT ![layer] = Written(layer, plan)]
        /\ map' = [map EXCEPT ![layer] = Remapped(layer, plan)]
  BY DEF SwapInForeground
<1>3. /\ plan.slots \in Placements /\ plan.evict \in SUBSET Slots
      /\ \A s \in Slots \ plan.evict : plan.slots[s] = map[layer].slots[s]
  BY <1>1, PlanFields
<1>4. /\ Remapped(layer, plan) \in {Tables(slots) : slots \in Placements}
      /\ Remapped(layer, plan).slots = plan.slots
  BY <1>1, <1>3, RemappedFields
<1>5. pc = "swap" /\ pc' = "compute" /\ UNCHANGED <<opt, layer, committed, pending, job>>
  BY DEF SwapInForeground
<1>6. IsPending(layer) => opt.staging /\ pending[layer].missed
  BY <1>1, <1>5 DEF SettledOnEntry, FreshOrMissed
<1>7. \A s \in Slots : weights[layer][s] = map[layer].slots[s]
  BY <1>1, <1>6, PendingFields DEF WeightsFollow
<1>8. \A s \in Slots : plan.slots[s] \in Experts
  BY <1>3, TablesFields
<1>9. SwapTypeOK'
  BY <1>1, <1>2, <1>4, <1>5, <1>8 DEF SwapTypeOK, Written
<1>10. JobsMatch'
  BY <1>5 DEF JobsMatch, IsPending
<1>11. FreshOrMissed'
  BY <1>1, <1>2, <1>5, <1>6 DEF FreshOrMissed, SwapTypeOK, IsPending
<1>12. WeightsFollow'
  <2> SUFFICES ASSUME NEW l \in Layers, NEW s \in Slots
               PROVE  (weights[l][s] = IF ~ opt.staging /\ s \in pending[l].evict \ job[l].left
                                       THEN pending[l].slots[s] ELSE map[l].slots[s])'
    BY DEF WeightsFollow
  <2>1. CASE l # layer
    BY <2>1, <1>2, <1>5 DEF WeightsFollow, SwapTypeOK
  <2>2. CASE l = layer
    <3>1. weights'[l][s] = plan.slots[s]
      BY <2>2, <1>1, <1>2, <1>3, <1>7 DEF Written, SwapTypeOK
    <3>2. opt.staging \/ pending[l].evict = {}
      BY <2>2, <1>1, <1>6, PendingFields
    <3> QED
      BY <3>1, <3>2, <2>2, <1>1, <1>2, <1>4, <1>5 DEF SwapTypeOK
  <2> QED
    BY <2>1, <2>2
<1>13. SettledOnEntry'
  BY <1>5 DEF SettledOnEntry, IsPending
<1> QED
  BY <1>9, <1>10, <1>11, <1>12, <1>13

LEMMA SchedulePreserves == ASSUME SwapInv, SchedulePrefetch PROVE SwapInv'
<1> USE DEF SwapInv
<1>1. PICK t \in Prefetchable : \E plan \in Plans(t) :
        /\ Free(t)
        /\ pending' = [pending EXCEPT ![t] =
              [slots |-> plan.slots, evict |-> plan.evict, missed |-> FALSE]]
        /\ job' = [job EXCEPT ![t] = [state |-> "running", left |-> plan.evict]]
  BY DEF SchedulePrefetch
<1>2. PICK plan \in Plans(t) :
        /\ Free(t)
        /\ pending' = [pending EXCEPT ![t] =
              [slots |-> plan.slots, evict |-> plan.evict, missed |-> FALSE]]
        /\ job' = [job EXCEPT ![t] = [state |-> "running", left |-> plan.evict]]
  BY <1>1
<1>3. t \in Layers /\ t # layer /\ layer \in Layers
  BY SwapAssumption DEF Prefetchable, Layers, SwapTypeOK
<1>4. /\ plan.slots \in Placements /\ plan.evict \in (SUBSET Slots) \ {{}}
      /\ \A s \in Slots \ plan.evict : plan.slots[s] = map[t].slots[s]
  BY <1>3, PlanFields
<1>5. pc = "schedule" /\ UNCHANGED <<opt, layer, pc, committed, map, weights>>
  BY DEF SchedulePrefetch
<1>6. pending'[t] \in PendingType /\ job'[t] \in JobType
  BY <1>2, <1>3, <1>4 DEF PendingType, JobType, SwapTypeOK
<1>7. SwapTypeOK'
  BY <1>2, <1>3, <1>5, <1>6 DEF SwapTypeOK
<1>8. pending'[t] # NoPending
  BY <1>6 DEF PendingType, NoPending
<1>9. JobsMatch'
  <2> SUFFICES ASSUME NEW l \in Layers
               PROVE  (/\ job[l].state = "none" <=> ~ IsPending(l)
                       /\ job[l].left \subseteq pending[l].evict
                       /\ ~ opt.staging /\ job[l].state = "done" => job[l].left = {}
                       /\ job[l].state = "failed" => opt.staging)'
    BY DEF JobsMatch
  <2>1. CASE l = t
    BY <2>1, <1>2, <1>3, <1>8 DEF SwapTypeOK, IsPending
  <2>2. CASE l # t
    BY <2>2, <1>2, <1>5 DEF JobsMatch, SwapTypeOK, IsPending
  <2> QED
    BY <2>1, <2>2
<1>10. FreshOrMissed'
  BY <1>2, <1>3, <1>4, <1>5 DEF FreshOrMissed, SwapTypeOK, IsPending
<1>11. WeightsFollow'
  <2>1. pending[t].evict = {}
    BY <1>2, <1>3, PendingFields DEF Free
  <2>2. \A s \in Slots : weights[t][s] = map[t].slots[s]
    BY <2>1, <1>3 DEF WeightsFollow
  <2>3. pending'[t].evict \ job'[t].left = {}
    BY <1>2, <1>3 DEF SwapTypeOK
  <2> QED
    BY <2>2, <2>3, <1>2, <1>5 DEF WeightsFollow, SwapTypeOK
<1>12. SettledOnEntry'
  BY <1>2, <1>3, <1>5 DEF SettledOnEntry, SwapTypeOK, IsPending
<1> QED
  BY <1>7, <1>9, <1>10, <1>11, <1>12

(* Updating one field of a record leaves the others alone.                  *)
LEMMA MissedRecord ==
  ASSUME NEW p \in PendingType
  PROVE  LET q == [p EXCEPT !.missed = TRUE]
         IN  q \in PendingType /\ q.slots = p.slots /\ q.evict = p.evict /\ q.missed = TRUE
BY DEF PendingType

LEMMA StateRecord ==
  ASSUME NEW j \in JobType, NEW st \in {"done", "failed"}
  PROVE  LET k == [j EXCEPT !.state = st]
         IN  k \in JobType /\ k.state = st /\ k.left = j.left
BY DEF JobType

LEMMA LeftRecord ==
  ASSUME NEW j \in JobType, NEW s
  PROVE  LET k == [j EXCEPT !.left = @ \ {s}]
         IN  k \in JobType /\ k.state = j.state /\ k.left = j.left \ {s}
BY DEF JobType

(* A missed prefetch is a staged one, and it will be dropped.               *)
LEMMA MissPreserves == ASSUME SwapInv, MissedIt PROVE SwapInv'
<1> USE DEF SwapInv
<1>1. /\ layer \in Layers /\ IsPending(layer) /\ pc' = "schedule"
      /\ pending' = [pending EXCEPT ![layer].missed = @ \/ opt.discard_missed]
      /\ UNCHANGED <<opt, layer, map, weights, job>>
  BY DEF MissedIt, Keeps, SwapTypeOK
<1>2. opt.staging /\ opt.discard_missed
  BY DEF MissedIt, MustWait, LiveSlotWrite, SwapTypeOK, SafeOptions, OptionType
<1>3. pending[layer] \in PendingType
  BY <1>1, PendingFields
<1>4. /\ pending' = [pending EXCEPT ![layer] = [@ EXCEPT !.missed = TRUE]]
      /\ pending' \in [Layers -> PendingType \cup {NoPending}]
      /\ \A l \in Layers \ {layer} : pending'[l] = pending[l]
  <2>1. (pending[layer].missed \/ opt.discard_missed) = TRUE
    BY <1>2
  <2>2. pending' = [pending EXCEPT ![layer] = [pending[layer] EXCEPT !.missed = TRUE]]
    BY <1>1, <2>1
  <2>3. [pending[layer] EXCEPT !.missed = TRUE] \in PendingType
    BY <1>3, MissedRecord
  <2> QED
    BY <1>1, <2>2, <2>3 DEF SwapTypeOK
<1>5. /\ pending'[layer] \in PendingType
      /\ pending'[layer].slots = pending[layer].slots
      /\ pending'[layer].evict = pending[layer].evict
      /\ pending'[layer].missed = TRUE
  <2>1. pending'[layer] = [pending[layer] EXCEPT !.missed = TRUE]
    BY <1>1, <1>4 DEF SwapTypeOK
  <2> QED
    BY <2>1, <1>3, MissedRecord
<1>6. pending'[layer] # NoPending
  BY <1>5 DEF PendingType, NoPending
<1>7. SwapTypeOK'
  BY <1>1, <1>4 DEF SwapTypeOK
<1>8. JobsMatch'
  <2> SUFFICES ASSUME NEW l \in Layers
               PROVE  (/\ job[l].state = "none" <=> ~ IsPending(l)
                       /\ job[l].left \subseteq pending[l].evict
                       /\ ~ opt.staging /\ job[l].state = "done" => job[l].left = {}
                       /\ job[l].state = "failed" => opt.staging)'
    BY DEF JobsMatch
  <2>1. CASE l = layer
    BY <2>1, <1>1, <1>5, <1>6 DEF JobsMatch, IsPending
  <2>2. CASE l # layer
    BY <2>2, <1>1, <1>4 DEF JobsMatch, IsPending
  <2> QED
    BY <2>1, <2>2
<1>9. FreshOrMissed'
  BY <1>1, <1>2, <1>4, <1>5 DEF FreshOrMissed, IsPending
<1>10. WeightsFollow'
  BY <1>1, <1>2 DEF WeightsFollow
<1>11. SettledOnEntry'
  BY <1>1, <1>5 DEF SettledOnEntry
<1> QED
  BY <1>7, <1>8, <1>9, <1>10, <1>11

(* Dropping a staged prefetch touches no slot.                              *)
LEMMA DropPreserves == ASSUME SwapInv, FailedIt \/ DropMissed PROVE SwapInv'
<1> USE DEF SwapInv
<1>1. /\ layer \in Layers /\ pc' = "schedule"
      /\ pending' = [pending EXCEPT ![layer] = NoPending]
      /\ job' = [job EXCEPT ![layer] = NoJob]
      /\ UNCHANGED <<opt, layer, map, weights>>
  BY DEF FailedIt, DropMissed, Clear, Keeps, SwapTypeOK
<1>2. opt.staging
  <2>1. CASE FailedIt
    BY <1>1, <2>1 DEF FailedIt, JobsMatch
  <2>2. CASE DropMissed
    BY <1>1, <2>2 DEF DropMissed, Stale, JobsMatch, FreshOrMissed
  <2> QED
    BY <2>1, <2>2
<1>3. SwapTypeOK'
  BY <1>1 DEF SwapTypeOK, NoJob, JobType
<1>4. JobsMatch'
  BY <1>1 DEF JobsMatch, SwapTypeOK, NoJob, NoPending, IsPending
<1>5. FreshOrMissed'
  BY <1>1 DEF FreshOrMissed, SwapTypeOK, IsPending
<1>6. WeightsFollow'
  BY <1>1, <1>2 DEF WeightsFollow
<1>7. SettledOnEntry'
  BY <1>1 DEF SettledOnEntry, SwapTypeOK, IsPending
<1> QED
  BY <1>3, <1>4, <1>5, <1>6, <1>7

(* The worker writes one more live slot; the mapping does not show it yet.  *)
LEMMA WritePreserves == ASSUME SwapInv, NEW t \in Layers, WriteLiveSlot(t) PROVE SwapInv'
<1> USE DEF SwapInv
<1>1. PICK s \in job[t].left :
        /\ weights' = [weights EXCEPT ![t][s] = pending[t].slots[s]]
        /\ job' = [job EXCEPT ![t].left = @ \ {s}]
  BY DEF WriteLiveSlot
<1>2. /\ job[t].state = "running" /\ ~ opt.staging
      /\ UNCHANGED <<opt, layer, pc, committed, map, pending>>
  BY DEF WriteLiveSlot
<1>3. s \in Slots /\ s \in pending[t].evict /\ job[t] \in JobType
  BY DEF JobsMatch, SwapTypeOK, JobType
<1>4. pending[t] \in PendingType
  BY <1>2, PendingFields DEF JobsMatch
<1>5. pending[t].slots[s] \in Experts
  BY <1>3, <1>4, TablesFields DEF PendingType
<1>6. /\ job' \in [Layers -> JobType]
      /\ job'[t].state = job[t].state /\ job'[t].left = job[t].left \ {s}
      /\ \A l \in Layers \ {t} : job'[l] = job[l]
  BY <1>1, <1>3, LeftRecord DEF SwapTypeOK
<1>7. SwapTypeOK'
  <2>1. weights' \in [Layers -> [Slots -> Experts]]
    BY <1>1, <1>3, <1>5 DEF SwapTypeOK
  <2> QED
    BY <2>1, <1>2, <1>6 DEF SwapTypeOK
<1>8. JobsMatch'
  BY <1>2, <1>3, <1>6 DEF JobsMatch, IsPending
<1>9. FreshOrMissed'
  BY <1>2 DEF FreshOrMissed, IsPending
<1>10. WeightsFollow'
  <2> SUFFICES ASSUME NEW l \in Layers, NEW u \in Slots
               PROVE  (weights[l][u] = IF ~ opt.staging /\ u \in pending[l].evict \ job[l].left
                                       THEN pending[l].slots[u] ELSE map[l].slots[u])'
    BY DEF WeightsFollow
  <2>1. CASE l = t /\ u = s
    BY <2>1, <1>1, <1>2, <1>3, <1>6 DEF SwapTypeOK
  <2>2. CASE l # t
    BY <2>2, <1>1, <1>2, <1>6 DEF WeightsFollow, SwapTypeOK
  <2>3. CASE l = t /\ u # s
    <3>1. weights'[t][u] = weights[t][u]
      BY <2>3, <1>1, <1>3 DEF SwapTypeOK
    <3>2. u \in job'[t].left <=> u \in job[t].left
      BY <2>3, <1>6
    <3> QED
      BY <2>3, <3>1, <3>2, <1>2 DEF WeightsFollow
  <2> QED
    BY <2>1, <2>2, <2>3
<1>11. SettledOnEntry'
  BY <1>2 DEF SettledOnEntry, IsPending
<1> QED
  BY <1>7, <1>8, <1>9, <1>10, <1>11

LEMMA EndPreserves == ASSUME SwapInv, NEW t \in Layers, FinishJob(t) \/ FailJob(t) PROVE SwapInv'
<1> USE DEF SwapInv
<1>1. PICK st \in {"done", "failed"} :
        /\ job' = [job EXCEPT ![t].state = st]
        /\ st = "done" => opt.staging \/ job[t].left = {}
        /\ st = "failed" => opt.reads_fail /\ opt.background
  BY DEF FinishJob, FailJob
<1>2. /\ job[t].state = "running"
      /\ UNCHANGED <<opt, layer, pc, committed, map, weights, pending>>
  BY DEF FinishJob, FailJob
<1>3. /\ job' \in [Layers -> JobType]
      /\ job'[t].state = st /\ job'[t].left = job[t].left
      /\ \A l \in Layers \ {t} : job'[l] = job[l]
  <2>1. job[t] \in JobType
    BY DEF SwapTypeOK
  <2>2. job' = [job EXCEPT ![t] = [job[t] EXCEPT !.state = st]]
    BY <1>1
  <2>3. /\ [job[t] EXCEPT !.state = st] \in JobType
        /\ [job[t] EXCEPT !.state = st].state = st
        /\ [job[t] EXCEPT !.state = st].left = job[t].left
    BY <2>1, StateRecord
  <2> QED
    BY <2>2, <2>3 DEF SwapTypeOK
<1>4. st = "failed" => opt.staging
  <2>1. ~ opt.staging => ~ (opt.background /\ opt.reads_fail)
    BY DEF SwapTypeOK, SafeOptions
  <2> QED
    BY <2>1, <1>1
<1>5. SwapTypeOK'
  BY <1>2, <1>3 DEF SwapTypeOK
<1>6. JobsMatch'
  <2> SUFFICES ASSUME NEW l \in Layers
               PROVE  (/\ job[l].state = "none" <=> ~ IsPending(l)
                       /\ job[l].left \subseteq pending[l].evict
                       /\ ~ opt.staging /\ job[l].state = "done" => job[l].left = {}
                       /\ job[l].state = "failed" => opt.staging)'
    BY DEF JobsMatch
  <2>1. CASE l = t
    BY <2>1, <1>1, <1>2, <1>3, <1>4 DEF JobsMatch, IsPending
  <2>2. CASE l # t
    BY <2>2, <1>2, <1>3 DEF JobsMatch, IsPending
  <2> QED
    BY <2>1, <2>2
<1>7. FreshOrMissed'
  BY <1>2 DEF FreshOrMissed, IsPending
<1>8. WeightsFollow'
  BY <1>2, <1>3 DEF WeightsFollow, SwapTypeOK
<1>9. SettledOnEntry'
  BY <1>2 DEF SettledOnEntry, IsPending
<1> QED
  BY <1>5, <1>6, <1>7, <1>8, <1>9

(* The steps that only move the main thread on.                             *)
LEMMA MovePreserves ==
  ASSUME SwapInv, NothingPending \/ EndSchedule \/ KeepPlacement \/ Compute \/ UNCHANGED vars
  PROVE  SwapInv'
<1> USE DEF SwapInv
<1>1. UNCHANGED <<opt, map, weights, pending, job>>
  BY DEF NothingPending, EndSchedule, KeepPlacement, Compute, Keeps, vars
<1>2. layer' \in Layers /\ pc' \in {"commit", "schedule", "swap", "compute", "raised"}
  BY SwapAssumption DEF NothingPending, EndSchedule, KeepPlacement, Compute, Keeps, vars,
     SwapTypeOK, Layers
<1>3. SwapTypeOK'
  BY <1>1, <1>2 DEF SwapTypeOK
<1>4. JobsMatch' /\ FreshOrMissed' /\ WeightsFollow'
  BY <1>1 DEF JobsMatch, FreshOrMissed, WeightsFollow, IsPending
<1>5. SettledOnEntry'
  BY <1>1 DEF NothingPending, EndSchedule, KeepPlacement, Compute, Keeps, vars, SettledOnEntry, IsPending
<1> QED
  BY <1>3, <1>4, <1>5

-----------------------------------------------------------------------------
(* The theorems, for a process with safe settings. *)

LEMMA InitEstablishesSwapInv == ASSUME Options \subseteq SafeOptions, Init PROVE SwapInv
<1>1. \A l \in Layers : weights[l] \in Placements /\ map[l] = Tables(weights[l])
  BY DEF Init
<1>2. \A l \in Layers : map[l].slots = weights[l] /\ weights[l] \in [Slots -> Experts]
  BY <1>1, TablesFields DEF Placements
<1>3. \A l \in Layers : pending[l] = NoPending /\ job[l] = NoJob
  BY DEF Init
<1>4. SwapTypeOK
  <2>1. map \in [Layers -> {Tables(slots) : slots \in Placements}]
    BY <1>1 DEF Init
  <2>2. weights \in [Layers -> [Slots -> Experts]]
    BY <1>2 DEF Init
  <2>3. layer \in Layers
    BY SwapAssumption DEF Init, Layers
  <2> QED
    BY <2>1, <2>2, <2>3 DEF Init, SwapTypeOK, NoJob, JobType
<1>5. JobsMatch
  BY <1>3 DEF JobsMatch, NoJob, NoPending, IsPending
<1>6. FreshOrMissed /\ SettledOnEntry
  BY <1>3 DEF FreshOrMissed, SettledOnEntry, IsPending, Init
<1>7. WeightsFollow
  BY <1>2, <1>3 DEF WeightsFollow, NoPending
<1> QED
  BY <1>4, <1>5, <1>6, <1>7 DEF SwapInv

LEMMA NextPreservesSwapInv == SwapInv /\ [Next]_vars => SwapInv'
BY CommitPreserves, SwapPreserves, SchedulePreserves, MissPreserves, DropPreserves,
   WritePreserves, EndPreserves, MovePreserves DEF Next, Main, Enter, Job

(* The invariant holds in every reachable state.                            *)
THEOREM SwapInvariant == ASSUME Options \subseteq SafeOptions PROVE Spec => []SwapInv
BY InitEstablishesSwapInv, NextPreservesSwapInv, PTL DEF Spec

(* The three mapping tables of a layer are one bijection at every moment.   *)
THEOREM TablesStayOneBijection == ASSUME Options \subseteq SafeOptions PROVE Spec => []TablesAgree
<1>1. SwapInv => TablesAgree
  <2> SUFFICES ASSUME SwapInv, NEW l \in Layers
               PROVE  /\ IsInjective(map[l].slots)
                      /\ map[l].mask = Range(map[l].slots)
                      /\ \A e \in Experts : map[l].index[e] =
                            IF e \in map[l].mask THEN CHOOSE s \in Slots : map[l].slots[s] = e
                            ELSE NoSlot
    BY DEF TablesAgree
  <2>1. map[l].slots \in Placements /\ map[l] = Tables(map[l].slots)
    BY MapIsTables DEF SwapInv
  <2>2. map[l].mask = Range(map[l].slots)
    BY <2>1 DEF Tables
  <2>3. ASSUME NEW slots
        PROVE  Tables(slots).index = [e \in Experts |-> IF e \in Range(slots)
                            THEN CHOOSE s \in Slots : slots[s] = e ELSE NoSlot]
    BY DEF Tables
  <2>4. map[l].index = [e \in Experts |-> IF e \in Range(map[l].slots)
                            THEN CHOOSE s \in Slots : map[l].slots[s] = e ELSE NoSlot]
    BY <2>1, <2>3
  <2> QED
    BY <2>1, <2>2, <2>4 DEF Placements
<1> QED
  BY <1>1, SwapInvariant, PTL

(* Every layer computes each expert of its mask from that expert's weights. *)
THEOREM RightWeights == ASSUME Options \subseteq SafeOptions PROVE Spec => []ComputesItsExperts
<1>1. SwapInv => ComputesItsExperts
  <2> SUFFICES ASSUME SwapInv, pc = "compute", NEW e \in map[layer].mask
               PROVE  /\ map[layer].index[e] # NoSlot
                      /\ weights[layer][map[layer].index[e]] = e
    BY DEF ComputesItsExperts
  <2>1. layer \in Layers
    BY DEF SwapInv, SwapTypeOK
  <2>2. map[layer].slots \in Placements /\ map[layer] = Tables(map[layer].slots)
    BY <2>1, MapIsTables DEF SwapInv
  <2>3. e \in Range(map[layer].slots)
    BY <2>2, TablesFields
  <2>4. PICK s \in Slots : map[layer].slots[s] = e
    BY <2>2, <2>3 DEF Placements, Range
  <2>5. e \in Experts
    BY <2>2, <2>4, TablesFields
  <2>6. map[layer].index[e] = CHOOSE u \in Slots : map[layer].slots[u] = e
    BY <2>2, <2>3, <2>5 DEF Tables
  <2>7. map[layer].index[e] \in Slots /\ map[layer].slots[map[layer].index[e]] = e
    BY <2>4, <2>6
  <2>8. opt.staging \/ pending[layer].evict = {}
    BY <2>1, PendingFields DEF SwapInv, SettledOnEntry, FreshOrMissed
  <2>9. \A u \in Slots : weights[layer][u] = map[layer].slots[u]
    BY <2>1, <2>8 DEF SwapInv, WeightsFollow
  <2> QED
    BY <2>7, <2>9, SwapAssumption
<1> QED
  BY <1>1, SwapInvariant, PTL

(* No prefetch is committed onto a placement it was not planned for.        *)
THEOREM CommittedPlansFit == ASSUME Options \subseteq SafeOptions PROVE Spec => CommitsFreshPlans
<1>1. SwapInv /\ [Next]_vars =>
        [CommitPrefetch => \A s \in Slots \ pending[layer].evict :
            pending[layer].slots[s] = map[layer].slots[s]]_vars
  <2> SUFFICES ASSUME SwapInv, CommitPrefetch
               PROVE  \A s \in Slots \ pending[layer].evict :
                         pending[layer].slots[s] = map[layer].slots[s]
    OBVIOUS
  <2>1. layer \in Layers /\ IsPending(layer) /\ ~ pending[layer].missed
    BY DEF SwapInv, CommitPrefetch, Stale, JobsMatch, SwapTypeOK
  <2> QED
    BY <2>1 DEF SwapInv, FreshOrMissed
<1> QED
  BY <1>1, SwapInvariant, PTL DEF Spec, CommitsFreshPlans
=============================================================================
