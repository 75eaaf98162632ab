---------------------------- MODULE RuntimeSwap ----------------------------
(***************************************************************************)
(* Swapping experts on the GPU while layers run: the runtime expert swap   *)
(* of KTEPWrapperMethod and the background half of                         *)
(* RuntimeHFExpertWeightLoader in layers/moe/kt_ep_wrapper.py.             *)
(*                                                                         *)
(* The main thread runs the layers in order, step after step.  On entering *)
(* a layer it commits the prefetch that is pending there, plans prefetches *)
(* for later layers, and may swap in the foreground before it computes.    *)
(* Prefetches run on a worker thread or on a CUDA stream of their own and  *)
(* either stage weights in temporary buffers or write the live slots.      *)
(* Only the main thread touches pending records, so their lock is left     *)
(* out.  Which experts a batch or the oracle asks for is left open, and so *)
(* is which of them a plan takes, within its limits.                       *)
(*                                                                         *)
(* A process is started with settings of its own.  Not all are safe: what  *)
(* the properties exclude is in the MC module and in the README.           *)
(***************************************************************************)
EXTENDS Naturals, FiniteSets, Functions

CONSTANTS
    NumLayers,
    Experts,
    Slots,          \* the GPU slots of a layer
    NoSlot,         \* not a slot
    Lookahead,      \* gpu_prefetch_lookahead_layers
    MaxChanged,     \* max_changed_slots, 0 for no limit
    Options         \* the settings a process may be started with

Layers == 0 .. (NumLayers - 1)
OptionType == [staging : BOOLEAN, background : BOOLEAN, ready_only : BOOLEAN,
               discard_missed : BOOLEAN, block_on_miss : BOOLEAN,
               full_copy : BOOLEAN, keep_old : BOOLEAN, reads_fail : BOOLEAN]

(* Settings under which the swap is safe: what a layer may compute on       *)
(* without having waited for it must be in temporary buffers, and dropped   *)
(* once it is late; a live slot must not be left half written.              *)
SafeOptions ==
    {o \in OptionType :
        /\ o.ready_only => IF o.staging THEN o.discard_missed ELSE o.background /\ o.block_on_miss
        /\ ~ o.staging => ~ o.reads_fail}

ASSUME SwapAssumption ==
    /\ NumLayers \in Nat /\ Lookahead \in 1 .. (NumLayers - 1) /\ MaxChanged \in Nat
    /\ IsFiniteSet(Experts) /\ IsFiniteSet(Slots) /\ NoSlot \notin Slots
    /\ Cardinality(Slots) <= Cardinality(Experts)
    /\ Options \subseteq OptionType

VARIABLES
    opt,        \* the settings of this process
    layer, pc,  \* where the main thread is
    committed,  \* the pending prefetch of this layer was committed
    map,        \* per layer: slots, mask and index, the three mapping tables
    weights,    \* per layer: the expert whose weights each live slot holds
    pending,    \* per layer: _kt_runtime_gpu_prefetch_pending
    job         \* per layer: the work submitted with it

vars == <<opt, layer, pc, committed, map, weights, pending, job>>

NoPending == [slots |-> <<>>, evict |-> {}, missed |-> FALSE]
NoJob == [state |-> "none", left |-> {}]

(* The mapping tables for a placement: update_gpu_expert_mappings.          *)
Tables(slots) ==
    [slots |-> slots, mask |-> Range(slots),
     index |-> [e \in Experts |-> IF e \in Range(slots)
                                  THEN CHOOSE s \in Slots : slots[s] = e ELSE NoSlot]]

Placements == {f \in [Slots -> Experts] : IsInjective(f)}

Init ==
    /\ opt \in Options
    /\ layer = 0 /\ pc = "commit" /\ committed = FALSE
    /\ weights \in [Layers -> Placements]
    /\ map = [l \in Layers |-> Tables(weights[l])]
    /\ pending = [l \in Layers |-> NoPending]
    /\ job = [l \in Layers |-> NoJob]

-----------------------------------------------------------------------------
(* Swap plans. *)

(* _build_runtime_swap_plan: how many of the wanted experts and how many of *)
(* the slots that may go a plan takes.  Pairs of low gain may be left out.  *)
New(l, target) == target \ Range(map[l].slots)
Evictable(l, target) == {s \in Slots : map[l].slots[s] \notin target}
Over(l, target) == MaxChanged > 0 /\ Cardinality(New(l, target)) > MaxChanged
Taken(l, target) == IF Over(l, target) THEN MaxChanged ELSE Cardinality(New(l, target))
Freed(l, target) ==
    IF Over(l, target) /\ Cardinality(Evictable(l, target)) > MaxChanged
    THEN MaxChanged ELSE Cardinality(Evictable(l, target))

Plan(slots, evict) == [slots |-> slots, evict |-> evict]
PlansFor(l, target) ==
    {Plan([s \in Slots |-> IF s \in DOMAIN f THEN f[s] ELSE map[l].slots[s]], DOMAIN f) :
        f \in UNION {{g \in [E -> New(l, target)] : IsInjective(g)} :
                     E \in {D \in SUBSET Evictable(l, target) :
                              D # {} /\ Cardinality(D) <= Taken(l, target)}}}
Targets == {T \in SUBSET Experts : Cardinality(T) = Cardinality(Slots)}
Plans(l) == UNION {PlansFor(l, T) : T \in Targets}

(* A plan that takes more experts than it frees slots raises, and the       *)
(* program stops.                                                           *)
PlanRaises(l) == \E T \in Targets : Taken(l, T) # Freed(l, T)

(* _apply_runtime_gpu_mapping_delta, in its two forms.                      *)
UnclearedTables(old, plan) ==
    LET out == {old.slots[s] : s \in plan.evict}
        in  == {plan.slots[s] : s \in plan.evict}
    IN  [slots |-> [s \in Slots |-> plan.slots[s]],
         mask  |-> (old.mask \ out) \cup in,
         index |-> [e \in Experts |-> IF e \in in THEN CHOOSE s \in plan.evict : plan.slots[s] = e
                                      ELSE old.index[e]]]
DeltaTables(old, plan) ==
    LET out == {old.slots[s] : s \in plan.evict}
        in  == {plan.slots[s] : s \in plan.evict}
    IN  [slots |-> [s \in Slots |-> IF s \in plan.evict THEN plan.slots[s] ELSE old.slots[s]],
         mask  |-> (old.mask \ out) \cup in,
         index |-> [e \in Experts |->
                      IF e \in in THEN CHOOSE s \in plan.evict : plan.slots[s] = e
                      ELSE IF e \in out THEN NoSlot ELSE old.index[e]]]
Remapped(l, plan) == IF opt.full_copy THEN Tables(plan.slots) ELSE DeltaTables(map[l], plan)
Written(l, plan) ==
    [s \in Slots |-> IF s \in plan.evict THEN plan.slots[s] ELSE weights[l][s]]

-----------------------------------------------------------------------------
(* The worker, or the prefetch stream. *)

IsPending(l) == pending[l] # NoPending

(* A live slot is written at once; staging ends with one synchronization.   *)
WriteLiveSlot(l) ==
    /\ job[l].state = "running" /\ ~ opt.staging
    /\ \E s \in job[l].left :
          /\ weights' = [weights EXCEPT ![l][s] = pending[l].slots[s]]
          /\ job' = [job EXCEPT ![l].left = @ \ {s}]
    /\ UNCHANGED <<opt, layer, pc, committed, map, pending>>
FinishJob(l) ==
    /\ job[l].state = "running"
    /\ opt.staging \/ job[l].left = {}
    /\ job' = [job EXCEPT ![l].state = "done"]
    /\ UNCHANGED <<opt, layer, pc, committed, map, weights, pending>>
(* A read that fails on the main thread is not modelled.                    *)
FailJob(l) ==
    /\ job[l].state = "running" /\ opt.reads_fail /\ opt.background
    /\ job' = [job EXCEPT ![l].state = "failed"]
    /\ UNCHANGED <<opt, layer, pc, committed, map, weights, pending>>
Job(l) == WriteLiveSlot(l) \/ FinishJob(l) \/ FailJob(l)

-----------------------------------------------------------------------------
(* Entering a layer: _commit_runtime_hf_gpu_prefetch_if_present. *)

NotDone(l) == job[l].state = "running"
LiveSlotWrite == opt.background /\ ~ opt.staging
BlocksOnlyIfAsked == ~ opt.ready_only
MustWait == ~ opt.ready_only \/ (LiveSlotWrite /\ opt.block_on_miss)
Clear(l) ==
    /\ pending' = [pending EXCEPT ![l] = NoPending]
    /\ job' = [job EXCEPT ![l] = NoJob]

Keeps(was) ==
    /\ committed' = was /\ pc' = "schedule"
    /\ UNCHANGED <<opt, layer>>
NothingPending ==
    /\ pc = "commit" /\ ~ IsPending(layer)
    /\ Keeps(FALSE)
    /\ UNCHANGED <<map, weights, pending, job>>
MissedIt ==
    /\ pc = "commit" /\ IsPending(layer) /\ NotDone(layer) /\ ~ MustWait
    /\ pending' = [pending EXCEPT ![layer].missed = @ \/ opt.discard_missed]
    /\ Keeps(FALSE)
    /\ UNCHANGED <<map, weights, job>>
FailedIt ==
    /\ pc = "commit" /\ job[layer].state = "failed"
    /\ Clear(layer)
    /\ Keeps(FALSE)
    /\ UNCHANGED <<map, weights>>
NeverStale(l) == FALSE
Stale(l) == pending[l].missed
DropMissed ==
    /\ pc = "commit" /\ job[layer].state = "done" /\ Stale(layer)
    /\ Clear(layer)
    /\ Keeps(FALSE)
    /\ UNCHANGED <<map, weights>>
CommitPrefetch ==
    /\ pc = "commit" /\ job[layer].state = "done" /\ ~ Stale(layer)
    /\ weights' = IF opt.staging
                  THEN [weights EXCEPT ![layer] = Written(layer, pending[layer])]
                  ELSE weights
    /\ map' = [map EXCEPT ![layer] = Remapped(layer, pending[layer])]
    /\ Clear(layer)
    /\ Keeps(TRUE)

-----------------------------------------------------------------------------
(* _schedule_runtime_hf_gpu_prefetch, for a later layer of this step or the *)
(* first layer of the next.  A layer with a pending record is left alone.   *)

Prefetchable ==
    {t \in Layers : t = layer + Lookahead \/ (t = 0 /\ layer = NumLayers - 1)}
Free(t) == ~ IsPending(t)
SchedulePrefetch ==
    /\ pc = "schedule"
    /\ \E t \in Prefetchable : \E plan \in Plans(t) :
          /\ Free(t)
          /\ pending' = [pending EXCEPT ![t] =
                [slots |-> plan.slots, evict |-> plan.evict, missed |-> FALSE]]
          /\ job' = [job EXCEPT ![t] = [state |-> "running", left |-> plan.evict]]
    /\ UNCHANGED <<opt, layer, pc, committed, map, weights>>
EndSchedule ==
    /\ pc = "schedule"
    /\ pc' = IF \E t \in Prefetchable : PlanRaises(t) THEN "raised" ELSE "swap"
    /\ UNCHANGED <<opt, layer, committed, map, weights, pending, job>>

(* The rest of _update_gpu_experts_from_batch_hf_swap, for this layer.      *)
KeepPlacement ==
    /\ pc = "swap"
    /\ pc' = "compute"
    /\ UNCHANGED <<opt, layer, committed, map, weights, pending, job>>
SwapInForeground ==
    /\ pc = "swap" /\ ~ committed /\ ~ opt.keep_old
    /\ \E plan \in Plans(layer) :
          /\ weights' = [weights EXCEPT ![layer] = Written(layer, plan)]
          /\ map' = [map EXCEPT ![layer] = Remapped(layer, plan)]
    /\ pc' = "compute"
    /\ UNCHANGED <<opt, layer, committed, pending, job>>

(* apply: the GPU computes the experts of the mask from the slots the index *)
(* names, the CPU the others.                                               *)
Compute ==
    /\ pc = "compute"
    /\ layer' = (layer + 1) % NumLayers /\ pc' = "commit" /\ committed' = FALSE
    /\ UNCHANGED <<opt, map, weights, pending, job>>

Enter == NothingPending \/ MissedIt \/ FailedIt \/ DropMissed \/ CommitPrefetch
Main == Enter \/ SchedulePrefetch \/ EndSchedule \/ KeepPlacement \/ SwapInForeground \/ Compute
Next == Main \/ \E l \in Layers : Job(l)

Spec == Init /\ [][Next]_vars

-----------------------------------------------------------------------------
(* Properties. *)

(* A layer computes every expert of its mask from the slot that holds that  *)
(* expert's weights, whatever was prefetched, missed, swapped or failed.    *)
ComputesItsExperts ==
    pc = "compute" =>
        \A e \in map[layer].mask :
            /\ map[layer].index[e] # NoSlot
            /\ weights[layer][map[layer].index[e]] = e

(* The three mapping tables of a layer stay one bijection, although each is *)
(* updated by its own scatter: no expert is in two slots, none is lost.     *)
TablesAgree ==
    \A l \in Layers :
        /\ IsInjective(map[l].slots)
        /\ map[l].mask = Range(map[l].slots)
        /\ \A e \in Experts : map[l].index[e] =
              IF e \in map[l].mask THEN CHOOSE s \in Slots : map[l].slots[s] = e ELSE NoSlot

(* A prefetch is committed only onto the placement it was planned for: what *)
(* was missed and swapped in the foreground meanwhile is not undone.        *)
CommitsFreshPlans ==
    [][CommitPrefetch =>
          \A s \in Slots \ pending[layer].evict :
              pending[layer].slots[s] = map[layer].slots[s]]_vars
=============================================================================
