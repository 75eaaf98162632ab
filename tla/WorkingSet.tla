------------------------------ MODULE WorkingSet ------------------------------
(***************************************************************************)
(* Which experts a ticket plans for its group, and the two abstract expert *)
(* buffers against which StageScheduler (managers/kt_stage_scheduler.py)   *)
(* prices them: the plan builders, the slot assignment, the simulated      *)
(* materialization and the commit in complete_group.                       *)
(*                                                                         *)
(* A plan gives every layer of a group one expert per slot.  Demand is any *)
(* of the given score functions, and what cost_oracle prefers among the    *)
(* swaps it may make is left open.  Of content_version only the order of   *)
(* the two buffers is kept.  Which group is served, and with which chunks, *)
(* is decided in StageScheduler: here any group may be next.               *)
(***************************************************************************)
EXTENDS Naturals, FiniteSets

CONSTANTS
    NumGroups,
    NumExperts,
    SlotsPerLayer,    \* S
    MaxReplacements,  \* K
    Layers,           \* the layers of a group
    Demands,          \* what the chunks may ask of the experts of each layer
    FrequencyPlans,   \* the plan of each group before it first runs
    Policies          \* some of "fifo", "min_delta" and "cost_oracle"

Groups  == 0 .. (NumGroups - 1)
Experts == 0 .. (NumExperts - 1)
Slots   == 0 .. (SlotsPerLayer - 1)

LayerPlans == {p \in [Slots -> Experts] : \A s, t \in Slots : p[s] = p[t] => s = t}
Plans      == [Layers -> LayerPlans]

ASSUME WorkingSetAssumption ==
    /\ NumGroups \in Nat \ {0}
    /\ NumExperts \in Nat
    /\ SlotsPerLayer \in 1 .. NumExperts
    /\ MaxReplacements \in 0 .. SlotsPerLayer
    /\ IsFiniteSet(Layers)
    /\ Demands \in [Layers -> SUBSET [Experts -> Nat]]
    /\ FrequencyPlans \in [Groups -> Plans]
    /\ Policies \subseteq {"fifo", "min_delta", "cost_oracle"}

ExpertsOf(p) == {p[s] : s \in Slots}
NewIn(p, q)  == ExpertsOf(p) \ ExpertsOf(q)

VARIABLES
    policy,         \* read from the environment once, at the start
    buffers,        \* the two abstract buffers: their group, NumGroups = None, and plans
    last_written,   \* the one with the higher content_version
    logical_plans,  \* the plan last committed for each group
    pending         \* the candidate of the one outstanding ticket

wvars == <<policy, buffers, last_written, logical_plans, pending>>

NoGroup   == NumGroups
NoPending == [group |-> NoGroup]

WInit ==
    /\ policy \in Policies
    /\ buffers = [b \in 0 .. 1 |-> [group |-> NoGroup, plans |-> FrequencyPlans[0]]]
    /\ last_written = 0
    /\ logical_plans = FrequencyPlans
    /\ pending = NoPending

-----------------------------------------------------------------------------
(* The buffers of a group: the source it copies from, the target it writes. *)

Resident(g) == {b \in 0 .. 1 : buffers[b].group = g}
NewestBuffer(g) == last_written
LatestBuffer(g) == IF last_written \in Resident(g) THEN last_written ELSE 1 - last_written

CurrentPlans(g) ==
    IF Resident(g) # {} THEN buffers[LatestBuffer(g)].plans ELSE logical_plans[g]

TargetBuffer(g) == IF Resident(g) # {} THEN 1 - LatestBuffer(g) ELSE g % 2

NeverExact(g, plans)  == {}
ExactBuffer(g, plans) == {b \in Resident(g) : buffers[b].plans = plans}

(* _assign_slots: the experts already in the target keep their slots, then  *)
(* those of the source keep theirs, and the rest fill the gaps in order.    *)
SameExperts(p, q) == ExpertsOf(p) = ExpertsOf(q)
NoneKept(g, l, selected)     == {}
KeptInTarget(g, l, selected) ==
    LET target == buffers[TargetBuffer(g)]
    IN  {s \in Slots : target.group = g /\ target.plans[l][s] \in selected}

Place(S, s) == Cardinality({t \in S : t < s})
FillGaps(fixed, preferred) ==
    LET gaps == Slots \ DOMAIN fixed
        rest == {s \in Slots : \A t \in DOMAIN fixed : fixed[t] # preferred[s]}
        Filling(s) == preferred[CHOOSE t \in rest : Place(rest, t) = Place(gaps, s)]
    IN  [s \in Slots |-> IF s \in DOMAIN fixed THEN fixed[s] ELSE Filling(s)]

AssignSlots(g, l, preferred) ==
    LET selected == ExpertsOf(preferred)
        current  == CurrentPlans(g)[l]
        target   == buffers[TargetBuffer(g)].plans[l]
        inTarget == KeptInTarget(g, l, selected)
        retained == {target[s] : s \in inTarget}
        inSource == {s \in Slots \ inTarget :
                        Resident(g) # {} /\ current[s] \in selected \ retained}
        fixed    == [s \in inTarget \cup inSource |->
                        IF s \in inTarget THEN target[s] ELSE current[s]]
    IN  IF SameExperts(preferred, current) THEN current ELSE FillGaps(fixed, preferred)

-----------------------------------------------------------------------------
(* The plan builders. *)

Wanted(d, active) == {e \in Experts \ ExpertsOf(active) : d[e] > 0}
WantRank(d, active, e) ==
    Cardinality({f \in Wanted(d, active) : d[f] > d[e] \/ (d[f] = d[e] /\ f < e)})
VictimRank(d, active, s) ==
    Cardinality({t \in Slots : d[active[t]] < d[active[s]] \/ (d[active[t]] = d[active[s]] /\ t > s)})

(* The n-th most wanted expert takes the slot of the n-th least wanted one. *)
Takes(d, active, e, s) ==
    /\ WantRank(d, active, e) = VictimRank(d, active, s)
    /\ WantRank(d, active, e) < MaxReplacements
    /\ d[e] > d[active[s]]

Demanded(d, active) ==
    [s \in Slots |-> IF \E e \in Wanted(d, active) : Takes(d, active, e, s)
                     THEN CHOOSE e \in Wanted(d, active) : Takes(d, active, e, s)
                     ELSE active[s]]

RankBounded(g, l) == {AssignSlots(g, l, Demanded(d, CurrentPlans(g)[l])) : d \in Demands[l]}
RankBoundedPlans(g) ==
    {plans \in [Layers -> UNION {RankBounded(g, l) : l \in Layers}] :
        \A l \in Layers : plans[l] \in RankBounded(g, l)}

(* One swap of cost_oracle: an expert of the current plan gives its slot to *)
(* a wanted one that was not in it.                                         *)
CandidateLimit == IF SlotsPerLayer > 2 * MaxReplacements THEN SlotsPerLayer ELSE 2 * MaxReplacements
Swaps(g, l, d, active) ==
    LET original == CurrentPlans(g)[l]
        SwapIn(e, s) == AssignSlots(g, l, [active EXCEPT ![s] = e])
        CanSwap(e, s) == /\ WantRank(d, original, e) < CandidateLimit
                         /\ active[s] \in ExpertsOf(original)
                         /\ d[e] > d[active[s]]
    IN  {SwapIn(p[1], p[2]) :
            p \in {q \in (Wanted(d, original) \ ExpertsOf(active)) \X Slots : CanSwap(q[1], q[2])}}

SwappedPlans(g, l, d) ==
    LET after[n \in Nat] ==
          IF n = 0 THEN {CurrentPlans(g)[l]}
          ELSE after[n - 1] \cup UNION {Swaps(g, l, d, p) : p \in after[n - 1]}
    IN  after[MaxReplacements]

CostBounded(g, l) == UNION {SwappedPlans(g, l, d) : d \in Demands[l]}
CostBoundedPlans(g) ==
    {plans \in [Layers -> UNION {CostBounded(g, l) : l \in Layers}] :
        \A l \in Layers : plans[l] \in CostBounded(g, l)}

(* A deadline, low confidence or no gain keeps the current plan.            *)
CandidatePlans(g) ==
    {CurrentPlans(g)} \cup
    (IF policy = "cost_oracle" THEN CostBoundedPlans(g) ELSE RankBoundedPlans(g))

-----------------------------------------------------------------------------
(* choose_next, complete_group and unreserve. *)

PlannedTarget(g, plans) ==
    IF ExactBuffer(g, plans) # {} THEN CHOOSE b \in ExactBuffer(g, plans) : TRUE
    ELSE TargetBuffer(g)

Write(b, g, plans) ==
    /\ buffers' = [buffers EXCEPT ![b] = [group |-> g, plans |-> plans]]
    /\ last_written' = b

CommitPlans(g, plans) ==
    IF ExactBuffer(g, plans) # {} THEN UNCHANGED <<buffers, last_written>>
    ELSE Write(TargetBuffer(g), g, plans)

ChooseNext(g) ==
    /\ pending = NoPending
    /\ \E plans \in CandidatePlans(g) :
          pending' = [group |-> g, source |-> CurrentPlans(g), plans |-> plans,
                      target |-> PlannedTarget(g, plans)]
    /\ UNCHANGED <<policy, buffers, last_written, logical_plans>>

(* complete_group raises when the source of the ticket is no longer the     *)
(* current plan: the guard is that it is.                                   *)
CompleteGroup ==
    /\ pending # NoPending
    /\ pending.source = CurrentPlans(pending.group)
    /\ CommitPlans(pending.group, pending.plans)
    /\ logical_plans' = [logical_plans EXCEPT ![pending.group] = pending.plans]
    /\ pending' = NoPending
    /\ UNCHANGED policy

Unreserve ==
    /\ pending # NoPending
    /\ pending' = NoPending
    /\ UNCHANGED <<policy, buffers, last_written, logical_plans>>

WNext == (\E g \in Groups : ChooseNext(g)) \/ CompleteGroup \/ Unreserve
WSpec == WInit /\ [][WNext]_wvars

(* What materializing a layer of a plan has to do at a slot.                *)
CopyKind(g, l, plan, s) ==
    LET target == buffers[TargetBuffer(g)] IN
    IF target.group = g /\ target.plans[l][s] = plan[s] THEN "retain"
    ELSE IF Resident(g) # {} /\ plan[s] \in ExpertsOf(CurrentPlans(g)[l]) THEN "d2d"
    ELSE "h2d"
Copied(g, l, plan, kinds) == {s \in Slots : CopyKind(g, l, plan, s) \in kinds}

-----------------------------------------------------------------------------
(* Properties. *)

(* The two buffers never hold the same plan of the same group: an exact     *)
(* match is reused instead of being copied.                                 *)
NoPlanTwice == buffers[0].group \in Groups => buffers[0] # buffers[1]

(* The plan a group is served from may lag behind the one it committed      *)
(* last, but only by one ticket's replacements: buffers of a group that     *)
(* were written tickets apart, evicted and reused stay that close.          *)
SourceNearLastCommitted ==
    \A g \in Groups : \A l \in Layers :
        Cardinality(NewIn(CurrentPlans(g)[l], logical_plans[g][l])) <= MaxReplacements

(* What is moved for a plan.  A layer whose experts change is given the     *)
(* order in which most of them stay where they are in the target: no other  *)
(* order of the same experts would copy fewer.  A layer whose experts do    *)
(* not change keeps the order of the source, whatever the target holds, so  *)
(* it may copy more of them than another order would, when another layer of *)
(* the group makes the ticket materialize; but it reads none from the host. *)
(* Only experts that are new to a plan are read from there.                 *)
CopiesLeast(g, l, plan) ==
    \A q \in LayerPlans : ExpertsOf(q) = ExpertsOf(plan) =>
        Cardinality(Copied(g, l, plan, {"d2d", "h2d"}))
            <= Cardinality(Copied(g, l, q, {"d2d", "h2d"}))
ChangedLayersCopyLeast ==
    LET g == pending.group IN
    pending # NoPending /\ Resident(g) # {} /\ ExactBuffer(g, pending.plans) = {} =>
        \A l \in Layers :
            LET plan == pending.plans[l]
                read == {plan[s] : s \in Copied(g, l, plan, {"h2d"})}
            IN  /\ read \subseteq NewIn(plan, pending.source[l])
                /\ Cardinality(read) <= MaxReplacements
                /\ IF SameExperts(plan, pending.source[l]) THEN plan = pending.source[l]
                   ELSE CopiesLeast(g, l, plan)
=============================================================================
