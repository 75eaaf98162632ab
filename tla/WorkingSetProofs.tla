-------------------------- MODULE WorkingSetProofs --------------------------
(***************************************************************************)
(* Proofs about WorkingSet for every number of groups, layers, experts and *)
(* slots, every replacement budget, demand and policy.                     *)
(***************************************************************************)
EXTENDS WorkingSet, Integers, FiniteSetTheorems, WellFoundedInduction, TLAPS

-----------------------------------------------------------------------------
(* Sizes of plans. *)

(* There are n numbers from 0 on up to n.                                   *)
LEMMA IndicesCounted ==
  ASSUME NEW n \in Nat
  PROVE  IsFiniteSet(0 .. (n - 1)) /\ Cardinality(0 .. (n - 1)) = n
<1>1. n - 1 \in Int /\ (n - 1) - 0 + 1 = n /\ (0 > n - 1 => n = 0)
  OBVIOUS
<1>2. /\ IsFiniteSet(0 .. (n - 1))
      /\ Cardinality(0 .. (n - 1)) = IF 0 > n - 1 THEN 0 ELSE (n - 1) - 0 + 1
  BY <1>1, FS_Interval
<1> QED
  BY <1>1, <1>2

(* What the constants say of the slots.                                     *)
LEMMA SlotsCounted ==
  /\ SlotsPerLayer \in Nat \ {0} /\ NumExperts \in Nat /\ MaxReplacements \in Nat
  /\ MaxReplacements <= SlotsPerLayer
  /\ IsFiniteSet(Slots) /\ Cardinality(Slots) = SlotsPerLayer /\ Slots \subseteq Nat
<1>1. /\ SlotsPerLayer \in Nat \ {0} /\ NumExperts \in Nat /\ MaxReplacements \in Nat
      /\ MaxReplacements <= SlotsPerLayer
  BY WorkingSetAssumption
<1>2. IsFiniteSet(0 .. (SlotsPerLayer - 1)) /\ Cardinality(0 .. (SlotsPerLayer - 1)) = SlotsPerLayer
  BY <1>1, IndicesCounted
<1> QED
  BY <1>1, <1>2 DEF Slots

(* A plan has as many experts as slots, and so has any part of it.          *)
LEMMA ImageSize ==
  ASSUME NEW p \in LayerPlans, NEW A \in SUBSET Slots
  PROVE  /\ IsFiniteSet(A) /\ IsFiniteSet({p[s] : s \in A})
         /\ Cardinality({p[s] : s \in A}) = Cardinality(A) /\ Cardinality(A) \in Nat
<1>1. IsFiniteSet(A) /\ Cardinality(A) \in Nat
  BY SlotsCounted, FS_Subset, FS_CardinalityType
<1>2. PICK f : f = [s \in A |-> p[s]]
  OBVIOUS
<1>3. f \in Bijection(A, {p[s] : s \in A})
  <2>1. f \in [A -> {p[s] : s \in A}]
    BY <1>2
  <2>2. \A s, t \in A : f[s] = f[t] => s = t
    BY <1>2 DEF LayerPlans
  <2>3. \A e \in {p[s] : s \in A} : \E s \in A : f[s] = e
    BY <1>2
  <2> QED
    BY <2>1, <2>2, <2>3 DEF Bijection, Injection, Surjection, IsInjective
<1> QED
  BY <1>1, <1>3, FS_Bijection DEF ExistsBijection

LEMMA PlanSize ==
  ASSUME NEW p \in LayerPlans
  PROVE  /\ IsFiniteSet(ExpertsOf(p)) /\ Cardinality(ExpertsOf(p)) = SlotsPerLayer
         /\ ExpertsOf(p) \subseteq Experts
<1>1. \A s \in Slots : p[s] \in Experts
  BY DEF LayerPlans
<1> QED
  BY <1>1, ImageSize, SlotsCounted DEF ExpertsOf

(* As many experts are new in one plan as in the other.                     *)
LEMMA NewInBothWays ==
  ASSUME NEW p \in LayerPlans, NEW q \in LayerPlans
  PROVE  /\ IsFiniteSet(NewIn(p, q)) /\ Cardinality(NewIn(p, q)) \in Nat
         /\ Cardinality(NewIn(p, q)) = Cardinality(NewIn(q, p))
<1>1. PICK A, B : A = ExpertsOf(p) /\ B = ExpertsOf(q)
  OBVIOUS
<1>2. IsFiniteSet(A) /\ IsFiniteSet(B) /\ Cardinality(A) = Cardinality(B)
  BY <1>1, PlanSize
<1>3. /\ IsFiniteSet(A \ B) /\ Cardinality(A \ B) = Cardinality(A) - Cardinality(A \cap B)
      /\ Cardinality(B \ A) = Cardinality(B) - Cardinality(B \cap A)
  BY <1>2, FS_Difference
<1>4. A \cap B = B \cap A
  OBVIOUS
<1> QED
  BY <1>1, <1>2, <1>3, <1>4, FS_CardinalityType DEF NewIn

(* Nothing is new in a plan of the same experts.                            *)
LEMMA NoneNew ==
  ASSUME NEW p, NEW q, ExpertsOf(p) = ExpertsOf(q)
  PROVE  NewIn(p, q) = {} /\ Cardinality(NewIn(p, q)) = 0
  BY FS_EmptySet DEF NewIn

-----------------------------------------------------------------------------
(* Ranks. *)

(* The members of a finite set that a strict total order puts before each   *)
(* of them differ in number, so that they number the set from 0.            *)
Before(S, R, s)   == {t \in S : <<t, s>> \in R}
RankIn(S, R, s)   == Cardinality(Before(S, R, s))
StrictOrder(S, R) ==
    /\ \A s \in S : <<s, s>> \notin R
    /\ \A s, t, u \in S : <<s, t>> \in R /\ <<t, u>> \in R => <<s, u>> \in R
    /\ \A s, t \in S : s # t => <<s, t>> \in R \/ <<t, s>> \in R

LEMMA RanksNumber ==
  ASSUME NEW S, IsFiniteSet(S), NEW R, StrictOrder(S, R)
  PROVE  /\ Cardinality(S) \in Nat
         /\ \A s \in S : RankIn(S, R, s) \in 0 .. (Cardinality(S) - 1)
         /\ \A s, u \in S : RankIn(S, R, s) = RankIn(S, R, u) => s = u
         /\ {RankIn(S, R, s) : s \in S} = 0 .. (Cardinality(S) - 1)
<1>1. PICK n \in Nat : n = Cardinality(S)
  BY FS_CardinalityType
<1>2. ASSUME NEW s \in S
      PROVE  IsFiniteSet(Before(S, R, s)) /\ RankIn(S, R, s) \in 0 .. (n - 1)
  <2>1. Before(S, R, s) \in SUBSET S /\ Before(S, R, s) # S
    BY DEF Before, StrictOrder
  <2>2. /\ IsFiniteSet(Before(S, R, s)) /\ RankIn(S, R, s) <= n /\ RankIn(S, R, s) # n
    BY <1>1, <2>1, FS_Subset DEF RankIn
  <2>3. RankIn(S, R, s) \in Nat
    BY <2>2, FS_CardinalityType DEF RankIn
  <2> QED
    BY <2>2, <2>3
<1>3. ASSUME NEW s \in S, NEW u \in S, <<s, u>> \in R
      PROVE  RankIn(S, R, s) # RankIn(S, R, u)
  <2>1. Before(S, R, s) \in SUBSET Before(S, R, u)
    BY <1>3 DEF Before, StrictOrder
  <2>2. s \in Before(S, R, u) /\ s \notin Before(S, R, s)
    BY <1>3 DEF Before, StrictOrder
  <2> QED
    BY <1>2, <2>1, <2>2, FS_Subset DEF RankIn
<1>4. \A s, u \in S : RankIn(S, R, s) = RankIn(S, R, u) => s = u
  BY <1>3 DEF StrictOrder
<1>5. PICK f : f = [s \in S |-> RankIn(S, R, s)]
  OBVIOUS
<1>6. f \in Injection(S, 0 .. (n - 1))
  BY <1>2, <1>4, <1>5 DEF Injection, IsInjective
<1>7. IsFiniteSet(0 .. (n - 1)) /\ Cardinality(0 .. (n - 1)) = n
  BY IndicesCounted
<1>8. f \in Surjection(S, 0 .. (n - 1))
  BY <1>1, <1>6, <1>7, FS_Injection
<1>9. \A m \in 0 .. (n - 1) : \E s \in S : RankIn(S, R, s) = m
  BY <1>5, <1>8 DEF Surjection
<1>10. {RankIn(S, R, s) : s \in S} = 0 .. (n - 1)
  BY <1>2, <1>9
<1> QED
  BY <1>1, <1>2, <1>4, <1>10

(* Places number the members of a set of slots.                             *)
LEMMA PlacesNumber ==
  ASSUME NEW S \in SUBSET Slots
  PROVE  /\ IsFiniteSet(S) /\ Cardinality(S) \in Nat
         /\ \A s \in S : Place(S, s) \in 0 .. (Cardinality(S) - 1)
         /\ \A s, t \in S : Place(S, s) = Place(S, t) => s = t
         /\ \A n \in 0 .. (Cardinality(S) - 1) : \E s \in S : Place(S, s) = n
<1>1. IsFiniteSet(S) /\ S \subseteq Nat
  BY SlotsCounted, FS_Subset
<1>2. PICK R : R = {p \in S \X S : p[1] < p[2]}
  OBVIOUS
<1>3. \A s, t \in S : <<s, t>> \in R <=> s < t
  BY <1>2
<1>4. StrictOrder(S, R)
  BY <1>1, <1>3 DEF StrictOrder
<1>5. ASSUME NEW s \in S PROVE Place(S, s) = RankIn(S, R, s)
  <2>1. {t \in S : t < s} = Before(S, R, s)
    BY <1>3 DEF Before
  <2> QED
    BY <2>1 DEF Place, RankIn
<1>6. Cardinality(S) \in Nat
  BY <1>1, <1>4, RanksNumber
<1>7. \A s \in S : RankIn(S, R, s) \in 0 .. (Cardinality(S) - 1)
  BY <1>1, <1>4, RanksNumber
<1>8. \A s, u \in S : RankIn(S, R, s) = RankIn(S, R, u) => s = u
  BY <1>1, <1>4, RanksNumber
<1>9. \A n \in 0 .. (Cardinality(S) - 1) : \E s \in S : RankIn(S, R, s) = n
  <2>1. {RankIn(S, R, s) : s \in S} = 0 .. (Cardinality(S) - 1)
    BY <1>1, <1>4, RanksNumber
  <2> QED
    BY <2>1
<1> QED
  BY <1>1, <1>5, <1>6, <1>7, <1>8, <1>9

(* _assign_slots: what keeps its slot keeps it, and the rest of the experts *)
(* fill the gaps, each of them once.                                        *)
LEMMA FillGapsPermutes ==
  ASSUME NEW p \in LayerPlans, NEW A \in SUBSET Slots, NEW fixed \in [A -> ExpertsOf(p)],
         \A s, t \in A : fixed[s] = fixed[t] => s = t
  PROVE  /\ FillGaps(fixed, p) \in LayerPlans
         /\ ExpertsOf(FillGaps(fixed, p)) = ExpertsOf(p)
         /\ \A s \in A : FillGaps(fixed, p)[s] = fixed[s]
<1> DEFINE gaps == Slots \ A
           rest == {s \in Slots : \A t \in A : fixed[t] # p[s]}
           Match(s) == CHOOSE t \in rest : Place(rest, t) = Place(gaps, s)
           q == FillGaps(fixed, p)
<1>1. q = [s \in Slots |-> IF s \in A THEN fixed[s] ELSE p[Match(s)]]
  BY DEF FillGaps
<1>2. Cardinality(gaps) = Cardinality(rest)
  <2>1. PICK B : B = {fixed[s] : s \in A}
    OBVIOUS
  <2>2. B \subseteq ExpertsOf(p) /\ Cardinality(B) = Cardinality(A) /\ IsFiniteSet(A)
    <3>1. fixed \in Bijection(A, B)
      BY <2>1 DEF Bijection, Injection, Surjection, IsInjective
    <3>2. IsFiniteSet(A)
      BY SlotsCounted, FS_Subset
    <3> QED
      BY <2>1, <3>1, <3>2, FS_Bijection DEF ExistsBijection
  <2>3. {p[s] : s \in rest} = ExpertsOf(p) \ B
    BY <2>1 DEF ExpertsOf
  <2>4. Cardinality(rest) = Cardinality(ExpertsOf(p) \ B)
    <3>1. rest \in SUBSET Slots
      OBVIOUS
    <3> QED
      BY <2>3, <3>1, ImageSize
  <2>5. Cardinality(ExpertsOf(p) \ B) = SlotsPerLayer - Cardinality(B)
    <3>1. ExpertsOf(p) \cap B = B
      BY <2>2
    <3>2. Cardinality(ExpertsOf(p) \ B) = Cardinality(ExpertsOf(p)) - Cardinality(ExpertsOf(p) \cap B)
      BY PlanSize, FS_Difference
    <3> QED
      BY <3>1, <3>2, PlanSize
  <2>6. Cardinality(gaps) = SlotsPerLayer - Cardinality(A)
    <3>1. Slots \cap A = A
      OBVIOUS
    <3>2. Cardinality(Slots \ A) = Cardinality(Slots) - Cardinality(Slots \cap A)
      BY ONLY SlotsCounted, FS_Difference
    <3> QED
      BY <3>1, <3>2, SlotsCounted
  <2> QED
    BY <2>2, <2>4, <2>5, <2>6
<1>3. gaps \in SUBSET Slots /\ rest \in SUBSET Slots
  OBVIOUS
<1>4. ASSUME NEW s \in gaps PROVE Match(s) \in rest /\ Place(rest, Match(s)) = Place(gaps, s)
  <2> HIDE DEF gaps, rest
  <2>1. Place(gaps, s) \in 0 .. (Cardinality(rest) - 1)
    BY <1>2, <1>3, PlacesNumber
  <2>2. \E t \in rest : Place(rest, t) = Place(gaps, s)
    BY <1>3, <2>1, PlacesNumber
  <2> QED
    BY <2>2
<1>5. \A s, t \in gaps : Match(s) = Match(t) => s = t
  <2> HIDE DEF gaps, rest, Match
  <2> QED
    BY <1>3, <1>4, PlacesNumber
<1>6. ASSUME NEW t \in rest PROVE \E s \in gaps : Match(s) = t
  <2> HIDE DEF gaps, rest, Match
  <2>1. Place(rest, t) \in 0 .. (Cardinality(gaps) - 1)
    BY <1>2, <1>3, PlacesNumber
  <2>2. PICK s \in gaps : Place(gaps, s) = Place(rest, t)
    BY <1>3, <2>1, PlacesNumber
  <2>3. Match(s) = t
    BY <1>3, <1>4, <2>2, PlacesNumber
  <2> QED
    BY <2>3
<1>7. /\ \A s \in A : q[s] = fixed[s] /\ q[s] \in ExpertsOf(p)
      /\ \A s \in gaps : q[s] = p[Match(s)] /\ q[s] \in ExpertsOf(p) /\ \A t \in A : fixed[t] # q[s]
  <2>1. \A s \in gaps : q[s] = p[Match(s)]
    <3> HIDE DEF Match
    <3> QED
      BY <1>1
  <2>2. \A s \in rest : p[s] \in ExpertsOf(p) /\ \A t \in A : fixed[t] # p[s]
    BY DEF ExpertsOf
  <2>3. \A s \in A : q[s] = fixed[s] /\ q[s] \in ExpertsOf(p)
    BY <1>1
  <2> HIDE DEF gaps, rest, Match, q
  <2> QED
    BY <1>4, <2>1, <2>2, <2>3
<1>8. \A s, t \in Slots : q[s] = q[t] => s = t
  <2> SUFFICES ASSUME NEW s \in Slots, NEW t \in Slots, q[s] = q[t] PROVE s = t
    OBVIOUS
  <2>1. s \in A \/ s \in gaps
    OBVIOUS
  <2>2. t \in A \/ t \in gaps
    OBVIOUS
  <2>3. \A u, v \in rest : p[u] = p[v] => u = v
    BY DEF LayerPlans
  <2> HIDE DEF gaps, rest, Match, q
  <2> QED
    BY <1>4, <1>5, <1>7, <2>1, <2>2, <2>3
<1>9. ExpertsOf(q) = ExpertsOf(p)
  <2>1. ASSUME NEW e \in ExpertsOf(p) PROVE \E s \in Slots : q[s] = e
    <3>1. PICK t \in Slots : p[t] = e
      BY DEF ExpertsOf
    <3>2. CASE t \in rest
      <4>1. PICK s \in gaps : Match(s) = t
        BY <1>6, <3>2
      <4>2. q[s] = e
        <5> HIDE DEF Match, q
        <5> QED
          BY <1>7, <3>1, <4>1
      <4> QED
        BY <1>3, <4>1, <4>2
    <3>3. CASE t \notin rest
      <4>1. PICK s \in A : fixed[s] = e
        BY <3>1, <3>3
      <4> QED
        BY <1>7, <4>1
    <3> QED
      BY <3>2, <3>3
  <2>2. \A s \in Slots : q[s] \in ExpertsOf(p)
    <3>1. \A s \in Slots : s \in A \/ s \in gaps
      OBVIOUS
    <3> QED
      BY <1>7, <3>1
  <2> HIDE DEF q
  <2>3. ExpertsOf(q) = {q[s] : s \in Slots}
    BY DEF ExpertsOf
  <2> QED
    BY <2>1, <2>2, <2>3
<1>10. q \in LayerPlans
  <2>1. \A s \in Slots : q[s] \in Experts
    BY <1>9, PlanSize DEF ExpertsOf
  <2>2. q = [s \in Slots |-> q[s]]
    BY <1>1
  <2> HIDE DEF q
  <2> QED
    BY <1>8, <2>1, <2>2 DEF LayerPlans
<1> QED
  BY <1>7, <1>9, <1>10

-----------------------------------------------------------------------------
(* Buffers and plans. *)

(* Every variable holds a value of its type.                                *)
Candidate == [group : Groups, source : Plans, plans : Plans, target : 0 .. 1]
WTypeOK ==
    /\ policy \in Policies
    /\ buffers \in [0 .. 1 -> [group : 0 .. NumGroups, plans : Plans]]
    /\ last_written \in 0 .. 1
    /\ logical_plans \in [Groups -> Plans]
    /\ pending = NoPending \/ pending \in Candidate

(* Source and target of a group are buffers, and its current plan is one.   *)
LEMMA SourceAndTarget ==
  ASSUME WTypeOK, NEW g \in Groups
  PROVE  /\ LatestBuffer(g) \in 0 .. 1 /\ TargetBuffer(g) \in 0 .. 1
         /\ Resident(g) \in SUBSET (0 .. 1) /\ (Resident(g) # {} => LatestBuffer(g) \in Resident(g))
         /\ CurrentPlans(g) \in Plans
         /\ Resident(g) # {} => TargetBuffer(g) = 1 - LatestBuffer(g)
<1>1. LatestBuffer(g) \in 0 .. 1 /\ Resident(g) \in SUBSET (0 .. 1)
  BY DEF WTypeOK, LatestBuffer, Resident
<1>2. \A b \in 0 .. 1 : b = last_written \/ b = 1 - last_written
  BY DEF WTypeOK
<1>3. Resident(g) # {} => LatestBuffer(g) \in Resident(g)
  BY <1>1, <1>2 DEF LatestBuffer
<1>4. g \in Nat /\ g % 2 \in 0 .. 1
  BY WorkingSetAssumption DEF Groups
<1>5. TargetBuffer(g) \in 0 .. 1
  BY <1>1, <1>4 DEF TargetBuffer
<1>6. CurrentPlans(g) \in Plans
  BY <1>1 DEF CurrentPlans, WTypeOK
<1> QED
  BY <1>1, <1>3, <1>5, <1>6 DEF TargetBuffer

(* _assign_slots: the result holds the selected experts, and what the       *)
(* target holds of them stays in its slot unless nothing changes at all;    *)
(* then it is the current plan.                                             *)
LEMMA Assigned ==
  ASSUME WTypeOK, NEW g \in Groups, NEW l \in Layers, NEW p \in LayerPlans
  PROVE  /\ AssignSlots(g, l, p) \in LayerPlans
         /\ ExpertsOf(AssignSlots(g, l, p)) = ExpertsOf(p)
         /\ ~ SameExperts(p, CurrentPlans(g)[l]) =>
               \A s \in KeptInTarget(g, l, ExpertsOf(p)) :
                  AssignSlots(g, l, p)[s] = buffers[TargetBuffer(g)].plans[l][s]
         /\ SameExperts(p, CurrentPlans(g)[l]) => AssignSlots(g, l, p) = CurrentPlans(g)[l]
<1>1. PICK current, target, A, B :
         /\ current = CurrentPlans(g)[l] /\ target = buffers[TargetBuffer(g)].plans[l]
         /\ A = KeptInTarget(g, l, ExpertsOf(p))
         /\ B = {s \in Slots \ A : Resident(g) # {} /\ current[s] \in ExpertsOf(p) \ {target[t] : t \in A}}
  OBVIOUS
<1>2. current \in LayerPlans /\ target \in LayerPlans
  <2>1. CurrentPlans(g) \in Plans /\ TargetBuffer(g) \in 0 .. 1
    BY SourceAndTarget
  <2>2. buffers[TargetBuffer(g)].plans \in Plans
    BY <2>1 DEF WTypeOK
  <2> QED
    BY <1>1, <2>1, <2>2 DEF Plans
<1>3. PICK fixed : fixed = [s \in A \cup B |-> IF s \in A THEN target[s] ELSE current[s]]
  OBVIOUS
<1>4. CASE SameExperts(p, current)
  <2>1. AssignSlots(g, l, p) = current
    BY <1>1, <1>4 DEF AssignSlots
  <2> QED
    BY <1>1, <1>2, <1>4, <2>1 DEF SameExperts
<1>5. CASE ~ SameExperts(p, current)
  <2>1. AssignSlots(g, l, p) = FillGaps(fixed, p)
    BY <1>1, <1>3, <1>5 DEF AssignSlots
  <2>2. A \subseteq Slots /\ B \subseteq Slots \ A /\ \A s \in A : target[s] \in ExpertsOf(p)
    BY <1>1 DEF KeptInTarget
  <2>3. \A s \in B : current[s] \in ExpertsOf(p) /\ \A t \in A : current[s] # target[t]
    BY <1>1
  <2>4. fixed \in [A \cup B -> ExpertsOf(p)]
    BY <1>3, <2>2, <2>3
  <2>5. /\ \A s, t \in Slots : current[s] = current[t] => s = t
        /\ \A s, t \in Slots : target[s] = target[t] => s = t
    BY <1>2 DEF LayerPlans
  <2>6. \A s, t \in A \cup B : fixed[s] = fixed[t] => s = t
    BY <1>3, <2>2, <2>3, <2>5
  <2>7. /\ FillGaps(fixed, p) \in LayerPlans /\ ExpertsOf(FillGaps(fixed, p)) = ExpertsOf(p)
        /\ \A s \in A \cup B : FillGaps(fixed, p)[s] = fixed[s]
    <3>1. A \cup B \in SUBSET Slots
      BY <2>2
    <3> QED
      BY <2>4, <2>6, <3>1, FillGapsPermutes
  <2>8. \A s \in A : FillGaps(fixed, p)[s] = target[s]
    BY <1>3, <2>7
  <2> QED
    BY <1>1, <1>5, <2>1, <2>7, <2>8
<1> QED
  BY <1>4, <1>5

-----------------------------------------------------------------------------
(* The plan builders keep to the budget. *)

(* The order in which the slots of a plan give way.                         *)
GivesWayBefore(d, active, t, s) ==
    d[active[t]] < d[active[s]] \/ (d[active[t]] = d[active[s]] /\ t > s)

(* _build_rank_bounded_plans: no two slots are given the same rank, so at   *)
(* most K of them get another expert, each a different one.                 *)
LEMMA DemandedIsNear ==
  ASSUME NEW d \in [Experts -> Nat], NEW active \in LayerPlans
  PROVE  /\ Demanded(d, active) \in LayerPlans
         /\ Cardinality(NewIn(Demanded(d, active), active)) <= MaxReplacements
<1>0. /\ \A s \in Slots : active[s] \in Experts /\ d[active[s]] \in Nat
      /\ \A s, t \in Slots : active[s] = active[t] => s = t
  BY WorkingSetAssumption DEF LayerPlans
<1>1. PICK R : R = {x \in Slots \X Slots : GivesWayBefore(d, active, x[1], x[2])}
  OBVIOUS
<1>2. \A s, t \in Slots : <<t, s>> \in R <=> GivesWayBefore(d, active, t, s)
  BY <1>1
<1>3. StrictOrder(Slots, R)
  <2>1. PICK v : v = [s \in Slots |-> d[active[s]]]
    OBVIOUS
  <2>2. \A s \in Slots : v[s] \in Nat /\ s \in Nat
    BY <1>0, <2>1, SlotsCounted
  <2>3. \A s, t \in Slots : <<t, s>> \in R <=> v[t] < v[s] \/ (v[t] = v[s] /\ t > s)
    BY <1>2, <2>1 DEF GivesWayBefore
  <2> QED
    BY <2>2, <2>3 DEF StrictOrder
<1>4. ASSUME NEW s \in Slots PROVE VictimRank(d, active, s) = RankIn(Slots, R, s)
  <2>1. {t \in Slots : d[active[t]] < d[active[s]] \/ (d[active[t]] = d[active[s]] /\ t > s)}
           = Before(Slots, R, s)
    BY <1>2 DEF Before, GivesWayBefore
  <2> QED
    BY <2>1 DEF VictimRank, RankIn
<1>5. /\ \A s \in Slots : VictimRank(d, active, s) \in Nat
      /\ \A s, t \in Slots : VictimRank(d, active, s) = VictimRank(d, active, t) => s = t
  <2>1. /\ \A s \in Slots : RankIn(Slots, R, s) \in 0 .. (Cardinality(Slots) - 1)
        /\ \A s, t \in Slots : RankIn(Slots, R, s) = RankIn(Slots, R, t) => s = t
    BY <1>3, SlotsCounted, RanksNumber
  <2> QED
    BY <1>4, <2>1
<1>6. PICK p, A : p = Demanded(d, active) /\ A = {s \in Slots : \E e \in Wanted(d, active) : Takes(d, active, e, s)}
  OBVIOUS
<1>7. p = [s \in Slots |-> IF s \in A THEN CHOOSE e \in Wanted(d, active) : Takes(d, active, e, s)
                           ELSE active[s]]
  BY <1>6 DEF Demanded
<1>8. ASSUME NEW s \in A PROVE p[s] \in Wanted(d, active) /\ Takes(d, active, p[s], s) /\ s \in Slots
  BY <1>6, <1>7
<1>9. \A s \in A : /\ p[s] \in Experts \ ExpertsOf(active)
                   /\ WantRank(d, active, p[s]) = VictimRank(d, active, s)
                   /\ VictimRank(d, active, s) < MaxReplacements
  BY <1>8 DEF Wanted, Takes
<1>10. \A s \in Slots \ A : p[s] = active[s] /\ p[s] \in ExpertsOf(active)
  BY <1>7 DEF ExpertsOf
<1>11. \A s, t \in Slots : p[s] = p[t] => s = t
  BY <1>0, <1>5, <1>8, <1>9, <1>10
<1>12. p \in LayerPlans
  <2>1. \A s \in Slots : p[s] \in Experts
    BY <1>0, <1>9, <1>10
  <2>2. p \in [Slots -> Experts]
    BY <1>7, <2>1
  <2> QED
    BY <1>11, <2>2 DEF LayerPlans
<1>13. Cardinality(A) <= MaxReplacements
  <2>1. PICK f : f = [s \in A |-> VictimRank(d, active, s)]
    OBVIOUS
  <2>2. ASSUME NEW s \in A PROVE VictimRank(d, active, s) \in 0 .. (MaxReplacements - 1)
    <3>1. PICK n : n = VictimRank(d, active, s)
      OBVIOUS
    <3>2. n \in Nat /\ n < MaxReplacements /\ MaxReplacements \in Nat
      BY <1>5, <1>8, <1>9, <3>1, SlotsCounted
    <3> QED
      BY <3>1, <3>2
  <2>3. f \in Injection(A, 0 .. (MaxReplacements - 1))
    BY <1>5, <1>8, <2>1, <2>2 DEF Injection, IsInjective
  <2>4. /\ IsFiniteSet(0 .. (MaxReplacements - 1))
        /\ Cardinality(0 .. (MaxReplacements - 1)) = MaxReplacements
    BY SlotsCounted, IndicesCounted
  <2> QED
    BY <2>3, <2>4, FS_Injection
<1>14. Cardinality(NewIn(p, active)) <= Cardinality(A)
  <2>1. A \in SUBSET Slots /\ NewIn(p, active) \in SUBSET {p[s] : s \in A}
    BY <1>8, <1>10 DEF NewIn, ExpertsOf
  <2> QED
    BY <1>12, <2>1, ImageSize, FS_Subset
<1>15. Cardinality(NewIn(p, active)) \in Nat /\ Cardinality(A) \in Nat
  <2>1. A \in SUBSET Slots
    BY <1>8
  <2> QED
    BY <1>12, <2>1, NewInBothWays, ImageSize
<1> QED
  BY <1>6, <1>12, <1>13, <1>14, <1>15, SlotsCounted

(* A set of numbers that is not empty has a least one.                      *)
LEMMA LeastNumber ==
  ASSUME NEW T \in SUBSET Nat, T # {}
  PROVE  \E m \in T : \A k \in Nat : k < m => k \notin T
<1>1. PICK m \in T : \A k \in T : ~ (<<k, m>> \in OpToRel(<, Nat))
  BY NatLessThanWellFounded, WFMin
<1> QED
  BY <1>1 DEF OpToRel

(* A function on the numbers may be given by its first value and a step.    *)
Begins(S, c, F, n, h) ==
    h \in [0 .. n -> S] /\ h[0] = c /\ \A m \in 0 .. (n - 1) : h[m + 1] = F[h[m]]
Begun(S, c, F, n) == CHOOSE h : Begins(S, c, F, n, h)

LEMMA BegunExists ==
  ASSUME NEW S, NEW c \in S, NEW F \in [S -> S], NEW n \in Nat
  PROVE  Begins(S, c, F, n, Begun(S, c, F, n))
<1>1. SUFFICES \E h : Begins(S, c, F, n, h)
  BY DEF Begun
<1>2. PICK T : T = {m \in Nat : ~ \E h : Begins(S, c, F, m, h)}
  OBVIOUS
<1>3. SUFFICES ASSUME T # {} PROVE FALSE
  BY <1>2
<1>4. PICK m \in T : \A k \in Nat : k < m => k \notin T
  <2>1. T \in SUBSET Nat
    BY <1>2
  <2> QED
    BY <1>3, <2>1, LeastNumber
<1>5. CASE m = 0
  <2>1. PICK h : h = [i \in 0 .. 0 |-> c]
    OBVIOUS
  <2>2. Begins(S, c, F, 0, h)
    BY <2>1 DEF Begins
  <2> QED
    BY <1>2, <1>4, <1>5, <2>2
<1>6. CASE m # 0
  <2>1. m - 1 \in Nat /\ m - 1 < m /\ m \in Nat
    BY <1>2, <1>6
  <2>2. PICK h : Begins(S, c, F, m - 1, h)
    BY <1>2, <1>4, <2>1
  <2>3. PICK k : k = [i \in 0 .. m |-> IF i = m THEN F[h[m - 1]] ELSE h[i]]
    OBVIOUS
  <2>4. h[m - 1] \in S /\ h \in [0 .. (m - 1) -> S]
    BY <2>1, <2>2 DEF Begins
  <2>5. k \in [0 .. m -> S]
    BY <2>1, <2>3, <2>4
  <2>6. k[0] = c
    BY <1>6, <2>1, <2>2, <2>3 DEF Begins
  <2>7. ASSUME NEW i \in 0 .. (m - 1) PROVE k[i + 1] = F[k[i]]
    <3>1. k[i] = h[i] /\ i \in Int
      BY <2>1, <2>3
    <3>2. CASE i + 1 = m
      <4>1. i = m - 1 /\ k[m] = F[h[m - 1]]
        BY <2>1, <2>3, <3>1, <3>2
      <4> QED
        BY <3>1, <3>2, <4>1
    <3>3. CASE i + 1 # m
      <4>1. i \in 0 .. ((m - 1) - 1) /\ k[i + 1] = h[i + 1]
        BY <2>1, <2>3, <3>3
      <4> QED
        BY <2>2, <3>1, <4>1 DEF Begins
    <3> QED
      BY <3>2, <3>3
  <2>8. Begins(S, c, F, m, k)
    BY <2>5, <2>6, <2>7 DEF Begins
  <2> QED
    BY <1>2, <1>4, <2>8
<1> QED
  BY <1>5, <1>6

LEMMA BegunAlike ==
  ASSUME NEW S, NEW c \in S, NEW F \in [S -> S], NEW n \in Nat, NEW h, NEW k,
         Begins(S, c, F, n, h), Begins(S, c, F, n + 1, k)
  PROVE  \A i \in 0 .. n : h[i] = k[i]
<1>1. PICK T : T = {i \in 0 .. n : h[i] # k[i]}
  OBVIOUS
<1>2. SUFFICES ASSUME T # {} PROVE FALSE
  BY <1>1
<1>3. PICK i \in T : \A j \in Nat : j < i => j \notin T
  <2>1. T \in SUBSET Nat
    BY <1>1
  <2> QED
    BY <1>2, <2>1, LeastNumber
<1>4. i # 0 /\ i \in 0 .. n
  BY <1>1, <1>3 DEF Begins
<1>5. /\ i - 1 \in 0 .. (n - 1) /\ i - 1 \in 0 .. n /\ i - 1 \in 0 .. ((n + 1) - 1)
      /\ (i - 1) + 1 = i /\ i - 1 \in Nat /\ i - 1 < i
  BY <1>4
<1>6. h[i - 1] = k[i - 1]
  BY <1>1, <1>3, <1>5
<1>7. h[(i - 1) + 1] = F[h[i - 1]] /\ k[(i - 1) + 1] = F[k[i - 1]]
  BY <1>5 DEF Begins
<1> QED
  BY <1>1, <1>3, <1>5, <1>6, <1>7

LEMMA StepByStep ==
  ASSUME NEW S, NEW c \in S, NEW F \in [S -> S]
  PROVE  \E f \in [Nat -> S] : f[0] = c /\ \A n \in Nat : f[n + 1] = F[f[n]]
<1>1. PICK part : part = [n \in Nat |-> Begun(S, c, F, n)]
  OBVIOUS
<1>2. \A n \in Nat : Begins(S, c, F, n, part[n])
  BY <1>1, BegunExists
<1>3. PICK f : f = [n \in Nat |-> part[n][n]]
  OBVIOUS
<1>4. ASSUME NEW n \in Nat PROVE f[n] \in S /\ f[n + 1] = F[f[n]]
  <2>1. n \in 0 .. n /\ n \in 0 .. ((n + 1) - 1) /\ n + 1 \in Nat
    OBVIOUS
  <2>2. Begins(S, c, F, n, part[n]) /\ Begins(S, c, F, n + 1, part[n + 1])
    BY <1>2, <2>1
  <2>3. f[n] = part[n][n] /\ f[n + 1] = part[n + 1][n + 1]
    BY <1>3, <2>1
  <2>4. part[n][n] = part[n + 1][n]
    BY <2>1, <2>2, BegunAlike
  <2>5. part[n + 1][n + 1] = F[part[n + 1][n]] /\ part[n][n] \in S
    BY <2>1, <2>2 DEF Begins
  <2> QED
    BY <2>3, <2>4, <2>5
<1>5. f[0] = c
  BY <1>2, <1>3 DEF Begins
<1>6. f \in [Nat -> S]
  BY <1>3, <1>4
<1> QED
  BY <1>4, <1>5, <1>6

(* One swap of cost_oracle makes one more expert new.                       *)
LEMMA SwapAddsOne ==
  ASSUME WTypeOK, NEW g \in Groups, NEW l \in Layers, NEW d \in [Experts -> Nat], NEW active \in LayerPlans,
         NEW q \in Swaps(g, l, d, active)
  PROVE  /\ q \in LayerPlans
         /\ \E p \in LayerPlans : q = AssignSlots(g, l, p)
         /\ \A n \in Nat : Cardinality(NewIn(active, CurrentPlans(g)[l])) <= n
               => Cardinality(NewIn(q, CurrentPlans(g)[l])) <= n + 1
<1>1. PICK c : c = CurrentPlans(g)[l]
  OBVIOUS
<1>2. c \in LayerPlans
  BY <1>1, SourceAndTarget DEF Plans
<1>3. PICK e \in Wanted(d, c) \ ExpertsOf(active), s \in Slots :
         q = AssignSlots(g, l, [active EXCEPT ![s] = e])
  BY <1>1 DEF Swaps
<1>4. PICK p : p = [active EXCEPT ![s] = e]
  OBVIOUS
<1>5. p \in LayerPlans /\ ExpertsOf(p) \subseteq ExpertsOf(active) \cup {e}
  <2>1. e \in Experts /\ \A t \in Slots : active[t] # e
    BY <1>3 DEF Wanted, ExpertsOf
  <2>2. \A t \in Slots : p[t] = IF t = s THEN e ELSE active[t]
    BY <1>4 DEF LayerPlans
  <2>3. \A t, u \in Slots : p[t] = p[u] => t = u
    BY <2>1, <2>2 DEF LayerPlans
  <2>4. p \in [Slots -> Experts]
    BY <1>4, <2>1 DEF LayerPlans
  <2> QED
    BY <2>2, <2>3, <2>4 DEF LayerPlans, ExpertsOf
<1>6. q \in LayerPlans /\ ExpertsOf(q) = ExpertsOf(p)
  BY <1>3, <1>4, <1>5, Assigned
<1>7. NewIn(q, c) \in SUBSET (NewIn(active, c) \cup {e})
  BY <1>5, <1>6 DEF NewIn
<1>8. /\ IsFiniteSet(NewIn(active, c)) /\ Cardinality(NewIn(active, c)) \in Nat
      /\ Cardinality(NewIn(q, c)) \in Nat
  BY <1>2, <1>6, NewInBothWays
<1>9. /\ IsFiniteSet(NewIn(active, c) \cup {e})
      /\ Cardinality(NewIn(active, c) \cup {e}) <= Cardinality(NewIn(active, c)) + 1
  <2>1. PICK A : A = NewIn(active, c)
    OBVIOUS
  <2>2. /\ IsFiniteSet(A \cup {e})
        /\ Cardinality(A \cup {e}) = IF e \in A THEN Cardinality(A) ELSE Cardinality(A) + 1
    BY <1>8, <2>1, FS_AddElement
  <2>3. Cardinality(A) \in Nat
    BY <1>8, <2>1
  <2> QED
    BY <2>1, <2>2, <2>3
<1>10. Cardinality(NewIn(q, c)) <= Cardinality(NewIn(active, c) \cup {e})
  BY <1>7, <1>9, FS_Subset
<1>11. Cardinality(NewIn(active, c) \cup {e}) \in Nat
  BY <1>9, FS_CardinalityType
<1>12. \E r \in LayerPlans : q = AssignSlots(g, l, r)
  BY <1>3, <1>4, <1>5
<1>13. ASSUME NEW n \in Nat, Cardinality(NewIn(active, c)) <= n
       PROVE  Cardinality(NewIn(q, c)) <= n + 1
  BY <1>8, <1>9, <1>10, <1>11, <1>13
<1> QED
  BY <1>1, <1>6, <1>12, <1>13

(* _build_cost_bounded_plans: no more swaps than the budget.                *)
Reached(g, l, n, q) ==
    /\ q \in LayerPlans
    /\ Cardinality(NewIn(q, CurrentPlans(g)[l])) <= n
    /\ q = CurrentPlans(g)[l] \/ \E p \in LayerPlans : q = AssignSlots(g, l, p)

LEMMA SwappedIsNear ==
  ASSUME WTypeOK, NEW g \in Groups, NEW l \in Layers, NEW d, d \in [Experts -> Nat],
         NEW q \in SwappedPlans(g, l, d)
  PROVE  Reached(g, l, MaxReplacements, q)
<1>1. PICK c : c = CurrentPlans(g)[l]
  OBVIOUS
<1>2. c \in LayerPlans
  BY <1>1, SourceAndTarget DEF Plans
<1> DEFINE Step(P) == P \cup UNION {Swaps(g, l, d, p) : p \in P}
<1>3. \A P \in SUBSET LayerPlans : Step(P) \in SUBSET LayerPlans
  BY SwapAddsOne
<1>4. \E f : f = [n \in Nat |-> IF n = 0 THEN {c} ELSE Step(f[n - 1])]
  <2>1. PICK F : F = [P \in SUBSET LayerPlans |-> Step(P)]
    OBVIOUS
  <2>2. F \in [SUBSET LayerPlans -> SUBSET LayerPlans] /\ {c} \in SUBSET LayerPlans
    BY <1>2, <1>3, <2>1
  <2>3. PICK f \in [Nat -> SUBSET LayerPlans] : f[0] = {c} /\ \A n \in Nat : f[n + 1] = F[f[n]]
    <3>1. PICK S, first : S = SUBSET LayerPlans /\ first = {c}
      OBVIOUS
    <3>2. F \in [S -> S] /\ first \in S
      BY ONLY <2>2, <3>1
    <3>3. \E f \in [Nat -> S] : f[0] = first /\ \A n \in Nat : f[n + 1] = F[f[n]]
      BY ONLY <3>2, StepByStep, SMTT(30)
    <3> QED
      BY <3>1, <3>3
  <2>4. ASSUME NEW n \in Nat, n # 0 PROVE f[n] = Step(f[n - 1])
    <3>1. n - 1 \in Nat /\ (n - 1) + 1 = n
      BY <2>4
    <3>2. f[n] = F[f[n - 1]] /\ f[n - 1] \in SUBSET LayerPlans
      BY <2>3, <3>1
    <3> QED
      BY <2>1, <3>2
  <2> HIDE DEF Step
  <2>5. f = [n \in Nat |-> IF n = 0 THEN {c} ELSE Step(f[n - 1])]
    BY <2>3, <2>4
  <2> QED
    BY <2>5
<1>5. PICK after :
         /\ after = [n \in Nat |-> IF n = 0 THEN {c} ELSE Step(after[n - 1])]
         /\ SwappedPlans(g, l, d) = after[MaxReplacements]
  <2>1. PICK a : a = CHOOSE f : f = [n \in Nat |-> IF n = 0 THEN {c} ELSE Step(f[n - 1])]
    OBVIOUS
  <2>2. a = [n \in Nat |-> IF n = 0 THEN {c} ELSE Step(a[n - 1])]
    BY <1>4, <2>1
  <2>3. SwappedPlans(g, l, d) = a[MaxReplacements]
    BY ONLY <1>1, <2>1 DEF SwappedPlans
  <2> QED
    BY <2>2, <2>3
<1>6. after[0] = {c} /\ \A n \in Nat : after[n + 1] = Step(after[n])
  <2> HIDE DEF Step
  <2>1. \A n \in Nat : n + 1 \in Nat /\ n + 1 # 0 /\ (n + 1) - 1 = n
    OBVIOUS
  <2> QED
    BY <1>5, <2>1
<1>7. ASSUME NEW n \in Nat, \A p \in after[n] : Reached(g, l, n, p), NEW r \in after[n + 1]
      PROVE  Reached(g, l, n + 1, r)
  <2>1. CASE r \in after[n]
    <3>1. Reached(g, l, n, r)
      BY <1>7, <2>1
    <3>2. Cardinality(NewIn(r, c)) \in Nat
      BY <1>2, <3>1, NewInBothWays DEF Reached
    <3> QED
      BY <1>1, <3>1, <3>2 DEF Reached
  <2>2. CASE r \notin after[n]
    <3>1. PICK p \in after[n] : r \in Swaps(g, l, d, p)
      BY <1>6, <2>2
    <3>2. Reached(g, l, n, p)
      BY <1>7
    <3> QED
      BY <3>1, <3>2, SwapAddsOne DEF Reached
  <2> QED
    BY <2>1, <2>2
<1>8. \A n \in Nat : \A p \in after[n] : Reached(g, l, n, p)
  <2>0. PICK T : T = {n \in Nat : ~ \A p \in after[n] : Reached(g, l, n, p)}
    OBVIOUS
  <2>1. SUFFICES ASSUME T # {} PROVE FALSE
    BY <2>0
  <2>2. PICK m \in T : \A k \in Nat : k < m => k \notin T
    <3>1. T \in SUBSET Nat
      BY <2>0
    <3> QED
      BY <2>1, <3>1, LeastNumber
  <2>3. CASE m = 0
    <3>1. Reached(g, l, 0, c)
      BY <1>1, <1>2, NoneNew DEF Reached
    <3> QED
      BY <1>6, <2>0, <2>2, <2>3, <3>1
  <2>4. CASE m # 0
    <3>1. m - 1 \in Nat /\ m - 1 < m /\ (m - 1) + 1 = m
      BY <2>0, <2>4
    <3>2. \A p \in after[m - 1] : Reached(g, l, m - 1, p)
      BY <2>0, <2>2, <3>1
    <3>3. \A p \in after[(m - 1) + 1] : Reached(g, l, (m - 1) + 1, p)
      BY <1>7, <3>1, <3>2
    <3> QED
      BY <2>0, <2>2, <3>1, <3>3
  <2> QED
    BY <2>3, <2>4
<1> QED
  BY <1>5, <1>8, SlotsCounted


(* Every candidate of a ticket keeps to the budget, layer by layer.         *)
LEMMA CandidatesNear ==
  ASSUME WTypeOK, NEW g \in Groups, NEW plans \in CandidatePlans(g)
  PROVE  plans \in Plans /\ \A l \in Layers : Reached(g, l, MaxReplacements, plans[l])
<1>1. ASSUME NEW l \in Layers PROVE Reached(g, l, MaxReplacements, CurrentPlans(g)[l])
  <2>1. CurrentPlans(g)[l] \in LayerPlans
    BY SourceAndTarget DEF Plans
  <2>2. Cardinality(NewIn(CurrentPlans(g)[l], CurrentPlans(g)[l])) = 0
    BY NoneNew
  <2> QED
    BY <2>1, <2>2, SlotsCounted DEF Reached
<1>2. CASE plans = CurrentPlans(g)
  BY <1>1, <1>2, SourceAndTarget
<1>3. CASE plans \in RankBoundedPlans(g)
  <2>1. /\ plans \in [Layers -> UNION {RankBounded(g, l) : l \in Layers}]
        /\ \A l \in Layers : plans[l] \in RankBounded(g, l)
    BY <1>3 DEF RankBoundedPlans
  <2>2. ASSUME NEW l \in Layers PROVE plans[l] \in LayerPlans /\ Reached(g, l, MaxReplacements, plans[l])
    <3>0. PICK d \in Demands[l] : plans[l] = AssignSlots(g, l, Demanded(d, CurrentPlans(g)[l]))
      BY <2>1 DEF RankBounded
    <3>1. PICK c, p : c = CurrentPlans(g)[l] /\ p = Demanded(d, c)
      OBVIOUS
    <3>2. c \in LayerPlans /\ d \in [Experts -> Nat]
      BY <3>1, SourceAndTarget, WorkingSetAssumption DEF Plans
    <3>3. p \in LayerPlans /\ Cardinality(NewIn(p, c)) <= MaxReplacements
      BY <3>1, <3>2, DemandedIsNear
    <3>4. plans[l] = AssignSlots(g, l, p)
      BY <3>0, <3>1
    <3>5. plans[l] \in LayerPlans /\ ExpertsOf(plans[l]) = ExpertsOf(p)
      BY <3>3, <3>4, Assigned
    <3>6. NewIn(plans[l], c) = NewIn(p, c)
      BY <3>5 DEF NewIn
    <3> QED
      BY <3>1, <3>3, <3>4, <3>5, <3>6 DEF Reached
  <2>3. plans \in [Layers -> LayerPlans]
    BY <2>1, <2>2
  <2> QED
    BY <2>2, <2>3 DEF Plans
<1>4. CASE plans \in CostBoundedPlans(g)
  <2>1. /\ plans \in [Layers -> UNION {CostBounded(g, l) : l \in Layers}]
        /\ \A l \in Layers : plans[l] \in CostBounded(g, l)
    BY <1>4 DEF CostBoundedPlans
  <2>2. ASSUME NEW l \in Layers PROVE Reached(g, l, MaxReplacements, plans[l])
    <3>1. PICK d \in Demands[l] : plans[l] \in SwappedPlans(g, l, d)
      BY <2>1 DEF CostBounded
    <3>2. d \in [Experts -> Nat]
      BY WorkingSetAssumption
    <3> QED
      BY <3>1, <3>2, SwappedIsNear
  <2>3. plans \in [Layers -> LayerPlans]
    BY <2>1, <2>2 DEF Reached
  <2> QED
    BY <2>2, <2>3 DEF Plans
<1> QED
  BY <1>2, <1>3, <1>4 DEF CandidatePlans

-----------------------------------------------------------------------------
(* The inductive invariant. *)

Near(p, q) == \A l \in Layers : Cardinality(NewIn(p[l], q[l])) <= MaxReplacements

(* A layer of a plan leaves where they are the experts of it that its       *)
(* target already holds; if it has the experts of the source it is the      *)
(* plan of the source.                                                      *)
KeepsTarget(g, l, plan) ==
    IF SameExperts(plan, CurrentPlans(g)[l]) THEN plan = CurrentPlans(g)[l]
    ELSE \A s \in KeptInTarget(g, l, ExpertsOf(plan)) :
            plan[s] = buffers[TargetBuffer(g)].plans[l][s]

(* The source of the ticket is still the current plan of its group, and its *)
(* plan keeps to the budget and to the target.                              *)
PendingFits ==
    pending # NoPending =>
        /\ pending.source = CurrentPlans(pending.group)
        /\ Near(pending.plans, pending.source)
        /\ \A l \in Layers : KeepsTarget(pending.group, l, pending.plans[l])

(* Every buffer of a group is near the plan committed last, and one of two  *)
(* holds it.                                                                *)
BuffersNear ==
    \A g \in Groups :
        /\ \A b \in Resident(g) : Near(buffers[b].plans, logical_plans[g])
        /\ Resident(g) = 0 .. 1 => \E b \in 0 .. 1 : buffers[b].plans = logical_plans[g]

WInv == WTypeOK /\ PendingFits /\ NoPlanTwice /\ BuffersNear

(* The first state: no buffer holds a group.                                *)
LEMMA WInitInv ==
  ASSUME WInit
  PROVE  WInv
<1>1. 0 \in Groups /\ NumGroups \in 0 .. NumGroups /\ \A g \in Groups : g # NumGroups
  BY WorkingSetAssumption DEF Groups
<1>2. WTypeOK
  <2>1. FrequencyPlans[0] \in Plans /\ FrequencyPlans \in [Groups -> Plans]
    BY <1>1, WorkingSetAssumption
  <2> QED
    BY <1>1, <2>1 DEF WInit, WTypeOK, NoGroup
<1>3. \A g \in Groups : Resident(g) = {}
  BY <1>1 DEF WInit, Resident, NoGroup
<1>4. BuffersNear
  <2>1. 0 \in 0 .. 1
    OBVIOUS
  <2> QED
    BY <1>3, <2>1 DEF BuffersNear
<1>5. NoPlanTwice
  BY <1>1 DEF WInit, NoPlanTwice, NoGroup
<1>6. PendingFits
  BY DEF WInit, PendingFits
<1> QED
  BY <1>2, <1>4, <1>5, <1>6 DEF WInv

(* What the planner reads of the state: a step that leaves it alone leaves  *)
(* the source and the target of every group alone.                          *)
LEMMA SamePlanner ==
  ASSUME UNCHANGED <<policy, buffers, last_written, logical_plans>>, NEW g
  PROVE  /\ Resident(g)' = Resident(g) /\ CurrentPlans(g)' = CurrentPlans(g)
         /\ TargetBuffer(g)' = TargetBuffer(g)
         /\ \A l, plan : KeepsTarget(g, l, plan) => KeepsTarget(g, l, plan)'
<1>1. Resident(g)' = Resident(g)
  BY DEF Resident
<1>2. CurrentPlans(g)' = CurrentPlans(g) /\ TargetBuffer(g)' = TargetBuffer(g)
  BY <1>1 DEF CurrentPlans, LatestBuffer, TargetBuffer
<1>3. ASSUME NEW l, NEW plan, NEW S PROVE KeptInTarget(g, l, S)' = KeptInTarget(g, l, S)
  BY <1>2 DEF KeptInTarget
<1> QED
  BY <1>1, <1>2, <1>3 DEF KeepsTarget

(* A plan the planner made keeps what the target holds of it.               *)
LEMMA ReachedKeeps ==
  ASSUME WTypeOK, NEW g \in Groups, NEW l \in Layers, NEW n, NEW q, Reached(g, l, n, q)
  PROVE  KeepsTarget(g, l, q)
<1>1. CASE q = CurrentPlans(g)[l]
  BY <1>1 DEF KeepsTarget, SameExperts
<1>2. CASE \E p \in LayerPlans : q = AssignSlots(g, l, p)
  <2>1. PICK p \in LayerPlans : q = AssignSlots(g, l, p)
    BY <1>2
  <2>2. /\ ExpertsOf(q) = ExpertsOf(p)
        /\ ~ SameExperts(p, CurrentPlans(g)[l]) =>
              \A s \in KeptInTarget(g, l, ExpertsOf(p)) :
                 q[s] = buffers[TargetBuffer(g)].plans[l][s]
        /\ SameExperts(p, CurrentPlans(g)[l]) => q = CurrentPlans(g)[l]
    BY <2>1, Assigned
  <2> QED
    BY <2>2 DEF KeepsTarget, SameExperts
<1> QED
  BY <1>1, <1>2 DEF Reached

(* choose_next leaves the buffers and the committed plans alone.            *)
LEMMA ChooseNextInv ==
  ASSUME WInv, NEW g \in Groups, ChooseNext(g)
  PROVE  WInv'
<1>1. UNCHANGED <<policy, buffers, last_written, logical_plans>>
  BY DEF ChooseNext
<1>2. PICK plans \in CandidatePlans(g) :
         pending' = [group |-> g, source |-> CurrentPlans(g), plans |-> plans,
                     target |-> PlannedTarget(g, plans)]
  BY DEF ChooseNext
<1>3. plans \in Plans /\ CurrentPlans(g) \in Plans /\ TargetBuffer(g) \in 0 .. 1
  BY CandidatesNear, SourceAndTarget DEF WInv
<1>4. PlannedTarget(g, plans) \in 0 .. 1
  <2>1. ExactBuffer(g, plans) \subseteq 0 .. 1
    BY DEF ExactBuffer, Resident
  <2> QED
    BY <1>3, <2>1 DEF PlannedTarget
<1>5. pending' \in Candidate
  BY <1>2, <1>3, <1>4 DEF Candidate
<1>6. WTypeOK'
  BY <1>1, <1>5 DEF WInv, WTypeOK
<1>7. PendingFits'
  <2>1. pending'.group = g /\ pending'.source = CurrentPlans(g) /\ pending'.plans = plans
    BY <1>2
  <2>2. CurrentPlans(g)' = CurrentPlans(g)
    BY <1>1, SamePlanner
  <2>3. CurrentPlans(pending.group)' = CurrentPlans(g)
    BY <2>1, <2>2 DEF CurrentPlans, Resident, LatestBuffer
  <2>4. ASSUME NEW l \in Layers
        PROVE  /\ Cardinality(NewIn(plans[l], CurrentPlans(g)[l])) <= MaxReplacements
               /\ KeepsTarget(pending.group, l, plans[l])'
    <3>1. Reached(g, l, MaxReplacements, plans[l])
      BY CandidatesNear DEF WInv
    <3>2. KeepsTarget(g, l, plans[l])'
      BY <1>1, <3>1, ReachedKeeps, SamePlanner DEF WInv
    <3>3. KeepsTarget(pending.group, l, plans[l])'
      BY <2>1, <3>2 DEF KeepsTarget, CurrentPlans, Resident, LatestBuffer, TargetBuffer, KeptInTarget
    <3> QED
      BY <3>1, <3>3 DEF Reached
  <2> QED
    BY <2>1, <2>3, <2>4 DEF PendingFits, Near
<1>8. NoPlanTwice' /\ BuffersNear'
  BY <1>1 DEF WInv, NoPlanTwice, BuffersNear, Resident
<1> QED
  BY <1>6, <1>7, <1>8 DEF WInv

(* unreserve only drops the candidate.                                      *)
LEMMA UnreserveInv ==
  ASSUME WInv, Unreserve
  PROVE  WInv'
<1>1. UNCHANGED <<policy, buffers, last_written, logical_plans>> /\ pending' = NoPending
  BY DEF Unreserve
<1>2. WTypeOK' /\ PendingFits'
  BY <1>1 DEF WInv, WTypeOK, PendingFits
<1>3. NoPlanTwice' /\ BuffersNear'
  BY <1>1 DEF WInv, NoPlanTwice, BuffersNear, Resident
<1> QED
  BY <1>2, <1>3 DEF WInv

(* Two plans near a third: nearness goes both ways.                         *)
LEMMA NearBothWays ==
  ASSUME NEW p \in Plans, NEW q \in Plans
  PROVE  Near(p, p) /\ (Near(p, q) => Near(q, p))
<1>1. \A l \in Layers : p[l] \in LayerPlans /\ q[l] \in LayerPlans
  BY DEF Plans
<1>2. \A l \in Layers : Cardinality(NewIn(p[l], q[l])) = Cardinality(NewIn(q[l], p[l]))
  BY <1>1, NewInBothWays
<1>3. \A l \in Layers : Cardinality(NewIn(p[l], p[l])) = 0
  BY NoneNew
<1> QED
  BY <1>2, <1>3, SlotsCounted DEF Near

(* A group is served from a buffer, or from what it committed last.         *)
LEMMA CurrentIsNear ==
  ASSUME WTypeOK, BuffersNear, NEW g \in Groups
  PROVE  Near(CurrentPlans(g), logical_plans[g])
<1>1. CASE Resident(g) = {}
  <2>1. CurrentPlans(g) = logical_plans[g] /\ logical_plans[g] \in Plans
    BY <1>1 DEF CurrentPlans, WTypeOK
  <2> QED
    BY <2>1, NearBothWays
<1>2. CASE Resident(g) # {}
  BY <1>2, SourceAndTarget DEF CurrentPlans, BuffersNear
<1> QED
  BY <1>1, <1>2

(* An exact match is reused: both buffers stay, and any other buffer of the *)
(* group is near it.                                                        *)
LEMMA ReuseInv ==
  ASSUME WInv, CompleteGroup, NEW x \in ExactBuffer(pending.group, pending.plans)
  PROVE  BuffersNear'
<1>1. PICK g, p : g = pending.group /\ p = pending.plans
  OBVIOUS
<1>2. g \in Groups /\ p \in Plans
  BY <1>1 DEF CompleteGroup, WInv, WTypeOK, Candidate
<1>3. buffers' = buffers /\ logical_plans' = [logical_plans EXCEPT ![g] = p]
  BY <1>1 DEF CompleteGroup, CommitPlans
<1>4. x \in Resident(g) /\ buffers[x].plans = p
  BY <1>1 DEF ExactBuffer
<1>5. Resident(g) \subseteq 0 .. 1 /\ \A b \in 0 .. 1 : buffers[b].plans \in Plans
  BY DEF Resident, WInv, WTypeOK
<1>6. \A h : Resident(h)' = Resident(h)
  BY <1>3 DEF Resident
<1>7. \A h \in Groups : logical_plans'[h] = IF h = g THEN p ELSE logical_plans[h]
  BY <1>3 DEF WInv, WTypeOK
<1>8. ASSUME NEW b \in Resident(g) PROVE Near(buffers[b].plans, p)
  <2>1. CASE buffers[b].plans = p
    BY <1>2, <2>1, NearBothWays
  <2>2. CASE buffers[b].plans # p
    <3>1. Resident(g) = 0 .. 1 /\ \A c \in 0 .. 1 : c = b \/ c = x
      BY <1>4, <1>5, <2>2
    <3>2. PICK c \in 0 .. 1 : buffers[c].plans = logical_plans[g]
      BY <1>2, <3>1 DEF WInv, BuffersNear
    <3>3. Near(buffers[b].plans, logical_plans[g]) /\ Near(p, logical_plans[g])
      BY <1>2, <1>4 DEF WInv, BuffersNear
    <3>4. CASE c = b
      BY <1>2, <1>5, <3>2, <3>3, <3>4, NearBothWays
    <3>5. CASE c = x
      BY <1>4, <3>2, <3>3, <3>5
    <3> QED
      BY <3>1, <3>4, <3>5
  <2> QED
    BY <2>1, <2>2
<1>9. ASSUME NEW h \in Groups
      PROVE  /\ \A b \in Resident(h)' : Near(buffers'[b].plans, logical_plans'[h])
             /\ Resident(h)' = 0 .. 1 => \E b \in 0 .. 1 : buffers'[b].plans = logical_plans'[h]
  <2>1. CASE h = g
    BY <1>3, <1>4, <1>5, <1>6, <1>7, <1>8, <2>1
  <2>2. CASE h # g
    BY <1>3, <1>6, <1>7, <2>2 DEF WInv, BuffersNear
  <2> QED
    BY <2>1, <2>2
<1> QED
  BY <1>9 DEF BuffersNear, Near

(* A plan that no buffer holds is written to the target: the source, if     *)
(* there is one, stays.                                                     *)
LEMMA WriteInv ==
  ASSUME WInv, CompleteGroup, ExactBuffer(pending.group, pending.plans) = {}
  PROVE  NoPlanTwice' /\ BuffersNear' /\ buffers' \in [0 .. 1 -> [group : 0 .. NumGroups, plans : Plans]]
         /\ last_written' \in 0 .. 1
<1>1. PICK g, p, t : g = pending.group /\ p = pending.plans /\ t = TargetBuffer(g)
  OBVIOUS
<1>2. g \in Groups /\ p \in Plans /\ g \in 0 .. NumGroups
  <2>1. g \in Groups /\ p \in Plans
    BY <1>1 DEF CompleteGroup, WInv, WTypeOK, Candidate
  <2> QED
    BY <2>1, WorkingSetAssumption DEF Groups
<1>3. /\ buffers' = [buffers EXCEPT ![t] = [group |-> g, plans |-> p]] /\ last_written' = t
      /\ logical_plans' = [logical_plans EXCEPT ![g] = p]
  BY <1>1 DEF CompleteGroup, CommitPlans, Write
<1>4. t \in 0 .. 1 /\ (Resident(g) # {} => t = 1 - LatestBuffer(g) /\ LatestBuffer(g) \in Resident(g))
  BY <1>1, <1>2, SourceAndTarget DEF WInv
<1>5. buffers \in [0 .. 1 -> [group : 0 .. NumGroups, plans : Plans]]
  BY DEF WInv, WTypeOK
<1>6. buffers' \in [0 .. 1 -> [group : 0 .. NumGroups, plans : Plans]]
  BY <1>2, <1>3, <1>5
<1>7. \A b \in 0 .. 1 : buffers'[b] = IF b = t THEN [group |-> g, plans |-> p] ELSE buffers[b]
  BY <1>3, <1>5
<1>8. NoPlanTwice'
  <2>1. \A b \in 0 .. 1 : buffers[b].group = g => buffers[b].plans # p
    BY <1>1 DEF ExactBuffer, Resident
  <2>2. \A b \in 0 .. 1 : b # t => buffers'[b] # buffers'[t]
    BY <1>4, <1>7, <2>1
  <2> QED
    BY <1>4, <2>2 DEF NoPlanTwice
<1>9. \A h \in Groups : logical_plans'[h] = IF h = g THEN p ELSE logical_plans[h]
  BY <1>3 DEF WInv, WTypeOK
<1>10. \A h : Resident(h)' = {b \in 0 .. 1 : buffers'[b].group = h}
  BY DEF Resident
<1>11. \A h : Resident(h) = {b \in 0 .. 1 : buffers[b].group = h}
  BY DEF Resident
<1>12. Near(p, p) /\ (Resident(g) # {} => Near(buffers[LatestBuffer(g)].plans, p))
  <2>1. Near(p, CurrentPlans(g))
    BY <1>1 DEF CompleteGroup, WInv, PendingFits
  <2>2. CurrentPlans(g) \in Plans
    BY <1>2, SourceAndTarget DEF WInv
  <2>3. Near(p, p) /\ Near(CurrentPlans(g), p)
    BY <1>2, <2>1, <2>2, NearBothWays
  <2> QED
    BY <2>3 DEF CurrentPlans
<1>13. ASSUME NEW h \in Groups
       PROVE  /\ \A b \in Resident(h)' : Near(buffers'[b].plans, logical_plans'[h])
              /\ Resident(h)' = 0 .. 1 => \E b \in 0 .. 1 : buffers'[b].plans = logical_plans'[h]
  <2>1. CASE h = g
    <3>1. logical_plans'[h] = p /\ buffers'[t].plans = p
      BY <1>4, <1>7, <1>9, <2>1
    <3>2. ASSUME NEW b \in Resident(h)' PROVE Near(buffers'[b].plans, p)
      <4>1. b \in 0 .. 1 /\ buffers'[b].group = g
        BY <1>10, <2>1
      <4>2. CASE b = t
        BY <1>12, <3>1, <4>2
      <4>3. CASE b # t
        <5>1. buffers'[b] = buffers[b] /\ b \in Resident(g)
          BY <1>7, <1>11, <4>1, <4>3
        <5>2. b = LatestBuffer(g)
          BY <1>4, <4>1, <4>3, <5>1, SourceAndTarget, <1>2 DEF WInv
        <5> QED
          BY <1>12, <5>1, <5>2
      <4> QED
        BY <4>2, <4>3
    <3> QED
      BY <1>4, <3>1, <3>2
  <2>2. CASE h # g
    <3>1. \A b \in Resident(h)' : b \in Resident(h) /\ b # t /\ buffers'[b] = buffers[b]
      BY <1>7, <1>10, <1>11, <2>2
    <3>2. Resident(h)' # 0 .. 1
      BY <1>4, <3>1
    <3> QED
      BY <1>9, <2>2, <3>1, <3>2 DEF WInv, BuffersNear
  <2> QED
    BY <2>1, <2>2
<1>14. BuffersNear'
  BY <1>13 DEF BuffersNear, Near
<1> QED
  BY <1>3, <1>4, <1>6, <1>8, <1>14

(* complete_group commits the plan of the ticket.                           *)
LEMMA CompleteGroupInv ==
  ASSUME WInv, CompleteGroup
  PROVE  WInv'
<1>1. pending' = NoPending /\ policy' = policy
  BY DEF CompleteGroup
<1>2. PendingFits'
  BY <1>1 DEF PendingFits
<1>3. logical_plans' \in [Groups -> Plans]
  BY DEF CompleteGroup, WInv, WTypeOK, Candidate
<1>4. CASE ExactBuffer(pending.group, pending.plans) = {}
  <2>1. NoPlanTwice' /\ BuffersNear'
    BY <1>4, WriteInv
  <2>2. WTypeOK'
    BY <1>1, <1>3, <1>4, WriteInv DEF WInv, WTypeOK
  <2> QED
    BY <1>2, <2>1, <2>2 DEF WInv
<1>5. CASE ExactBuffer(pending.group, pending.plans) # {}
  <2>1. BuffersNear'
    BY <1>5, ReuseInv
  <2>2. UNCHANGED <<buffers, last_written>>
    BY <1>5 DEF CompleteGroup, CommitPlans
  <2>3. NoPlanTwice' /\ WTypeOK'
    BY <1>1, <1>3, <2>2 DEF WInv, WTypeOK, NoPlanTwice
  <2> QED
    BY <1>2, <2>1, <2>3 DEF WInv
<1> QED
  BY <1>4, <1>5

(* A step that changes nothing.                                             *)
LEMMA WStutterInv ==
  ASSUME WInv, UNCHANGED wvars
  PROVE  WInv'
<1>1. UNCHANGED <<policy, buffers, last_written, logical_plans>> /\ pending' = pending
  BY DEF wvars
<1>2. WTypeOK'
  BY <1>1 DEF WInv, WTypeOK
<1>3. PendingFits'
  <2>1. SUFFICES ASSUME pending # NoPending PROVE PendingFits'
    BY <1>1 DEF PendingFits
  <2>2. PICK g : g = pending.group
    OBVIOUS
  <2>3. CurrentPlans(g)' = CurrentPlans(g) /\ \A l, plan : KeepsTarget(g, l, plan) => KeepsTarget(g, l, plan)'
    BY <1>1, SamePlanner
  <2>4. CurrentPlans(pending.group)' = CurrentPlans(g)
    BY <1>1, <2>2, <2>3 DEF CurrentPlans, Resident, LatestBuffer
  <2>5. ASSUME NEW l, NEW plan, KeepsTarget(g, l, plan) PROVE KeepsTarget(pending.group, l, plan)'
    <3>1. KeepsTarget(g, l, plan)' /\ pending'.group = g
      BY <1>1, <2>2, <2>3, <2>5
    <3> QED
      BY <3>1 DEF KeepsTarget, CurrentPlans, Resident, LatestBuffer, TargetBuffer, KeptInTarget
  <2> QED
    BY <1>1, <2>1, <2>2, <2>4, <2>5 DEF WInv, PendingFits, Near
<1>4. NoPlanTwice' /\ BuffersNear'
  BY <1>1 DEF WInv, NoPlanTwice, BuffersNear, Resident
<1> QED
  BY <1>2, <1>3, <1>4 DEF WInv

(* Every step keeps the invariant.                                          *)
LEMMA WNextInv ==
  ASSUME WInv, [WNext]_wvars
  PROVE  WInv'
<1>1. CASE \E g \in Groups : ChooseNext(g)
  BY <1>1, ChooseNextInv
<1>2. CASE CompleteGroup
  BY <1>2, CompleteGroupInv
<1>3. CASE Unreserve
  BY <1>3, UnreserveInv
<1>4. CASE UNCHANGED wvars
  BY <1>4, WStutterInv
<1> QED
  BY <1>1, <1>2, <1>3, <1>4 DEF WNext

-----------------------------------------------------------------------------
(* Theorems. *)

(* The inductive invariant: types, the candidate of the outstanding ticket  *)
(* and both buffers near what their groups committed last.                  *)
THEOREM WInvariant == WSpec => []WInv
<1>1. WInit => WInv
  BY WInitInv
<1>2. WInv /\ [WNext]_wvars => WInv'
  BY WNextInv
<1> QED
  BY <1>1, <1>2, PTL DEF WSpec

(* Plans, buffers and the candidate have their types.                       *)
THEOREM WorkingSetTypes == WSpec => []WTypeOK
<1>1. WInv => WTypeOK
  BY DEF WInv
<1> QED
  BY <1>1, WInvariant, PTL

(* The two buffers never hold the same plan of the same group: what         *)
(* complete_group commits is written only when no buffer holds it.          *)
THEOREM NoBufferWasted == WSpec => []NoPlanTwice
<1>1. WInv => NoPlanTwice
  BY DEF WInv
<1> QED
  BY <1>1, WInvariant, PTL

(* However its buffers were written, evicted and reused, the plan a group   *)
(* is served from differs from the one it committed last by at most one     *)
(* ticket's replacements, layer by layer.                                   *)
THEOREM SourceStaysNear == WSpec => []SourceNearLastCommitted
<1>1. WInv => SourceNearLastCommitted
  BY CurrentIsNear DEF WInv, SourceNearLastCommitted, Near
<1> QED
  BY <1>1, WInvariant, PTL

(* The slots that have to be copied: those the target does not hold.        *)
LEMMA CopiedSlots ==
  ASSUME NEW g, NEW l, NEW p
  PROVE  /\ Copied(g, l, p, {"d2d", "h2d"}) =
              {s \in Slots : ~ (buffers[TargetBuffer(g)].group = g /\ buffers[TargetBuffer(g)].plans[l][s] = p[s])}
         /\ \A s \in Copied(g, l, p, {"h2d"}) :
              s \in Slots /\ ~ (Resident(g) # {} /\ p[s] \in ExpertsOf(CurrentPlans(g)[l]))
<1>1. \A s \in Slots :
         CopyKind(g, l, p, s) \in {"d2d", "h2d"} <=>
           ~ (buffers[TargetBuffer(g)].group = g /\ buffers[TargetBuffer(g)].plans[l][s] = p[s])
  BY DEF CopyKind
<1>2. \A s \in Slots : CopyKind(g, l, p, s) = "h2d"
                          => ~ (Resident(g) # {} /\ p[s] \in ExpertsOf(CurrentPlans(g)[l]))
  BY DEF CopyKind
<1> QED
  BY <1>1, <1>2 DEF Copied

(* In a layer whose experts change, no other order of them would copy fewer:*)
(* the slots the plan keeps include those any other order could keep.  A    *)
(* layer whose experts do not change is copied in the order of the source.  *)
(* In both, what is read from the host is new to the plan, and no more than *)
(* the budget.                                                              *)
THEOREM ChangedLayersAreCheapest == WSpec => []ChangedLayersCopyLeast
<1>1. ASSUME WInv PROVE ChangedLayersCopyLeast
  <2> PICK g : g = pending.group
    OBVIOUS
  <2>1. SUFFICES ASSUME pending # NoPending, Resident(g) # {}, NEW l \in Layers,
                        NEW plan, plan = pending.plans[l],
                        NEW H, H = Copied(g, l, plan, {"h2d"})
        PROVE  /\ {plan[s] : s \in H} \subseteq NewIn(plan, pending.source[l])
               /\ Cardinality({plan[s] : s \in H}) <= MaxReplacements
               /\ SameExperts(plan, pending.source[l]) => plan = pending.source[l]
               /\ ~ SameExperts(plan, pending.source[l]) => CopiesLeast(g, l, plan)
    BY DEF ChangedLayersCopyLeast
  <2>2. g \in Groups /\ pending.plans \in Plans /\ plan \in LayerPlans
    BY <1>1, <2>1 DEF WInv, WTypeOK, Candidate, Plans
  <2>3. PICK c : c = CurrentPlans(g)[l]
    OBVIOUS
  <2>4. /\ c = pending.source[l] /\ Cardinality(NewIn(plan, c)) <= MaxReplacements
        /\ KeepsTarget(g, l, plan) /\ c \in LayerPlans
    BY <1>1, <2>1, <2>2, <2>3, SourceAndTarget DEF WInv, PendingFits, Near, Plans
  <2>5. SameExperts(plan, c) => plan = c
    BY <2>3, <2>4 DEF KeepsTarget
  <2>6. ASSUME ~ SameExperts(plan, c), NEW q \in LayerPlans, ExpertsOf(q) = ExpertsOf(plan)
        PROVE  Cardinality(Copied(g, l, plan, {"d2d", "h2d"}))
                  <= Cardinality(Copied(g, l, q, {"d2d", "h2d"}))
    <3>1. \A s \in Slots : buffers[TargetBuffer(g)].group = g /\ buffers[TargetBuffer(g)].plans[l][s] = q[s]
                              => plan[s] = buffers[TargetBuffer(g)].plans[l][s]
      <4>1. \A s \in Slots : q[s] \in ExpertsOf(plan)
        BY <2>6 DEF ExpertsOf
      <4>2. \A s \in KeptInTarget(g, l, ExpertsOf(plan)) :
               plan[s] = buffers[TargetBuffer(g)].plans[l][s]
        BY <2>3, <2>4, <2>6 DEF KeepsTarget
      <4> QED
        BY <4>1, <4>2 DEF KeptInTarget
    <3>2. Copied(g, l, plan, {"d2d", "h2d"}) \in SUBSET Copied(g, l, q, {"d2d", "h2d"})
      BY <3>1, CopiedSlots
    <3>3. IsFiniteSet(Copied(g, l, q, {"d2d", "h2d"}))
      <4>1. Copied(g, l, q, {"d2d", "h2d"}) \in SUBSET Slots
        BY DEF Copied
      <4> QED
        BY <4>1, SlotsCounted, FS_Subset
    <3> QED
      BY <3>2, <3>3, FS_Subset
  <2>7. {plan[s] : s \in H} \in SUBSET NewIn(plan, c)
    <3>1. \A s \in H : s \in Slots /\ plan[s] \notin ExpertsOf(c)
      BY <2>1, <2>3, CopiedSlots
    <3> QED
      BY <3>1 DEF NewIn, ExpertsOf
  <2>8. Cardinality({plan[s] : s \in H}) <= MaxReplacements
    <3>1. IsFiniteSet(NewIn(plan, c)) /\ Cardinality(NewIn(plan, c)) \in Nat
      BY <2>2, <2>4, NewInBothWays
    <3>2. /\ Cardinality({plan[s] : s \in H}) <= Cardinality(NewIn(plan, c))
          /\ Cardinality({plan[s] : s \in H}) \in Nat
      BY <2>7, <3>1, FS_Subset, FS_CardinalityType
    <3> QED
      BY <2>4, <3>1, <3>2, SlotsCounted
  <2> QED
    BY <2>4, <2>5, <2>6, <2>7, <2>8 DEF CopiesLeast
<1> QED
  BY <1>1, WInvariant, PTL
=============================================================================
