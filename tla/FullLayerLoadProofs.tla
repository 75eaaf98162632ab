------------------------ MODULE FullLayerLoadProofs -------------------------
(***************************************************************************)
(* Proofs about FullLayerLoad for any number of ranks, layers and experts. *)
(***************************************************************************)
EXTENDS FullLayerLoad, FiniteSetTheorems, TLAPS

(* How many experts come from the CPU, on any rank.                         *)
Total == IF Shortcut THEN NumExperts - NumGpu ELSE NumExperts
Values == {Torn} \cup [layer : Layers, expert : Experts, ready : BOOLEAN]
Places == {"start", "write", "barrier", "wait", "update", "end"}

LoadTypeOK ==
    /\ format \in {"fp8", "int4"} /\ layer \in Layers /\ full \in BOOLEAN
    /\ pc \in [Ranks -> Places]
    /\ idx \in [Ranks -> Nat] /\ copied \in [Ranks -> Nat] /\ posted \in [Ranks -> Nat]
    /\ write \in [at : Nat, todo : SUBSET Ranks, doing : SUBSET Ranks]
    /\ buffers \in [Ranks -> [{0, 1} -> Values]]
    /\ gpu \in [Ranks -> [Experts -> Values]]
    /\ placed \in [Ranks -> [Layers -> Selections]]
    /\ held \in [Ranks -> [Layers -> [Slots -> Values]]]

(* All ranks keep the same experts, but for the layer of which some have    *)
(* already, and some have not yet, what rank 0 selected.                    *)
RanksAgree ==
    /\ \A r, q \in Ranks : \A l \in Layers :
          l # layer \/ ~ full \/ (pc[r] = "end" <=> pc[q] = "end") => placed[r][l] = placed[q][l]
    /\ \A r \in Ranks : full /\ pc[r] = "end" => chosen = {placed[r][layer]}
    /\ \A r \in Ranks : ~ full => pc[r] \in {"start", "end"}
    /\ pc[0] # "end" => chosen = {}

(* How far each rank and its streams are, and that no rank passes a barrier *)
(* alone.                                                                   *)
InStep ==
    /\ \A r \in Ranks :
          /\ pc[r] = "write" => r = 0
          /\ posted[r] <= copied[r] /\ copied[r] <= idx[r] /\ idx[r] <= Total
          /\ pc[r] \in {"write", "barrier"} => idx[r] < Total
          /\ pc[r] \in {"wait", "update"} \/ (full /\ pc[r] = "end") => idx[r] = Total
          /\ pc[r] \in {"start", "update", "end"} =>
                copied[r] = idx[r] /\ (InPlace => posted[r] = idx[r])
    /\ full => \A r, q \in Ranks : pc[r] # "start" => Entered(q) >= idx[r]

(* Which write is under way.                                                *)
Writes == full /\ pc[0] # "start" /\ Total > 0
WritesInOrder ==
    /\ Writes =>
          /\ write.at < Total
          /\ pc[0] = "write" => write.at = idx[0]
          /\ pc[0] = "barrier" => \/ write.at = idx[0] + 1
                                  \/ write.at = idx[0] /\ idx[0] + 1 = Total /\ Written
          /\ pc[0] \in {"wait", "update", "end"} => write.at = Total - 1 /\ Written
    /\ ~ Writes => Written

(* What a buffer of a rank may hold for the position i that it waits for.   *)
Sent(r, j) == Weights(layer, Position(r, j), ~ InPlace)
LaterOnly(r, i, value) ==
    value = Torn \/ \E j \in i .. (Total - 1) : j % 2 = i % 2 /\ value = Sent(r, j)
BuffersHoldLater ==
    Writes => \A r \in Ranks : pc[r] # "end" =>
        \A i \in 0 .. write.at : i < write.at \/ r \notin write.todo =>
            LaterOnly(r, i, buffers[r][i % 2])

(* The buffers of rank 0 hold just what it still has to copy.               *)
BuffersOfMain ==
    Writes /\ pc[0] # "end" =>
        /\ 0 \notin write.todo \cup write.doing => buffers[0][write.at % 2] = Sent(0, write.at)
        /\ copied[0] < write.at =>
              copied[0] = write.at - 1 /\ buffers[0][copied[0] % 2] = Sent(0, copied[0])

(* What has been copied.                                                    *)
Loading(r) == full /\ pc[r] \in {"write", "barrier", "wait", "update"}
CopiedLater(r, i, value) ==
    value = Torn \/ \E j \in i .. (Total - 1), ready \in BOOLEAN :
        /\ j % 2 = i % 2 /\ value = Weights(layer, Position(r, j), ready)
        /\ ~ InPlace \/ i < posted[r] => ready
CopiesHoldLater ==
    \A r \in Ranks : Loading(r) =>
        \A i \in 0 .. (copied[r] - 1) : CopiedLater(r, i, gpu[r][Position(r, i)])
CopiesOfMain ==
    /\ Loading(0) =>
          /\ \A i \in 0 .. (copied[0] - 1) :
                \E ready \in BOOLEAN : /\ gpu[0][Position(0, i)] = Weights(layer, Position(0, i), ready)
                                       /\ ~ InPlace \/ i < posted[0] => ready
          /\ \A e \in Experts \ FromCpu(0) : gpu[0][e] = Right(e)
    /\ \A l \in Layers : \A s \in Slots : held[0][l][s] = Weights(l, Nth(placed[0][l], s), TRUE)

LoadInv ==
    /\ LoadTypeOK /\ RanksAgree /\ InStep /\ WritesInOrder
    /\ BuffersHoldLater /\ BuffersOfMain /\ CopiesHoldLater /\ CopiesOfMain

-----------------------------------------------------------------------------
(* Experts in order. *)

(* The numbers of ranks, layers and experts.                                *)
LEMMA Numbers ==
  /\ WorldSize \in Nat /\ WorldSize > 0 /\ 0 \in Ranks
  /\ NumLayers \in Nat /\ NumLayers > 0 /\ 0 \in Layers
  /\ NumExperts \in Nat /\ NumGpu \in Nat /\ NumGpu <= NumExperts
  /\ \A S \in Selections : S \subseteq Experts /\ Cardinality(S) = NumGpu
  BY LoadAssumption DEF Ranks, Layers, Experts

(* There are n indices below n.                                             *)
LEMMA IndicesCounted ==
  ASSUME NEW n \in Nat
  PROVE  IsFiniteSet(0 .. (n - 1)) /\ Cardinality(0 .. (n - 1)) = n
<1>1. n - 1 \in Int /\ (n - 1) - 0 + 1 = n /\ (0 > n - 1 => n = 0)
  OBVIOUS
<1>2. /\ IsFiniteSet(0 .. (n - 1))
      /\ Cardinality(0 .. (n - 1)) = IF 0 > n - 1 THEN 0 ELSE (n - 1) - 0 + 1
  BY <1>1, FS_Interval
<1> QED
  BY <1>1, <1>2

(* The number of smaller experts tells an expert of a set apart, and Nth    *)
(* gives it back.                                                           *)
LEMMA Ordered ==
  ASSUME NEW S \in SUBSET Experts
  PROVE  /\ IsFiniteSet(S) /\ Cardinality(S) \in Nat
         /\ \A e \in S : SlotOf(S, e) \in 0 .. (Cardinality(S) - 1) /\ Nth(S, SlotOf(S, e)) = e
         /\ \A i \in 0 .. (Cardinality(S) - 1) : Nth(S, i) \in S /\ SlotOf(S, Nth(S, i)) = i
<1> DEFINE Below(e) == {d \in S : d < e}
           n == Cardinality(S)
           f == [e \in S |-> Cardinality(Below(e))]
<1>0. \A e \in S : e \in Int
  BY Numbers DEF Experts
<1>1. IsFiniteSet(S) /\ n \in Nat
  <2>1. IsFiniteSet(Experts)
    BY Numbers, FS_Interval DEF Experts
  <2> QED
    BY <2>1, FS_Subset, FS_CardinalityType
<1>2. ASSUME NEW e \in S
      PROVE  IsFiniteSet(Below(e)) /\ Cardinality(Below(e)) \in 0 .. (n - 1)
  <2>1. Below(e) \in SUBSET S /\ Below(e) # S
    BY <1>0
  <2> HIDE DEF Below
  <2>2. IsFiniteSet(Below(e)) /\ Cardinality(Below(e)) <= n /\ Cardinality(Below(e)) # n
    BY <1>1, <2>1, FS_Subset
  <2>3. Cardinality(Below(e)) \in Nat
    BY <2>2, FS_CardinalityType
  <2> HIDE DEF n
  <2> QED
    BY <1>1, <2>2, <2>3
<1>3. ASSUME NEW e \in S, NEW d \in S, e < d, Cardinality(Below(e)) = Cardinality(Below(d))
      PROVE  FALSE
  <2>0. e \in Int /\ d \in Int /\ e < d
    BY <1>0, <1>3
  <2>1. Below(e) \in SUBSET Below(d) /\ e \in Below(d) /\ e \notin Below(e)
    <3>1. \A x \in Below(e) : x \in Below(d)
      BY <1>0, <2>0
    <3>2. e \in Below(d) /\ e \notin Below(e)
      BY <2>0
    <3> QED
      BY <3>1, <3>2
  <2> HIDE DEF Below
  <2>2. Below(e) = Below(d)
    BY <1>2, <1>3, <2>1, FS_Subset
  <2> QED
    BY <2>1, <2>2
<1>4. \A e, d \in S : Cardinality(Below(e)) = Cardinality(Below(d)) => e = d
  <2> SUFFICES ASSUME NEW e \in S, NEW d \in S, Cardinality(Below(e)) = Cardinality(Below(d)), e # d
               PROVE  FALSE
    OBVIOUS
  <2>1. e < d \/ d < e
    BY <1>0
  <2> QED
    BY <1>3, <2>1
<1>5. f \in Injection(S, 0 .. (n - 1))
  BY <1>2, <1>4 DEF Injection, IsInjective
<1>6. f \in Surjection(S, 0 .. (n - 1))
  <2>1. IsFiniteSet(0 .. (n - 1)) /\ Cardinality(0 .. (n - 1)) = n
    BY <1>1, IndicesCounted
  <2> QED
    BY <1>5, <2>1, FS_Injection
<1>7. \A i \in 0 .. (n - 1) : \E e \in S : Cardinality(Below(e)) = i
  BY <1>6 DEF Surjection
<1>8. \A i \in 0 .. (n - 1) : Nth(S, i) \in S /\ SlotOf(S, Nth(S, i)) = i
  BY <1>7 DEF Nth, SlotOf
<1>9. \A e \in S : SlotOf(S, e) \in 0 .. (n - 1) /\ Nth(S, SlotOf(S, e)) = e
  <2>1. \A e \in S : SlotOf(S, e) \in 0 .. (n - 1)
    BY <1>2 DEF SlotOf
  <2>2. \A e, d \in S : SlotOf(S, e) = SlotOf(S, d) => e = d
    BY <1>4 DEF SlotOf
  <2> QED
    BY <1>8, <2>1, <2>2
<1> QED
  BY <1>1, <1>8, <1>9

(* What comes from the CPU, position by position; the rest is in a slot.    *)
LEMMA FromCpuPositions ==
  ASSUME LoadTypeOK, NEW r \in Ranks
  PROVE  /\ FromCpu(r) \subseteq Experts /\ Count(r) = Total /\ Total \in Nat
         /\ \A i \in 0 .. (Total - 1) : Position(r, i) \in FromCpu(r)
         /\ \A i, j \in 0 .. (Total - 1) : Position(r, i) = Position(r, j) => i = j
         /\ \A e \in FromCpu(r) : \E i \in 0 .. (Total - 1) : Position(r, i) = e
         /\ \A e \in Experts \ FromCpu(r) :
               /\ SlotOf(placed[r][layer], e) \in Slots
               /\ Nth(placed[r][layer], SlotOf(placed[r][layer], e)) = e
<1>1. placed[r][layer] \subseteq Experts /\ Cardinality(placed[r][layer]) = NumGpu
  BY Numbers DEF LoadTypeOK
<1>2. FromCpu(r) \in SUBSET Experts /\ Count(r) = Total /\ Total \in Nat
  <2>1. IsFiniteSet(Experts) /\ Cardinality(Experts) = NumExperts
    BY Numbers, FS_Interval DEF Experts
  <2>2. placed[r][layer] \cap Experts = placed[r][layer]
    BY <1>1
  <2>3. /\ IsFiniteSet(Experts \ placed[r][layer])
        /\ Cardinality(Experts \ placed[r][layer]) = Cardinality(Experts) - Cardinality(Experts \cap placed[r][layer])
    BY <2>1, FS_Difference
  <2>4. Cardinality(Experts \ placed[r][layer]) = NumExperts - NumGpu
    <3>1. Experts \cap placed[r][layer] = placed[r][layer]
      BY <1>1
    <3> QED
      BY <1>1, <2>1, <2>3, <3>1
  <2> QED
    BY <1>1, <2>1, <2>4, Numbers DEF FromCpu, Count, Total
<1>3. /\ \A e \in FromCpu(r) : SlotOf(FromCpu(r), e) \in 0 .. (Total - 1) /\ Nth(FromCpu(r), SlotOf(FromCpu(r), e)) = e
      /\ \A i \in 0 .. (Total - 1) : Nth(FromCpu(r), i) \in FromCpu(r) /\ SlotOf(FromCpu(r), Nth(FromCpu(r), i)) = i
  BY <1>2, Ordered DEF Count
<1>4. \A e \in Experts \ FromCpu(r) : e \in placed[r][layer]
  BY DEF FromCpu
<1>5. \A e \in placed[r][layer] :
         /\ SlotOf(placed[r][layer], e) \in Slots
         /\ Nth(placed[r][layer], SlotOf(placed[r][layer], e)) = e
  BY <1>1, Ordered DEF Slots
<1> QED
  BY <1>2, <1>3, <1>4, <1>5 DEF Position

(* The order of the experts changes only with what is placed.               *)
LEMMA FrameOf ==
  ASSUME UNCHANGED <<format, layer>>, NEW r, UNCHANGED placed[r]
  PROVE  /\ FromCpu(r)' = FromCpu(r)
         /\ \A i : Position(r, i)' = Position(r, i) /\ Sent(r, i)' = Sent(r, i)
<1>1. InPlace' = InPlace /\ Shortcut' = Shortcut
  BY DEF InPlace, Shortcut
<1>2. FromCpu(r)' = FromCpu(r)
  BY <1>1 DEF FromCpu
<1> QED
  BY <1>1, <1>2 DEF Sent, Position

(* It changes not at all with most steps.                                   *)
LEMMA Frame ==
  ASSUME UNCHANGED <<format, layer, placed>>
  PROVE  /\ Total' = Total /\ InPlace' = InPlace
         /\ \A r : FromCpu(r)' = FromCpu(r)
         /\ \A r, i : Position(r, i)' = Position(r, i) /\ Sent(r, i)' = Sent(r, i)
         /\ \A e : Right(e)' = Right(e)
<1>1. Total' = Total /\ InPlace' = InPlace /\ Shortcut' = Shortcut
  BY DEF Total, InPlace, Shortcut
<1>2. \A r : FromCpu(r)' = FromCpu(r)
  BY <1>1 DEF FromCpu
<1>3. \A r, i : Position(r, i)' = Position(r, i)
  BY <1>2 DEF Position
<1> QED
  BY <1>1, <1>2, <1>3 DEF Sent, Right

(* Until it has what was selected, a rank has the positions of rank 0.      *)
LEMMA SamePositions ==
  ASSUME RanksAgree, LoadTypeOK, NEW r \in Ranks, pc[r] # "end", pc[0] # "end"
  PROVE  /\ \A i : Position(r, i) = Position(0, i) /\ Sent(r, i) = Sent(0, i)
<1>1. placed[r][layer] = placed[0][layer]
  BY Numbers DEF RanksAgree, LoadTypeOK
<1> QED
  BY <1>1 DEF Position, Sent, FromCpu

-----------------------------------------------------------------------------
(* Loading. *)

(* A rank starts to load a layer.                                           *)
LEMMA StartLoadKeeps ==
  ASSUME LoadInv, NEW r \in Ranks, StartLoad(r)
  PROVE  LoadInv'
<1>0. LoadTypeOK /\ Total \in Nat /\ Count(r) = Total
  BY FromCpuPositions DEF LoadInv
<1>1. /\ pc[r] = "start" /\ full
      /\ UNCHANGED <<format, layer, full, buffers, placed, held, chosen>>
      /\ idx' = [idx EXCEPT ![r] = 0] /\ copied' = [copied EXCEPT ![r] = 0]
      /\ posted' = [posted EXCEPT ![r] = 0]
      /\ pc' = [pc EXCEPT ![r] = IF Total = 0 THEN "wait" ELSE IF r = 0 THEN "write" ELSE "barrier"]
      /\ gpu' = [gpu EXCEPT ![r] = [e \in Experts |->
                    IF e \in FromCpu(r) THEN gpu[r][e]
                    ELSE held[r][layer][SlotOf(placed[r][layer], e)]]]
      /\ IF r = 0 /\ Total > 0 THEN write' = [at |-> 0, todo |-> Ranks, doing |-> {}]
         ELSE UNCHANGED write
  BY <1>0 DEF StartLoad, tables, Submit, Goto, LoopFor
<1>2. LoadTypeOK'
  <2>1. \A e \in Experts : gpu'[r][e] \in Values
    <3>1. \A e \in Experts \ FromCpu(r) : SlotOf(placed[r][layer], e) \in Slots
      BY <1>0, FromCpuPositions
    <3> QED
      BY <1>1, <3>1 DEF LoadInv, LoadTypeOK
  <2>2. gpu' \in [Ranks -> [Experts -> Values]]
    BY <1>1, <2>1 DEF LoadInv, LoadTypeOK
  <2>3. pc' \in [Ranks -> Places]
    BY <1>1 DEF LoadInv, LoadTypeOK, Places
  <2>4. write' \in [at : Nat, todo : SUBSET Ranks, doing : SUBSET Ranks]
    BY <1>1 DEF LoadInv, LoadTypeOK
  <2> QED
    BY <1>1, <2>2, <2>3, <2>4 DEF LoadInv, LoadTypeOK
<1>3. RanksAgree'
  BY <1>1, <1>0, Numbers DEF LoadInv, LoadTypeOK, RanksAgree
<1>4. InStep'
  <2>1. \A q \in Ranks : Entered(q)' >= Entered(q)
    BY <1>1, <1>0 DEF Entered, LoadTypeOK
  <2>2. \A q \in Ranks : Entered(q) \in Nat /\ Entered(q)' \in Nat
    BY <1>0, <1>2 DEF Entered, LoadTypeOK
  <2>3. Total' = Total /\ InPlace' = InPlace
    BY <1>1, Frame
  <2>4. \A q \in Ranks : pc'[q] # "start" => \A p \in Ranks : Entered(p)' >= idx'[q]
    <3> SUFFICES ASSUME NEW q \in Ranks, NEW p \in Ranks, pc'[q] # "start"
                 PROVE  Entered(p)' >= idx'[q]
      OBVIOUS
    <3>1. CASE q = r
      BY <1>0, <1>1, <2>2, <3>1 DEF LoadTypeOK
    <3>2. CASE q # r
      <4>1. Entered(p) >= idx[q] /\ idx'[q] = idx[q] /\ idx[q] \in Nat
        BY <1>0, <1>1, <3>2 DEF LoadInv, InStep, LoadTypeOK
      <4> QED
        BY <2>1, <2>2, <4>1
    <3> QED
      BY <3>1, <3>2
  <2>5. \A q \in Ranks :
          /\ pc'[q] = "write" => q = 0
          /\ posted'[q] <= copied'[q] /\ copied'[q] <= idx'[q] /\ idx'[q] <= Total
          /\ pc'[q] \in {"write", "barrier"} => idx'[q] < Total
          /\ pc'[q] \in {"wait", "update"} \/ (full /\ pc'[q] = "end") => idx'[q] = Total
          /\ pc'[q] \in {"start", "update", "end"} =>
                copied'[q] = idx'[q] /\ (InPlace => posted'[q] = idx'[q])
    BY <1>0, <1>1 DEF LoadInv, InStep, LoadTypeOK
  <2> QED
    BY <1>1, <2>3, <2>4, <2>5 DEF InStep
<1>5. WritesInOrder'
  <2>1. Total' = Total
    BY <1>1, Frame
  <2>2. CASE r = 0
    <3>1. ~ Writes /\ Written
      BY <1>1, <2>2 DEF Writes, LoadInv, WritesInOrder
    <3> QED
      BY <1>0, <1>1, <2>1, <2>2, <3>1 DEF WritesInOrder, Writes, Written, LoadTypeOK
  <2>3. CASE r # 0
    BY <1>0, <1>1, <2>1, <2>3, Numbers DEF LoadInv, WritesInOrder, Writes, Written, LoadTypeOK
  <2> QED
    BY <2>2, <2>3
<1>6. BuffersHoldLater'
  <2>1. CASE r = 0
    <3>1. Writes' => write'.at = 0 /\ write'.todo = Ranks
      BY <1>0, <1>1, <2>1, Frame DEF Writes
    <3>2. \A i \in 0 .. 0 : ~ (i < 0)
      OBVIOUS
    <3> QED
      BY <3>1, <3>2 DEF BuffersHoldLater
  <2>2. CASE r # 0
    <3>1. Writes' = Writes /\ UNCHANGED <<write, buffers>> /\ \A q \in Ranks : pc'[q] # "end" => pc[q] # "end"
      BY <1>0, <1>1, <2>2, Numbers, Frame DEF Writes, LoadTypeOK
    <3> QED
      BY <1>1, <3>1, Frame DEF LoadInv, BuffersHoldLater, LaterOnly
  <2> QED
    BY <2>1, <2>2
<1>7. BuffersOfMain'
  <2>1. CASE r = 0
    BY <1>0, <1>1, <2>1, Frame DEF BuffersOfMain, Writes, LoadTypeOK
  <2>2. CASE r # 0
    <3>1. /\ Writes' = Writes /\ UNCHANGED <<write, buffers>> /\ pc'[0] = pc[0] /\ copied'[0] = copied[0]
      BY <1>0, <1>1, <2>2, Numbers, Frame DEF Writes, LoadTypeOK
    <3> QED
      BY <1>1, <3>1, Frame DEF LoadInv, BuffersOfMain
  <2> QED
    BY <2>1, <2>2
<1>8. CopiesHoldLater'
  <2> SUFFICES ASSUME NEW q \in Ranks, Loading(q)', NEW i \in 0 .. (copied'[q] - 1)
               PROVE  CopiedLater(q, i, gpu[q][Position(q, i)])'
    BY <1>0 DEF CopiesHoldLater
  <2>1. q # r
    BY <1>0, <1>1 DEF LoadTypeOK
  <2>2. Loading(q) /\ copied'[q] = copied[q] /\ posted'[q] = posted[q] /\ gpu'[q] = gpu[q]
    BY <1>0, <1>1, <2>1 DEF Loading, LoadTypeOK
  <2>3. CopiedLater(q, i, gpu[q][Position(q, i)])
    BY <2>2 DEF LoadInv, CopiesHoldLater
  <2>4. Position(q, i)' = Position(q, i) /\ \A j : Position(q, j)' = Position(q, j)
    BY <1>1, Frame
  <2>5. layer' = layer /\ InPlace' = InPlace /\ Total' = Total
    BY <1>1, Frame
  <2> QED
    BY <2>2, <2>3, <2>4, <2>5 DEF CopiedLater, Weights
<1>9. CopiesOfMain'
  <2>1. \A l \in Layers : \A s \in Slots : held'[0][l][s] = Weights(l, Nth(placed'[0][l], s), TRUE)
    BY <1>1 DEF LoadInv, CopiesOfMain
  <2>2. CASE r = 0
    <3>1. \A i \in 0 .. (copied'[0] - 1) : FALSE
      BY <1>0, <1>1, <2>2 DEF LoadTypeOK
    <3>2. ASSUME NEW e \in Experts \ FromCpu(0)
          PROVE  gpu'[0][e] = Right(e)
      <4>1. gpu'[0][e] = held[0][layer][SlotOf(placed[0][layer], e)]
        BY <1>0, <1>1, <2>2 DEF LoadTypeOK
      <4>2. SlotOf(placed[0][layer], e) \in Slots /\ Nth(placed[0][layer], SlotOf(placed[0][layer], e)) = e
        BY <1>0, <2>2, FromCpuPositions
      <4> QED
        BY <1>0, <4>1, <4>2 DEF LoadInv, CopiesOfMain, Right, LoadTypeOK
    <3> QED
      BY <1>1, <2>1, <3>1, <3>2, Frame DEF CopiesOfMain
  <2>3. CASE r # 0
    <3>1. /\ Loading(0)' = Loading(0) /\ copied'[0] = copied[0] /\ posted'[0] = posted[0]
          /\ gpu'[0] = gpu[0]
      BY <1>0, <1>1, <2>3, Numbers DEF Loading, LoadTypeOK
    <3>2. /\ \A i : Position(0, i)' = Position(0, i)
          /\ FromCpu(0)' = FromCpu(0) /\ layer' = layer /\ InPlace' = InPlace
      BY <1>1, Frame
    <3> QED
      BY <2>1, <3>1, <3>2 DEF LoadInv, CopiesOfMain, Right
  <2> QED
    BY <2>2, <2>3
<1> QED
  BY <1>2, <1>3, <1>4, <1>5, <1>6, <1>7, <1>8, <1>9 DEF LoadInv

(* What was copied stays as it was while nothing is copied or placed.       *)
LEMMA CopiesStay ==
  ASSUME LoadInv, UNCHANGED <<format, layer, placed, held, gpu, copied, posted>>,
         \A r \in Ranks : Loading(r)' => Loading(r)
  PROVE  CopiesHoldLater' /\ CopiesOfMain'
<1>1. CopiesHoldLater'
  <2> SUFFICES ASSUME NEW q \in Ranks, Loading(q)', NEW i \in 0 .. (copied'[q] - 1)
               PROVE  CopiedLater(q, i, gpu[q][Position(q, i)])'
    BY DEF CopiesHoldLater
  <2>1. CopiedLater(q, i, gpu[q][Position(q, i)])
    BY DEF LoadInv, CopiesHoldLater
  <2>2. Position(q, i)' = Position(q, i) /\ \A j : Position(q, j)' = Position(q, j)
    BY Frame
  <2>3. layer' = layer /\ InPlace' = InPlace /\ Total' = Total
    BY Frame
  <2> QED
    BY <2>1, <2>2, <2>3 DEF CopiedLater, Weights
<1>2. CopiesOfMain'
  <2>1. /\ \A i : Position(0, i)' = Position(0, i)
        /\ FromCpu(0)' = FromCpu(0) /\ layer' = layer /\ InPlace' = InPlace
    BY Frame
  <2> QED
    BY <2>1, Numbers DEF LoadInv, CopiesOfMain, Right
<1> QED
  BY <1>1, <1>2

(* So do the buffers while nothing is written.                              *)
LEMMA BuffersStay ==
  ASSUME LoadInv, UNCHANGED <<format, layer, placed, write, buffers>>, Writes' => Writes,
         copied'[0] = copied[0], \A r \in Ranks : pc[r] = "end" => pc'[r] = "end"
  PROVE  BuffersHoldLater' /\ BuffersOfMain'
<1>1. BuffersHoldLater'
  BY Frame DEF LoadInv, BuffersHoldLater, LaterOnly
<1>2. BuffersOfMain'
  BY Frame, Numbers DEF LoadInv, BuffersOfMain
<1> QED
  BY <1>1, <1>2

(* Rank 0 has the next position written, in the buffers it copied from      *)
(* before the last.                                                         *)
LEMMA WriteAheadKeeps ==
  ASSUME LoadInv, WriteAhead
  PROVE  LoadInv'
<1>0. LoadTypeOK /\ Total \in Nat /\ Count(0) = Total /\ 0 \in Ranks
  BY FromCpuPositions, Numbers DEF LoadInv
<1>1. /\ pc[0] = "write" /\ pc' = [pc EXCEPT ![0] = "barrier"] /\ Written
      /\ UNCHANGED <<format, layer, full, idx, copied, posted, buffers, gpu, placed, held, chosen>>
      /\ idx[0] \in Nat /\ copied[0] \in Nat
      /\ IF idx[0] + 1 < Total
         THEN /\ write' = [at |-> idx[0] + 1, todo |-> Ranks, doing |-> {}]
              /\ idx[0] > 0 => copied[0] >= idx[0]
         ELSE UNCHANGED write
  <2>1. idx[0] \in Nat /\ copied[0] \in Nat
    BY <1>0 DEF LoadTypeOK
  <2>2. /\ More => write' = [at |-> idx[0] + 1, todo |-> Ranks, doing |-> {}]
        /\ ~ More => UNCHANGED write
        /\ More => BufferFree
    BY DEF WriteAhead, Submit
  <2>3. More <=> idx[0] + 1 < Total
    BY <1>0 DEF More
  <2>4. /\ pc[0] = "write" /\ pc' = [pc EXCEPT ![0] = "barrier"] /\ Written
        /\ UNCHANGED <<format, layer, full, idx, copied, posted, buffers, gpu, placed, held, chosen>>
    BY DEF WriteAhead, streams, tables, Goto
  <2> QED
    BY <2>1, <2>2, <2>3, <2>4 DEF BufferFree
<1>2. full /\ idx[0] < Total /\ Writes /\ write.at = idx[0]
  <2>1. full
    BY <1>0, <1>1 DEF LoadInv, RanksAgree, LoadTypeOK
  <2>2. idx[0] < Total
    BY <1>0, <1>1 DEF LoadInv, InStep
  <2>3. Writes
    BY <1>0, <1>1, <2>1, <2>2 DEF Writes
  <2> QED
    BY <1>1, <2>1, <2>2, <2>3 DEF LoadInv, WritesInOrder
<1>3. LoadTypeOK'
  BY <1>0, <1>1 DEF LoadTypeOK, Places
<1>4. RanksAgree'
  BY <1>0, <1>1 DEF LoadInv, LoadTypeOK, RanksAgree
<1>5. Total' = Total /\ InPlace' = InPlace /\ Writes'
  BY <1>0, <1>1, <1>2, Frame DEF Writes, LoadTypeOK
<1>6. InStep'
  <2>1. \A q \in Ranks : Entered(q)' >= Entered(q) /\ Entered(q) \in Nat /\ Entered(q)' \in Nat
    BY <1>0, <1>1 DEF Entered, LoadTypeOK
  <2>2. \A q, p \in Ranks : pc'[q] # "start" => Entered(p)' >= idx'[q]
    <3> SUFFICES ASSUME NEW q \in Ranks, NEW p \in Ranks, pc'[q] # "start"
                 PROVE  Entered(p)' >= idx'[q]
      OBVIOUS
    <3>1. Entered(p) >= idx[q] /\ idx'[q] = idx[q] /\ idx[q] \in Nat
      BY <1>0, <1>1, <1>2 DEF LoadInv, InStep, LoadTypeOK
    <3> QED
      BY <2>1, <3>1
  <2>3. \A q \in Ranks :
          /\ pc'[q] = "write" => q = 0
          /\ posted'[q] <= copied'[q] /\ copied'[q] <= idx'[q] /\ idx'[q] <= Total
          /\ pc'[q] \in {"write", "barrier"} => idx'[q] < Total
          /\ pc'[q] \in {"wait", "update"} \/ (full /\ pc'[q] = "end") => idx'[q] = Total
          /\ pc'[q] \in {"start", "update", "end"} =>
                copied'[q] = idx'[q] /\ (InPlace => posted'[q] = idx'[q])
    BY <1>0, <1>1, <1>2 DEF LoadInv, InStep, LoadTypeOK
  <2> QED
    BY <1>1, <1>5, <2>2, <2>3 DEF InStep
<1>7. WritesInOrder'
  BY <1>0, <1>1, <1>2, <1>5 DEF WritesInOrder, Written, LoadTypeOK
<1>8. BuffersHoldLater'
  <2> SUFFICES ASSUME NEW r \in Ranks, pc'[r] # "end", NEW i \in 0 .. write'.at,
                      i < write'.at \/ r \notin write'.todo
               PROVE  LaterOnly(r, i, buffers[r][i % 2])'
    BY DEF BuffersHoldLater
  <2>1. pc[r] # "end" /\ i \in 0 .. write.at /\ r \notin write.todo
    BY <1>0, <1>1, <1>2 DEF Written, LoadTypeOK
  <2>2. LaterOnly(r, i, buffers[r][i % 2])
    BY <1>2, <2>1 DEF LoadInv, BuffersHoldLater
  <2>3. \A j : Sent(r, j)' = Sent(r, j)
    BY <1>1, Frame
  <2> QED
    BY <1>1, <1>5, <2>2, <2>3 DEF LaterOnly
<1>9. BuffersOfMain'
  <2>1. /\ buffers[0][write.at % 2] = Sent(0, write.at)
        /\ copied[0] < write.at =>
              copied[0] = write.at - 1 /\ buffers[0][copied[0] % 2] = Sent(0, copied[0])
    BY <1>1, <1>2 DEF LoadInv, BuffersOfMain, Written
  <2>2. copied[0] <= idx[0]
    BY <1>0 DEF LoadInv, InStep
  <2>3. \A i : Sent(0, i)' = Sent(0, i)
    BY <1>1, Frame
  <2>4. CASE idx[0] + 1 < Total
    <3>1. write'.at = idx[0] + 1 /\ 0 \in write'.todo /\ copied'[0] = idx[0] /\ copied[0] = write.at
      BY <1>0, <1>1, <1>2, <2>2, <2>4
    <3> QED
      BY <1>1, <2>1, <2>3, <3>1 DEF BuffersOfMain
  <2>5. CASE ~ (idx[0] + 1 < Total)
    BY <1>1, <2>1, <2>3, <2>5 DEF BuffersOfMain
  <2> QED
    BY <2>4, <2>5
<1>10. CopiesHoldLater' /\ CopiesOfMain'
  <2>1. \A r \in Ranks : Loading(r)' => Loading(r)
    BY <1>0, <1>1, <1>2 DEF Loading, LoadTypeOK
  <2> QED
    BY <1>1, <2>1, CopiesStay
<1> QED
  BY <1>3, <1>4, <1>6, <1>7, <1>8, <1>9, <1>10 DEF LoadInv

(* A rank passes the barrier and launches its copy.                         *)
LEMMA LaunchCopyKeeps ==
  ASSUME LoadInv, NEW r \in Ranks, LaunchCopy(r)
  PROVE  LoadInv'
<1>0. LoadTypeOK /\ Total \in Nat /\ Count(r) = Total /\ 0 \in Ranks
  BY FromCpuPositions, Numbers DEF LoadInv
<1>1. /\ pc[r] = "barrier" /\ \A q \in Ranks : Entered(q) > idx[r]
      /\ UNCHANGED <<format, layer, full, copied, posted, write, buffers, gpu, placed, held, chosen>>
      /\ idx' = [idx EXCEPT ![r] = idx[r] + 1] /\ idx[r] \in Nat /\ idx'[r] = idx[r] + 1
      /\ pc' = [pc EXCEPT ![r] = IF idx[r] + 1 = Total THEN "wait" ELSE IF r = 0 THEN "write" ELSE "barrier"]
  BY <1>0 DEF LaunchCopy, AllEntered, streams, tables, Goto, LoopFor, LoadTypeOK
<1>2. full /\ idx[r] < Total
  BY <1>0, <1>1 DEF LoadInv, RanksAgree, InStep, LoadTypeOK
<1>3. LoadTypeOK'
  BY <1>0, <1>1 DEF LoadTypeOK, Places
<1>4. RanksAgree'
  BY <1>0, <1>1 DEF LoadInv, LoadTypeOK, RanksAgree
<1>5. Total' = Total /\ InPlace' = InPlace /\ Writes' = Writes
  BY <1>0, <1>1, <1>2, Frame DEF Writes, LoadTypeOK
<1>6. InStep'
  <2>1. \A q \in Ranks : Entered(q)' >= Entered(q) /\ Entered(q) \in Nat /\ Entered(q)' \in Nat
    BY <1>0, <1>1 DEF Entered, LoadTypeOK
  <2>2. \A q, p \in Ranks : pc'[q] # "start" => Entered(p)' >= idx'[q]
    <3> SUFFICES ASSUME NEW q \in Ranks, NEW p \in Ranks, pc'[q] # "start"
                 PROVE  Entered(p)' >= idx'[q]
      OBVIOUS
    <3>1. CASE q = r
      <4>1. Entered(p) > idx[r]
        BY <1>1
      <4> QED
        BY <1>1, <2>1, <3>1, <4>1
    <3>2. CASE q # r
      <4>1. Entered(p) >= idx[q] /\ idx'[q] = idx[q] /\ idx[q] \in Nat
        BY <1>0, <1>1, <1>2, <3>2 DEF LoadInv, InStep, LoadTypeOK
      <4> QED
        BY <2>1, <4>1
    <3> QED
      BY <3>1, <3>2
  <2>3. \A q \in Ranks :
          /\ pc'[q] = "write" => q = 0
          /\ posted'[q] <= copied'[q] /\ copied'[q] <= idx'[q] /\ idx'[q] <= Total
          /\ pc'[q] \in {"write", "barrier"} => idx'[q] < Total
          /\ pc'[q] \in {"wait", "update"} \/ (full /\ pc'[q] = "end") => idx'[q] = Total
          /\ pc'[q] \in {"start", "update", "end"} =>
                copied'[q] = idx'[q] /\ (InPlace => posted'[q] = idx'[q])
    BY <1>0, <1>1, <1>2 DEF LoadInv, InStep, LoadTypeOK
  <2> QED
    BY <1>1, <1>5, <2>2, <2>3 DEF InStep
<1>7. WritesInOrder'
  <2>1. CASE r = 0
    BY <1>0, <1>1, <1>2, <1>5, <2>1 DEF LoadInv, WritesInOrder, Written, Writes, LoadTypeOK
  <2>2. CASE r # 0
    BY <1>0, <1>1, <1>5, <2>2 DEF LoadInv, WritesInOrder, Written, LoadTypeOK
  <2> QED
    BY <2>1, <2>2
<1>8. BuffersHoldLater' /\ BuffersOfMain'
  <2>1. \A q \in Ranks : pc[q] = "end" => pc'[q] = "end"
    BY <1>0, <1>1 DEF LoadTypeOK
  <2> QED
    BY <1>1, <1>5, <2>1, BuffersStay
<1>9. CopiesHoldLater' /\ CopiesOfMain'
  <2>1. \A q \in Ranks : Loading(q)' => Loading(q)
    BY <1>0, <1>1, <1>2 DEF Loading, LoadTypeOK
  <2> QED
    BY <1>1, <2>1, CopiesStay
<1> QED
  BY <1>3, <1>4, <1>6, <1>7, <1>8, <1>9 DEF LoadInv

(* A write begins to overwrite the buffer of a rank.                        *)
LEMMA BeginWriteKeeps ==
  ASSUME LoadInv, NEW r \in Ranks, BeginWrite(r)
  PROVE  LoadInv'
<1>0. LoadTypeOK /\ Total \in Nat /\ 0 \in Ranks
  BY FromCpuPositions, Numbers DEF LoadInv
<1>1. /\ UNCHANGED <<format, layer, full, pc, idx, copied, posted, gpu, placed, held, chosen>>
      /\ r \in write.todo /\ write.at \in Nat /\ write'.at = write.at
      /\ write'.todo = write.todo \ {r} /\ write'.doing = write.doing \cup {r}
      /\ write' = [write EXCEPT !.todo = write.todo \ {r}, !.doing = write.doing \cup {r}]
      /\ buffers' = [buffers EXCEPT ![r][write.at % 2] = Torn]
  BY <1>0 DEF BeginWrite, streams, tables, LoadTypeOK
<1>2. write.at % 2 \in {0, 1} /\ Torn \in Values
  BY <1>1 DEF Values
<1>3. LoadTypeOK'
  <2>1. write' \in [at : Nat, todo : SUBSET Ranks, doing : SUBSET Ranks]
    BY <1>0, <1>1 DEF LoadTypeOK
  <2>2. buffers' \in [Ranks -> [{0, 1} -> Values]]
    BY <1>0, <1>1, <1>2 DEF LoadTypeOK
  <2> QED
    BY <1>0, <1>1, <2>1, <2>2 DEF LoadTypeOK
<1>4. Total' = Total /\ InPlace' = InPlace /\ Writes' = Writes /\ \A q, j : Sent(q, j)' = Sent(q, j)
  BY <1>1, Frame DEF Writes
<1>5. RanksAgree'
  BY <1>1 DEF LoadInv, RanksAgree
<1>6. InStep'
  BY <1>1, <1>4 DEF LoadInv, InStep, Entered
<1>7. ~ Written /\ Writes
  BY <1>1 DEF Written, LoadInv, WritesInOrder
<1>8. WritesInOrder'
  BY <1>1, <1>4, <1>7 DEF LoadInv, WritesInOrder
<1>9. BuffersHoldLater'
  <2> SUFFICES ASSUME NEW q \in Ranks, pc'[q] # "end", NEW i \in 0 .. write'.at,
                      i < write'.at \/ q \notin write'.todo
               PROVE  LaterOnly(q, i, buffers[q][i % 2])'
    BY DEF BuffersHoldLater
  <2>1. i \in Nat /\ i % 2 \in {0, 1}
    BY <1>1
  <2>2. CASE q = r /\ i % 2 = write.at % 2
    <3>1. buffers'[q][i % 2] = Torn
      BY <1>0, <1>1, <1>2, <2>1, <2>2 DEF LoadTypeOK
    <3> QED
      BY <3>1 DEF LaterOnly
  <2>3. CASE q # r \/ i % 2 # write.at % 2
    <3>1. buffers'[q][i % 2] = buffers[q][i % 2]
      BY <1>0, <1>1, <1>2, <2>1, <2>3 DEF LoadTypeOK
    <3>2. i \in 0 .. write.at /\ (i < write.at \/ q \notin write.todo)
      <4>1. i \in 0 .. write.at /\ (i = write.at => q # r)
        BY <1>1, <2>3
      <4> QED
        BY <1>1, <4>1
    <3>3. LaterOnly(q, i, buffers[q][i % 2])
      BY <1>1, <1>7, <3>2 DEF LoadInv, BuffersHoldLater
    <3> QED
      BY <1>4, <3>1, <3>3 DEF LaterOnly
  <2> QED
    BY <2>2, <2>3
<1>10. BuffersOfMain'
  <2>0. copied[0] \in Nat
    BY <1>0 DEF LoadTypeOK
  <2>1. ASSUME pc[0] # "end", copied[0] < write.at
        PROVE  copied[0] = write.at - 1 /\ buffers'[0][copied[0] % 2] = Sent(0, copied[0])
    <3>1. copied[0] = write.at - 1 /\ buffers[0][copied[0] % 2] = Sent(0, copied[0])
      BY <1>7, <2>1 DEF LoadInv, BuffersOfMain
    <3>2. copied[0] % 2 \in {0, 1} /\ copied[0] % 2 # write.at % 2
      BY <1>1, <2>0, <3>1
    <3>3. buffers'[0][copied[0] % 2] = buffers[0][copied[0] % 2]
      BY <1>0, <1>1, <1>2, <3>2 DEF LoadTypeOK
    <3> QED
      BY <3>1, <3>3
  <2>2. ASSUME pc[0] # "end", 0 \notin write'.todo \cup write'.doing
        PROVE  buffers'[0][write.at % 2] = Sent(0, write.at)
    <3>1. r # 0 /\ 0 \notin write.todo \cup write.doing
      BY <1>1, <2>2
    <3>2. buffers'[0] = buffers[0]
      BY <1>0, <1>1, <3>1 DEF LoadTypeOK
    <3> QED
      BY <1>7, <2>2, <3>1, <3>2 DEF LoadInv, BuffersOfMain
  <2> QED
    BY <1>1, <1>4, <2>1, <2>2 DEF BuffersOfMain
<1>11. CopiesHoldLater' /\ CopiesOfMain'
  <2>1. \A q \in Ranks : Loading(q)' => Loading(q)
    BY <1>1 DEF Loading
  <2> QED
    BY <1>1, <2>1, CopiesStay
<1> QED
  BY <1>3, <1>5, <1>6, <1>8, <1>9, <1>10, <1>11 DEF LoadInv

(* A write ends: the buffer of a rank holds the expert of its position.     *)
LEMMA EndWriteKeeps ==
  ASSUME LoadInv, NEW r \in Ranks, EndWrite(r)
  PROVE  LoadInv'
<1>0. LoadTypeOK /\ Total \in Nat /\ 0 \in Ranks
  BY FromCpuPositions, Numbers DEF LoadInv
<1>1. /\ UNCHANGED <<format, layer, full, pc, idx, copied, posted, gpu, placed, held, chosen>>
      /\ r \in write.doing /\ write.at \in Nat /\ write'.at = write.at
      /\ write'.todo = write.todo /\ write'.doing = write.doing \ {r}
      /\ write' = [write EXCEPT !.doing = write.doing \ {r}]
      /\ buffers' = [buffers EXCEPT ![r][write.at % 2] = Sent(0, write.at)]
  BY <1>0 DEF EndWrite, streams, tables, LoadTypeOK, Sent
<1>2. write.at % 2 \in {0, 1}
  BY <1>1
<1>3. ~ Written /\ Writes /\ pc[0] # "end" /\ write.at \in 0 .. (Total - 1)
  BY <1>0, <1>1 DEF Written, LoadInv, WritesInOrder
<1>4. Total' = Total /\ InPlace' = InPlace /\ Writes' = Writes /\ \A q, j : Sent(q, j)' = Sent(q, j)
  BY <1>1, Frame DEF Writes
<1>5. LoadTypeOK'
  <2>1. Sent(0, write.at) \in Values
    BY <1>0, <1>3, FromCpuPositions DEF Sent, Weights, Values, LoadTypeOK
  <2>2. write' \in [at : Nat, todo : SUBSET Ranks, doing : SUBSET Ranks]
    BY <1>0, <1>1 DEF LoadTypeOK
  <2>3. buffers' \in [Ranks -> [{0, 1} -> Values]]
    BY <1>0, <1>1, <1>2, <2>1 DEF LoadTypeOK
  <2> QED
    BY <1>0, <1>1, <2>2, <2>3 DEF LoadTypeOK
<1>6. RanksAgree'
  BY <1>1 DEF LoadInv, RanksAgree
<1>7. InStep'
  BY <1>1, <1>4 DEF LoadInv, InStep, Entered
<1>8. WritesInOrder'
  BY <1>1, <1>3, <1>4 DEF LoadInv, WritesInOrder, Written
<1>9. BuffersHoldLater'
  <2> SUFFICES ASSUME NEW q \in Ranks, pc'[q] # "end", NEW i \in 0 .. write'.at,
                      i < write'.at \/ q \notin write'.todo
               PROVE  LaterOnly(q, i, buffers[q][i % 2])'
    BY DEF BuffersHoldLater
  <2>1. i \in Nat /\ i % 2 \in {0, 1} /\ i <= write.at
    BY <1>1
  <2>2. CASE q = r /\ i % 2 = write.at % 2
    <3>1. buffers'[q][i % 2] = Sent(0, write.at)
      BY <1>0, <1>1, <1>2, <2>1, <2>2 DEF LoadTypeOK
    <3>2. Sent(q, write.at) = Sent(0, write.at)
      BY <1>0, <1>1, <1>3, SamePositions DEF LoadInv
    <3>3. write.at \in i .. (Total - 1)
      BY <1>0, <1>1, <1>3, <2>1
    <3> QED
      BY <1>4, <2>2, <3>1, <3>2, <3>3 DEF LaterOnly
  <2>3. CASE q # r \/ i % 2 # write.at % 2
    <3>1. buffers'[q][i % 2] = buffers[q][i % 2]
      BY <1>0, <1>1, <1>2, <2>1, <2>3 DEF LoadTypeOK
    <3>2. LaterOnly(q, i, buffers[q][i % 2])
      BY <1>1, <1>3 DEF LoadInv, BuffersHoldLater
    <3> QED
      BY <1>4, <3>1, <3>2 DEF LaterOnly
  <2> QED
    BY <2>2, <2>3
<1>10. BuffersOfMain'
  <2>0. copied[0] \in Nat
    BY <1>0 DEF LoadTypeOK
  <2>1. ASSUME copied[0] < write.at
        PROVE  copied[0] = write.at - 1 /\ buffers'[0][copied[0] % 2] = Sent(0, copied[0])
    <3>1. copied[0] = write.at - 1 /\ buffers[0][copied[0] % 2] = Sent(0, copied[0])
      BY <1>3, <2>1 DEF LoadInv, BuffersOfMain
    <3>2. copied[0] % 2 \in {0, 1} /\ copied[0] % 2 # write.at % 2
      BY <1>1, <2>0, <3>1
    <3>3. buffers'[0][copied[0] % 2] = buffers[0][copied[0] % 2]
      BY <1>0, <1>1, <1>2, <2>0, <3>2 DEF LoadTypeOK
    <3> QED
      BY <3>1, <3>3
  <2>2. ASSUME 0 \notin write'.todo \cup write'.doing
        PROVE  buffers'[0][write.at % 2] = Sent(0, write.at)
    <3>1. CASE r = 0
      BY <1>0, <1>1, <1>2, <3>1 DEF LoadTypeOK
    <3>2. CASE r # 0
      <4>1. buffers'[0] = buffers[0] /\ 0 \notin write.todo \cup write.doing
        BY <1>0, <1>1, <2>2, <3>2 DEF LoadTypeOK
      <4> QED
        BY <1>3, <4>1 DEF LoadInv, BuffersOfMain
    <3> QED
      BY <3>1, <3>2
  <2> QED
    BY <1>1, <1>4, <2>1, <2>2 DEF BuffersOfMain
<1>11. CopiesHoldLater' /\ CopiesOfMain'
  <2>1. \A q \in Ranks : Loading(q)' => Loading(q)
    BY <1>1 DEF Loading
  <2> QED
    BY <1>1, <2>1, CopiesStay
<1> QED
  BY <1>5, <1>6, <1>7, <1>8, <1>9, <1>10, <1>11 DEF LoadInv

(* The copy stream of a rank takes what its buffer holds: on rank 0 the     *)
(* expert it waits for, elsewhere that one or a later one.                  *)
LEMMA CopyKeeps ==
  ASSUME LoadInv, NEW r \in Ranks, Copy(r)
  PROVE  LoadInv'
<1> DEFINE k == copied[r]
           e == Position(r, k)
           v == buffers[r][k % 2]
<1>0. LoadTypeOK /\ Total \in Nat /\ 0 \in Ranks
  BY FromCpuPositions, Numbers DEF LoadInv
<1>1. /\ UNCHANGED <<format, layer, full, pc, idx, posted, write, buffers, placed, held, chosen>>
      /\ k < idx[r]
      /\ gpu' = [gpu EXCEPT ![r][e] = v] /\ copied' = [copied EXCEPT ![r] = k + 1]
  BY DEF Copy, tables
<1>2. k \in Nat /\ idx[r] \in Nat /\ idx[r] <= Total /\ pc[r] \in {"write", "barrier", "wait"} /\ full
  <2>1. k \in Nat /\ idx[r] \in Nat /\ pc[r] \in Places
    BY <1>0 DEF LoadTypeOK
  <2>2. idx[r] <= Total /\ (pc[r] \in {"start", "update", "end"} => k = idx[r])
    BY DEF LoadInv, InStep
  <2>3. pc[r] \in {"write", "barrier", "wait"}
    BY <1>1, <2>1, <2>2 DEF Places
  <2> QED
    BY <2>1, <2>2, <2>3 DEF LoadInv, RanksAgree
<1>3. Writes /\ write.at \in Nat /\ k <= write.at /\ (k = write.at => Written)
  <2>1. Entered(0) >= idx[r] /\ Entered(0) \in Nat
    <3>1. Entered(0) >= idx[r]
      BY <1>0, <1>2 DEF LoadInv, InStep
    <3>2. Entered(0) \in Nat
      BY <1>0 DEF LoadTypeOK, Entered
    <3> QED
      BY <3>1, <3>2
  <2>2. pc[0] # "start" /\ Total > 0
    BY <1>1, <1>2, <1>0, <2>1 DEF Entered
  <2>3. Writes
    BY <1>2, <2>2 DEF Writes
  <2>4. write.at \in Nat /\ idx[0] \in Nat /\ pc[0] \in Places
    BY <1>0 DEF LoadTypeOK
  <2>5. CASE pc[0] = "write"
    <3>1. write.at = idx[0] /\ idx[0] >= idx[r]
      BY <2>1, <2>3, <2>5 DEF LoadInv, WritesInOrder, Entered
    <3> QED
      BY <1>1, <1>2, <2>3, <2>4, <3>1
  <2>6. CASE pc[0] = "barrier"
    <3>1. /\ idx[0] + 1 >= idx[r]
          /\ write.at = idx[0] + 1 \/ (write.at = idx[0] /\ Written)
      BY <2>1, <2>3, <2>6 DEF LoadInv, WritesInOrder, Entered
    <3> QED
      BY <1>1, <1>2, <2>3, <2>4, <3>1
  <2>7. CASE pc[0] \in {"wait", "update", "end"}
    <3>1. write.at = Total - 1 /\ Written
      BY <2>3, <2>7 DEF LoadInv, WritesInOrder
    <3> QED
      BY <1>0, <1>1, <1>2, <2>3, <2>4, <3>1
  <2> QED
    BY <2>2, <2>4, <2>5, <2>6, <2>7 DEF Places
<1>4. k \in 0 .. (Total - 1) /\ k \in 0 .. write.at
  BY <1>0, <1>1, <1>2, <1>3
<1>5. e \in FromCpu(r) /\ e \in Experts /\ \A i \in 0 .. (Total - 1) : Position(r, i) = e => i = k
  BY <1>0, <1>4, FromCpuPositions
<1>6. LaterOnly(r, k, v)
  <2>1. k < write.at \/ r \notin write.todo
    BY <1>2, <1>3 DEF Written
  <2> QED
    BY <1>2, <1>3, <1>4, <2>1 DEF LoadInv, BuffersHoldLater
<1>7. Total' = Total /\ InPlace' = InPlace /\ Writes' = Writes /\ FromCpu(0)' = FromCpu(0)
      /\ \A q, j : Sent(q, j)' = Sent(q, j) /\ Position(q, j)' = Position(q, j)
  BY <1>1, Frame DEF Writes
<1> HIDE DEF k, e, v
<1>8. /\ copied'[r] = k + 1 /\ \A q \in Ranks \ {r} : copied'[q] = copied[q] /\ gpu'[q] = gpu[q]
      /\ gpu'[r][e] = v /\ \A d \in Experts \ {e} : gpu'[r][d] = gpu[r][d]
  BY <1>0, <1>1, <1>5 DEF LoadTypeOK
<1>9. LoadTypeOK'
  <2>1. v \in Values
    <3>1. k % 2 \in {0, 1}
      BY <1>2
    <3> QED
      BY <1>0, <3>1 DEF LoadTypeOK, v
  <2>2. gpu' \in [Ranks -> [Experts -> Values]]
    BY <1>0, <1>1, <1>5, <2>1 DEF LoadTypeOK
  <2>3. copied' \in [Ranks -> Nat]
    BY <1>0, <1>1, <1>2 DEF LoadTypeOK
  <2> QED
    BY <1>0, <1>1, <2>2, <2>3 DEF LoadTypeOK
<1>10. RanksAgree'
  BY <1>1 DEF LoadInv, RanksAgree
<1>11. InStep'
  <2>1. \A q \in Ranks : Entered(q)' = Entered(q)
    BY <1>1 DEF Entered
  <2>2. \A q \in Ranks :
          /\ pc'[q] = "write" => q = 0
          /\ posted'[q] <= copied'[q] /\ copied'[q] <= idx'[q] /\ idx'[q] <= Total
          /\ pc'[q] \in {"write", "barrier"} => idx'[q] < Total
          /\ pc'[q] \in {"wait", "update"} \/ (full /\ pc'[q] = "end") => idx'[q] = Total
          /\ pc'[q] \in {"start", "update", "end"} =>
                copied'[q] = idx'[q] /\ (InPlace => posted'[q] = idx'[q])
    <3> SUFFICES ASSUME NEW q \in Ranks
                 PROVE  /\ pc'[q] = "write" => q = 0
                        /\ posted'[q] <= copied'[q] /\ copied'[q] <= idx'[q] /\ idx'[q] <= Total
                        /\ pc'[q] \in {"write", "barrier"} => idx'[q] < Total
                        /\ pc'[q] \in {"wait", "update"} \/ (full /\ pc'[q] = "end") => idx'[q] = Total
                        /\ pc'[q] \in {"start", "update", "end"} =>
                              copied'[q] = idx'[q] /\ (InPlace => posted'[q] = idx'[q])
      OBVIOUS
    <3>1. CASE q = r
      <4>1. posted[r] \in Nat /\ posted[r] <= k
        BY <1>0 DEF LoadInv, InStep, LoadTypeOK, k
      <4> QED
        BY <1>1, <1>2, <1>8, <3>1, <4>1 DEF LoadInv, InStep
    <3>2. CASE q # r
      BY <1>1, <1>8, <3>2 DEF LoadInv, InStep
    <3> QED
      BY <3>1, <3>2
  <2> QED
    BY <1>1, <1>7, <2>1, <2>2 DEF LoadInv, InStep
<1>12. WritesInOrder'
  BY <1>1, <1>7 DEF LoadInv, WritesInOrder, Written
<1>13. BuffersHoldLater'
  BY <1>1, <1>7 DEF LoadInv, BuffersHoldLater, LaterOnly
<1>14. BuffersOfMain'
  <2>1. ASSUME pc[0] # "end", copied'[0] < write.at
        PROVE  copied'[0] = write.at - 1 /\ buffers[0][copied'[0] % 2] = Sent(0, copied'[0])
    <3>1. CASE r = 0
      <4>1. k < write.at => k = write.at - 1
        BY <1>3, <2>1, <3>1 DEF LoadInv, BuffersOfMain, k
      <4> QED
        BY <1>2, <1>3, <1>8, <2>1, <3>1, <4>1
    <3>2. CASE r # 0
      BY <1>0, <1>3, <1>8, <2>1, <3>2 DEF LoadInv, BuffersOfMain
    <3> QED
      BY <3>1, <3>2
  <2>2. ASSUME pc[0] # "end", 0 \notin write.todo \cup write.doing
        PROVE  buffers[0][write.at % 2] = Sent(0, write.at)
    BY <1>3, <2>2 DEF LoadInv, BuffersOfMain
  <2>3. \A j : Sent(0, j)' = Sent(0, j)
    BY <1>7
  <2> QED
    BY <1>1, <2>1, <2>2, <2>3 DEF BuffersOfMain
<1>15. CopiesHoldLater'
  <2> SUFFICES ASSUME NEW q \in Ranks, Loading(q)', NEW i \in 0 .. (copied'[q] - 1)
               PROVE  CopiedLater(q, i, gpu[q][Position(q, i)])'
    BY DEF CopiesHoldLater
  <2>0. Loading(q) /\ layer' = layer /\ posted' = posted
    BY <1>1 DEF Loading
  <2>1. CASE q = r /\ i = k
    <3>1. gpu'[q][Position(q, i)] = v
      BY <1>8, <2>1 DEF e
    <3>2. posted[q] \in Nat /\ ~ (i < posted[q])
      <4>1. posted[q] \in Nat /\ posted[q] <= copied[q] /\ copied[q] = k /\ k \in Nat
        BY <1>0, <1>2, <2>1 DEF LoadInv, InStep, LoadTypeOK, k
      <4> QED
        BY <2>1, <4>1
    <3>3. v = Torn \/ \E j \in i .. (Total - 1) : j % 2 = i % 2 /\ v = Weights(layer, Position(q, j), ~ InPlace)
      BY <1>6, <2>1 DEF LaterOnly, Sent
    <3>4. (~ InPlace) \in BOOLEAN
      OBVIOUS
    <3> QED
      BY <1>7, <2>0, <3>1, <3>2, <3>3, <3>4 DEF CopiedLater, Weights
  <2>2. CASE q # r \/ i # k
    <3>1. i \in 0 .. (copied[q] - 1)
      <4>1. CASE q = r
        BY <1>2, <1>8, <2>2, <4>1 DEF k
      <4>2. CASE q # r
        BY <1>8, <4>2
      <4> QED
        BY <4>1, <4>2
    <3>2. Position(q, i) \in Experts /\ (q = r => Position(q, i) # e)
      <4>1. copied[q] \in Nat /\ copied[q] <= Total /\ idx[q] \in Nat
        BY <1>0 DEF LoadInv, InStep, LoadTypeOK
      <4>2. i \in 0 .. (Total - 1)
        BY <1>0, <3>1, <4>1
      <4> QED
        BY <1>0, <1>5, <2>2, <4>2, FromCpuPositions
    <3>3. gpu'[q][Position(q, i)] = gpu[q][Position(q, i)]
      BY <1>8, <3>2
    <3>4. CopiedLater(q, i, gpu[q][Position(q, i)])
      BY <2>0, <3>1 DEF LoadInv, CopiesHoldLater
    <3> QED
      BY <1>7, <2>0, <3>3, <3>4 DEF CopiedLater, Weights
  <2> QED
    BY <2>1, <2>2
<1>16. CopiesOfMain'
  <2>1. \A l \in Layers : \A s \in Slots : held'[0][l][s] = Weights(l, Nth(placed'[0][l], s), TRUE)
    BY <1>1 DEF LoadInv, CopiesOfMain
  <2>2. CASE r = 0
    <3>1. v = Weights(layer, e, ~ InPlace)
      <4>1. CASE k < write.at
        BY <1>2, <1>3, <2>2, <4>1 DEF LoadInv, BuffersOfMain, Sent, k, e, v
      <4>2. CASE k = write.at
        BY <1>2, <1>3, <2>2, <4>2 DEF LoadInv, BuffersOfMain, Sent, Written, e, v
      <4> QED
        BY <1>2, <1>3, <4>1, <4>2
    <3>2. Loading(0)
      BY <1>2, <2>2 DEF Loading
    <3>3. ASSUME NEW i \in 0 .. (copied'[0] - 1)
          PROVE  \E ready \in BOOLEAN : /\ gpu'[0][Position(0, i)] = Weights(layer, Position(0, i), ready)
                                        /\ ~ InPlace \/ i < posted[0] => ready
      <4>1. CASE i = k
        <5>1. ~ (i < posted[0])
          BY <1>0, <1>2, <2>2, <4>1 DEF LoadInv, InStep, LoadTypeOK, k
        <5>2. gpu'[0][Position(0, i)] = Weights(layer, Position(0, i), ~ InPlace)
          BY <1>8, <2>2, <3>1, <4>1 DEF e
        <5>3. (~ InPlace) \in BOOLEAN
          OBVIOUS
        <5> QED
          BY <5>1, <5>2, <5>3
      <4>2. CASE i # k
        <5>1. i \in 0 .. (copied[0] - 1) /\ i \in 0 .. (Total - 1)
          <6>1. i \in 0 .. (k - 1)
            BY <1>2, <1>8, <2>2, <4>2
          <6>2. copied[0] = k
            BY <2>2 DEF k
          <6> QED
            BY <1>0, <1>2, <1>4, <6>1, <6>2
        <5>2. Position(0, i) \in Experts /\ Position(0, i) # e
          BY <1>0, <1>5, <2>2, <4>2, <5>1, FromCpuPositions
        <5>3. gpu'[0][Position(0, i)] = gpu[0][Position(0, i)]
          BY <1>8, <2>2, <5>2
        <5> QED
          BY <3>2, <5>1, <5>3 DEF LoadInv, CopiesOfMain
      <4> QED
        BY <4>1, <4>2
    <3>4. \A d \in Experts \ FromCpu(0) : gpu'[0][d] = Right(d)
      BY <1>5, <1>8, <2>2, <3>2 DEF LoadInv, CopiesOfMain
    <3> QED
      BY <1>1, <1>7, <2>1, <3>3, <3>4 DEF CopiesOfMain, Right
  <2>3. CASE r # 0
    <3>1. Loading(0)' = Loading(0) /\ copied'[0] = copied[0] /\ gpu'[0] = gpu[0]
      BY <1>0, <1>1, <1>8, <2>3 DEF Loading
    <3> QED
      BY <1>1, <1>7, <2>1, <3>1 DEF LoadInv, CopiesOfMain, Right
  <2> QED
    BY <2>2, <2>3
<1> QED
  BY <1>9, <1>10, <1>11, <1>12, <1>13, <1>14, <1>15, <1>16 DEF LoadInv

(* What was copied is postprocessed.                                        *)
LEMMA PostKeeps ==
  ASSUME LoadInv, NEW r \in Ranks, Post(r)
  PROVE  LoadInv'
<1> DEFINE k == posted[r]
           e == Position(r, k)
<1>0. LoadTypeOK /\ Total \in Nat /\ 0 \in Ranks
  BY FromCpuPositions, Numbers DEF LoadInv
<1>1. /\ UNCHANGED <<format, layer, full, pc, idx, copied, write, buffers, placed, held, chosen>>
      /\ InPlace /\ k < copied[r]
      /\ gpu' = [gpu EXCEPT ![r][e] = IF gpu[r][e] = Torn THEN Torn ELSE [gpu[r][e] EXCEPT !.ready = TRUE]]
      /\ posted' = [posted EXCEPT ![r] = k + 1]
  BY <1>0 DEF Post, tables, LoadTypeOK
<1>2. /\ k \in Nat /\ copied[r] \in Nat /\ copied[r] <= Total
      /\ pc[r] \in {"write", "barrier", "wait"} /\ Loading(r)
  <2>1. k \in Nat /\ copied[r] \in Nat /\ idx[r] \in Nat /\ pc[r] \in Places
    BY <1>0 DEF LoadTypeOK
  <2>2. /\ copied[r] <= idx[r] /\ idx[r] <= Total
        /\ pc[r] \in {"start", "update", "end"} => copied[r] = idx[r] /\ k = idx[r]
    BY <1>1 DEF LoadInv, InStep
  <2>3. pc[r] \in {"write", "barrier", "wait"}
    BY <1>1, <2>1, <2>2 DEF Places
  <2> QED
    BY <1>0, <2>1, <2>2, <2>3 DEF LoadInv, RanksAgree, Loading
<1>3. k \in 0 .. (Total - 1) /\ k \in 0 .. (copied[r] - 1)
  BY <1>0, <1>1, <1>2
<1>4. e \in FromCpu(r) /\ e \in Experts /\ \A i \in 0 .. (Total - 1) : Position(r, i) = e => i = k
  BY <1>0, <1>3, FromCpuPositions
<1>5. Total' = Total /\ InPlace' = InPlace /\ Writes' = Writes /\ FromCpu(0)' = FromCpu(0)
      /\ \A q, j : Sent(q, j)' = Sent(q, j) /\ Position(q, j)' = Position(q, j)
  BY <1>1, Frame DEF Writes
<1>6. gpu[r][e] \in Values
  BY <1>0, <1>4 DEF LoadTypeOK
<1> HIDE DEF k, e
<1>7. /\ posted'[r] = k + 1 /\ \A q \in Ranks \ {r} : posted'[q] = posted[q] /\ gpu'[q] = gpu[q]
      /\ gpu'[r][e] = IF gpu[r][e] = Torn THEN Torn ELSE [gpu[r][e] EXCEPT !.ready = TRUE]
      /\ \A d \in Experts \ {e} : gpu'[r][d] = gpu[r][d]
  BY <1>0, <1>1, <1>4 DEF LoadTypeOK
<1>8. /\ gpu'[r][e] \in Values
      /\ gpu[r][e] # Torn =>
            gpu'[r][e] = Weights(gpu[r][e].layer, gpu[r][e].expert, TRUE)
  BY <1>6, <1>7 DEF Values, Weights
<1>9. LoadTypeOK'
  <2>1. gpu' \in [Ranks -> [Experts -> Values]]
    BY <1>0, <1>1, <1>4, <1>7, <1>8 DEF LoadTypeOK
  <2>2. posted' \in [Ranks -> Nat]
    BY <1>0, <1>1, <1>2 DEF LoadTypeOK
  <2> QED
    BY <1>0, <1>1, <2>1, <2>2 DEF LoadTypeOK
<1>10. RanksAgree'
  BY <1>1 DEF LoadInv, RanksAgree
<1>11. InStep'
  <2>1. \A q \in Ranks : Entered(q)' = Entered(q)
    BY <1>1 DEF Entered
  <2>2. \A q \in Ranks :
          /\ pc'[q] = "write" => q = 0
          /\ posted'[q] <= copied'[q] /\ copied'[q] <= idx'[q] /\ idx'[q] <= Total
          /\ pc'[q] \in {"write", "barrier"} => idx'[q] < Total
          /\ pc'[q] \in {"wait", "update"} \/ (full /\ pc'[q] = "end") => idx'[q] = Total
          /\ pc'[q] \in {"start", "update", "end"} =>
                copied'[q] = idx'[q] /\ (InPlace => posted'[q] = idx'[q])
    BY <1>1, <1>2, <1>7 DEF LoadInv, InStep
  <2> QED
    BY <1>1, <1>5, <2>1, <2>2 DEF LoadInv, InStep
<1>12. WritesInOrder'
  BY <1>1, <1>5 DEF LoadInv, WritesInOrder, Written
<1>13. BuffersHoldLater' /\ BuffersOfMain'
  BY <1>1, <1>5, BuffersStay
<1>14. CopiesHoldLater'
  <2> SUFFICES ASSUME NEW q \in Ranks, Loading(q)', NEW i \in 0 .. (copied'[q] - 1)
               PROVE  CopiedLater(q, i, gpu[q][Position(q, i)])'
    BY DEF CopiesHoldLater
  <2>0. Loading(q) /\ layer' = layer /\ i \in 0 .. (copied[q] - 1) /\ layer \in Layers
    BY <1>0, <1>1 DEF Loading, LoadTypeOK
  <2>1. CopiedLater(q, i, gpu[q][Position(q, i)])
    BY <2>0 DEF LoadInv, CopiesHoldLater
  <2>2. i \in 0 .. (Total - 1) /\ Position(q, i) \in Experts
    <3>1. copied[q] \in Nat /\ copied[q] <= Total /\ idx[q] \in Nat
      BY <1>0 DEF LoadInv, InStep, LoadTypeOK
    <3>2. i \in 0 .. (Total - 1)
      BY <1>0, <2>0, <3>1
    <3> QED
      BY <1>0, <3>2, FromCpuPositions
  <2>3. CASE q = r /\ i = k
    <3>1. Position(q, i) = e
      BY <2>3 DEF e
    <3>2. CASE gpu[r][e] = Torn
      <4>1. gpu'[q][Position(q, i)] = Torn
        BY <1>7, <2>3, <3>1, <3>2
      <4> QED
        BY <1>5, <4>1 DEF CopiedLater
    <3>3. CASE gpu[r][e] # Torn
      <4>1. PICK j \in i .. (Total - 1) :
               j % 2 = i % 2 /\ \E ready \in BOOLEAN : gpu[r][e] = Weights(layer, Position(q, j), ready)
        BY <2>1, <2>3, <3>1, <3>3 DEF CopiedLater
      <4>2. gpu'[q][Position(q, i)] = Weights(layer, Position(q, j), TRUE)
        BY <1>8, <2>3, <3>1, <3>3, <4>1 DEF Weights
      <4> QED
        BY <1>5, <2>0, <4>1, <4>2 DEF CopiedLater
    <3> QED
      BY <3>2, <3>3
  <2>4. CASE q # r \/ i # k
    <3>1. gpu'[q][Position(q, i)] = gpu[q][Position(q, i)]
      BY <1>4, <1>7, <2>2, <2>4
    <3>2. i < posted'[q] => i < posted[q]
      <4>1. CASE q = r
        BY <1>2, <1>7, <2>2, <2>4, <4>1 DEF k
      <4>2. CASE q # r
        BY <1>7, <4>2
      <4> QED
        BY <4>1, <4>2
    <3> QED
      BY <1>5, <2>0, <2>1, <3>1, <3>2 DEF CopiedLater, Weights
  <2> QED
    BY <2>3, <2>4
<1>15. CopiesOfMain'
  <2>1. \A l \in Layers : \A s \in Slots : held'[0][l][s] = Weights(l, Nth(placed'[0][l], s), TRUE)
    BY <1>1 DEF LoadInv, CopiesOfMain
  <2>2. CASE r = 0
    <3>1. gpu'[0][e] = Weights(layer, e, TRUE)
      <4>1. PICK ready \in BOOLEAN : gpu[0][e] = Weights(layer, e, ready)
        BY <1>2, <1>3, <2>2 DEF LoadInv, CopiesOfMain, e
      <4>2. gpu[0][e] # Torn
        <5>1. layer \in Nat /\ e \in Nat
          BY <1>0, <1>4 DEF LoadTypeOK, Layers, Experts
        <5>2. Weights(layer, e, ready) \in [layer : Nat, expert : Nat, ready : BOOLEAN]
          BY <5>1 DEF Weights
        <5> QED
          BY <4>1, <5>2, LoadAssumption
      <4> QED
        BY <1>8, <2>2, <4>1, <4>2 DEF Weights
    <3>2. ASSUME NEW i \in 0 .. (copied[0] - 1)
          PROVE  \E ready \in BOOLEAN : /\ gpu'[0][Position(0, i)] = Weights(layer, Position(0, i), ready)
                                        /\ ~ InPlace \/ i < posted'[0] => ready
      <4>1. CASE i = k
        BY <2>2, <3>1, <4>1 DEF e
      <4>2. CASE i # k
        <5>1. i \in 0 .. (Total - 1)
          BY <1>0, <1>2, <2>2
        <5>2. Position(0, i) \in Experts /\ Position(0, i) # e
          BY <1>0, <1>4, <2>2, <4>2, <5>1, FromCpuPositions
        <5>3. gpu'[0][Position(0, i)] = gpu[0][Position(0, i)]
          BY <1>7, <2>2, <5>2
        <5>4. i < posted'[0] => i < posted[0]
          BY <1>2, <1>7, <2>2, <4>2, <5>1 DEF k
        <5> QED
          BY <1>2, <2>2, <5>3, <5>4 DEF LoadInv, CopiesOfMain
      <4> QED
        BY <4>1, <4>2
    <3>3. \A d \in Experts \ FromCpu(0) : gpu'[0][d] = Right(d)
      BY <1>2, <1>4, <1>7, <2>2 DEF LoadInv, CopiesOfMain
    <3> QED
      BY <1>1, <1>5, <2>1, <3>2, <3>3 DEF CopiesOfMain, Right
  <2>3. CASE r # 0
    <3>1. Loading(0)' = Loading(0) /\ posted'[0] = posted[0] /\ gpu'[0] = gpu[0]
      BY <1>0, <1>1, <1>7, <2>3 DEF Loading
    <3> QED
      BY <1>1, <1>5, <2>1, <3>1 DEF LoadInv, CopiesOfMain, Right
  <2> QED
    BY <2>2, <2>3
<1> QED
  BY <1>9, <1>10, <1>11, <1>12, <1>13, <1>14, <1>15 DEF LoadInv

(* A rank that has all computes.                                            *)
LEMMA ComputeFullKeeps ==
  ASSUME LoadInv, NEW r \in Ranks, ComputeFull(r)
  PROVE  LoadInv'
<1>0. LoadTypeOK /\ Total \in Nat /\ 0 \in Ranks /\ Count(r) = Total
  BY FromCpuPositions, Numbers DEF LoadInv
<1>1. /\ UNCHANGED <<format, layer, full, idx, copied, posted, write, buffers, gpu, placed, held, chosen>>
      /\ pc[r] = "wait" /\ pc' = [pc EXCEPT ![r] = "update"]
      /\ copied[r] = Total /\ (InPlace => posted[r] = Total)
  BY <1>0 DEF ComputeFull, Loaded, streams, tables, Goto
<1>2. idx[r] = Total /\ full
  BY <1>0, <1>1 DEF LoadInv, InStep, RanksAgree
<1>3. LoadTypeOK'
  BY <1>0, <1>1 DEF LoadTypeOK, Places
<1>4. RanksAgree'
  BY <1>0, <1>1 DEF LoadInv, LoadTypeOK, RanksAgree
<1>5. Total' = Total /\ InPlace' = InPlace /\ Writes' = Writes
  BY <1>0, <1>1, <1>2, Frame DEF Writes, LoadTypeOK
<1>6. InStep'
  <2>1. \A q \in Ranks : Entered(q)' = Entered(q)
    BY <1>0, <1>1 DEF Entered, LoadTypeOK
  <2>2. \A q \in Ranks : pc'[q] # "start" => pc[q] # "start"
    BY <1>0, <1>1 DEF LoadTypeOK
  <2>3. \A q \in Ranks :
          /\ pc'[q] = "write" => q = 0
          /\ posted'[q] <= copied'[q] /\ copied'[q] <= idx'[q] /\ idx'[q] <= Total
          /\ pc'[q] \in {"write", "barrier"} => idx'[q] < Total
          /\ pc'[q] \in {"wait", "update"} \/ (full /\ pc'[q] = "end") => idx'[q] = Total
          /\ pc'[q] \in {"start", "update", "end"} =>
                copied'[q] = idx'[q] /\ (InPlace => posted'[q] = idx'[q])
    BY <1>0, <1>1, <1>2 DEF LoadInv, InStep, LoadTypeOK
  <2> QED
    BY <1>1, <1>5, <2>1, <2>2, <2>3 DEF LoadInv, InStep
<1>7. WritesInOrder'
  BY <1>0, <1>1, <1>5 DEF LoadInv, WritesInOrder, Written, LoadTypeOK
<1>8. BuffersHoldLater' /\ BuffersOfMain'
  <2>1. \A q \in Ranks : pc[q] = "end" => pc'[q] = "end"
    BY <1>0, <1>1 DEF LoadTypeOK
  <2> QED
    BY <1>1, <1>5, <2>1, BuffersStay
<1>9. CopiesHoldLater' /\ CopiesOfMain'
  <2>1. \A q \in Ranks : Loading(q)' => Loading(q)
    BY <1>0, <1>1, <1>2 DEF Loading, LoadTypeOK
  <2> QED
    BY <1>1, <2>1, CopiesStay
<1> QED
  BY <1>3, <1>4, <1>6, <1>7, <1>8, <1>9 DEF LoadInv

-----------------------------------------------------------------------------
(* Placing experts, and the next layer. *)

(* With all copied, and postprocessed where that is done, rank 0 has the    *)
(* layer.                                                                   *)
LEMMA AllCopied ==
  ASSUME LoadInv, Loading(0), copied[0] = Total, InPlace => posted[0] = Total
  PROVE  \A e \in Experts : gpu[0][e] = Right(e)
<1> SUFFICES ASSUME NEW e \in Experts
             PROVE  gpu[0][e] = Right(e)
  OBVIOUS
<1>0. LoadTypeOK /\ Total \in Nat /\ 0 \in Ranks
  BY FromCpuPositions, Numbers DEF LoadInv
<1>1. CASE e \in FromCpu(0)
  <2>1. PICK i \in 0 .. (Total - 1) : Position(0, i) = e
    BY <1>0, <1>1, FromCpuPositions
  <2>2. PICK ready \in BOOLEAN : gpu[0][e] = Weights(layer, e, ready) /\ (~ InPlace \/ i < posted[0] => ready)
    BY <2>1 DEF LoadInv, CopiesOfMain
  <2>3. ~ InPlace \/ i < posted[0]
    BY <1>0, <2>1
  <2>4. ready = TRUE
    BY <2>2, <2>3
  <2> QED
    BY <2>2, <2>4 DEF Right
<1>2. CASE e \notin FromCpu(0)
  BY <1>2 DEF LoadInv, CopiesOfMain
<1> QED
  BY <1>1, <1>2

(* A rank places the experts that were selected.                            *)
LEMMA PlaceKeeps ==
  ASSUME LoadInv, NEW r \in Ranks, NEW S \in Selections, pc[r] = "update", Place(r, S),
         chosen' = {S}, chosen = {S} \/ (r = 0 /\ chosen = {}), r # 0 => pc[0] = "end"
  PROVE  LoadInv'
<1>0. LoadTypeOK /\ Total \in Nat /\ 0 \in Ranks
  BY FromCpuPositions, Numbers DEF LoadInv
<1>1. /\ UNCHANGED <<format, layer, full, idx, copied, posted, write, buffers, gpu>>
      /\ pc' = [pc EXCEPT ![r] = "end"]
      /\ placed' = [placed EXCEPT ![r][layer] = S]
      /\ held' = [held EXCEPT ![r][layer] = [s \in Slots |-> gpu[r][Nth(S, s)]]]
  BY DEF Place, streams, Goto
<1>2. full /\ layer \in Layers
  BY <1>0 DEF LoadInv, RanksAgree, LoadTypeOK
<1>3. /\ pc'[r] = "end" /\ placed'[r][layer] = S
      /\ \A l \in Layers \ {layer} : placed'[r][l] = placed[r][l] /\ held'[r][l] = held[r][l]
      /\ held'[r][layer] = [s \in Slots |-> gpu[r][Nth(S, s)]]
      /\ \A q \in Ranks \ {r} : pc'[q] = pc[q] /\ placed'[q] = placed[q] /\ held'[q] = held[q]
  BY <1>0, <1>1, <1>2 DEF LoadTypeOK
<1>4. \A s \in Slots : Nth(S, s) \in Experts
  <2>1. S \in SUBSET Experts /\ Cardinality(S) = NumGpu
    BY Numbers
  <2> QED
    BY <2>1, Ordered DEF Slots
<1>5. LoadTypeOK'
  <2>1. placed' \in [Ranks -> [Layers -> Selections]]
    BY <1>0, <1>1, <1>2 DEF LoadTypeOK
  <2>2. [s \in Slots |-> gpu[r][Nth(S, s)]] \in [Slots -> Values]
    BY <1>0, <1>4 DEF LoadTypeOK
  <2>3. held' \in [Ranks -> [Layers -> [Slots -> Values]]]
    BY <1>0, <1>1, <1>2, <2>2 DEF LoadTypeOK
  <2>4. pc' \in [Ranks -> Places]
    BY <1>0, <1>1 DEF LoadTypeOK, Places
  <2> QED
    BY <1>0, <1>1, <2>1, <2>3, <2>4 DEF LoadTypeOK
<1>6. /\ Total' = Total /\ InPlace' = InPlace /\ Writes' = Writes
      /\ \A e : Right(e)' = Right(e)
  <2>1. Total' = Total /\ InPlace' = InPlace
    BY <1>1 DEF Total, Shortcut, InPlace
  <2>2. pc'[0] # "start" <=> pc[0] # "start"
    BY <1>0, <1>3
  <2> QED
    BY <1>1, <2>1, <2>2 DEF Writes, Right
<1>7. \A q \in Ranks \ {r} : \A j : Position(q, j)' = Position(q, j) /\ Sent(q, j)' = Sent(q, j)
  BY <1>1, <1>3, FrameOf
<1>8. RanksAgree'
  <2>1. \A q, p \in Ranks : \A l \in Layers :
           l # layer \/ (pc'[q] = "end" <=> pc'[p] = "end") => placed'[q][l] = placed'[p][l]
    <3> SUFFICES ASSUME NEW q \in Ranks, NEW p \in Ranks, NEW l \in Layers,
                        l # layer \/ (pc'[q] = "end" <=> pc'[p] = "end")
                 PROVE  placed'[q][l] = placed'[p][l]
      OBVIOUS
    <3>1. CASE l # layer
      <4>1. \A x \in Ranks : placed'[x][l] = placed[x][l]
        BY <1>3, <3>1
      <4> QED
        BY <3>1, <4>1 DEF LoadInv, RanksAgree
    <3>2. CASE l = layer
      <4>1. \A x \in Ranks : pc'[x] = "end" => placed'[x][layer] = S
        <5>1. \A x \in Ranks : pc[x] = "end" => chosen = {placed[x][layer]}
          BY <1>2 DEF LoadInv, RanksAgree
        <5> QED
          BY <1>3, <5>1
      <4>2. \A x \in Ranks : pc'[x] # "end" => pc[x] # "end" /\ placed'[x][layer] = placed[x][layer]
        BY <1>3
      <4>3. \A x, y \in Ranks : pc[x] # "end" /\ pc[y] # "end" => placed[x][layer] = placed[y][layer]
        BY <1>2 DEF LoadInv, RanksAgree
      <4> QED
        BY <3>2, <4>1, <4>2, <4>3
    <3> QED
      BY <3>1, <3>2
  <2>2. \A q \in Ranks : pc'[q] = "end" => chosen' = {placed'[q][layer]}
    <3>1. \A x \in Ranks : pc[x] = "end" => chosen = {placed[x][layer]}
      BY <1>2 DEF LoadInv, RanksAgree
    <3> QED
      BY <1>3, <3>1
  <2>3. pc'[0] = "end"
    BY <1>0, <1>3
  <2> QED
    BY <1>1, <1>2, <2>1, <2>2, <2>3 DEF RanksAgree
<1>9. InStep'
  <2>1. \A q \in Ranks : Entered(q)' = Entered(q)
    BY <1>1, <1>3 DEF Entered
  <2>2. \A q \in Ranks : pc'[q] # "start" => pc[q] # "start"
    BY <1>3
  <2>3. \A q \in Ranks :
          /\ pc'[q] = "write" => q = 0
          /\ posted'[q] <= copied'[q] /\ copied'[q] <= idx'[q] /\ idx'[q] <= Total
          /\ pc'[q] \in {"write", "barrier"} => idx'[q] < Total
          /\ pc'[q] \in {"wait", "update"} \/ (full /\ pc'[q] = "end") => idx'[q] = Total
          /\ pc'[q] \in {"start", "update", "end"} =>
                copied'[q] = idx'[q] /\ (InPlace => posted'[q] = idx'[q])
    BY <1>1, <1>2, <1>3 DEF LoadInv, InStep
  <2> QED
    BY <1>1, <1>6, <2>1, <2>2, <2>3 DEF LoadInv, InStep
<1>10. WritesInOrder'
  <2>1. pc'[0] = "end" /\ pc[0] \in {"update", "end"}
    BY <1>0, <1>3
  <2> QED
    BY <1>1, <1>6, <2>1 DEF LoadInv, WritesInOrder, Written
<1>11. BuffersHoldLater' /\ BuffersOfMain'
  <2>1. BuffersOfMain'
    BY <1>0, <1>3 DEF BuffersOfMain
  <2>2. \A q \in Ranks : pc'[q] # "end" => q \in Ranks \ {r} /\ pc[q] # "end"
    BY <1>3
  <2> QED
    BY <1>1, <1>6, <1>7, <2>1, <2>2 DEF LoadInv, BuffersHoldLater, LaterOnly
<1>12. CopiesHoldLater'
  <2> SUFFICES ASSUME NEW q \in Ranks, Loading(q)', NEW i \in 0 .. (copied'[q] - 1)
               PROVE  CopiedLater(q, i, gpu[q][Position(q, i)])'
    BY DEF CopiesHoldLater
  <2>1. Loading(q) /\ q \in Ranks \ {r}
    BY <1>1, <1>3 DEF Loading
  <2>2. CopiedLater(q, i, gpu[q][Position(q, i)])
    BY <1>1, <2>1 DEF LoadInv, CopiesHoldLater
  <2>3. Position(q, i)' = Position(q, i) /\ \A j : Position(q, j)' = Position(q, j)
    BY <1>7, <2>1
  <2> QED
    BY <1>1, <1>6, <2>2, <2>3 DEF CopiedLater, Weights
<1>13. CopiesOfMain'
  <2>1. ~ Loading(0)'
    BY <1>0, <1>3 DEF Loading
  <2>2. \A l \in Layers : \A s \in Slots : held'[0][l][s] = Weights(l, Nth(placed'[0][l], s), TRUE)
    <3> SUFFICES ASSUME NEW l \in Layers, NEW s \in Slots
                 PROVE  held'[0][l][s] = Weights(l, Nth(placed'[0][l], s), TRUE)
      OBVIOUS
    <3>1. CASE r = 0 /\ l = layer
      <4>1. Loading(0) /\ copied[0] = Total /\ (InPlace => posted[0] = Total)
        BY <1>0, <1>2, <3>1 DEF Loading, LoadInv, InStep
      <4>2. gpu[0][Nth(S, s)] = Right(Nth(S, s))
        BY <1>4, <4>1, AllCopied
      <4> QED
        BY <1>3, <3>1, <4>2 DEF Right
    <3>2. CASE r # 0 \/ l # layer
      <4>1. held'[0][l] = held[0][l] /\ placed'[0][l] = placed[0][l]
        BY <1>0, <1>3, <3>2
      <4> QED
        BY <4>1 DEF LoadInv, CopiesOfMain
    <3> QED
      BY <3>1, <3>2
  <2> QED
    BY <2>1, <2>2 DEF CopiesOfMain
<1> QED
  BY <1>5, <1>8, <1>9, <1>10, <1>11, <1>12, <1>13 DEF LoadInv

(* Rank 0 selects, the others follow.                                       *)
LEMMA SelectKeeps ==
  ASSUME LoadInv, Select
  PROVE  LoadInv'
<1>1. PICK S \in Selections : chosen' = {S} /\ Place(0, S)
  BY DEF Select
<1>2. pc[0] = "update" /\ chosen = {}
  BY DEF Select, LoadInv, RanksAgree
<1> QED
  BY <1>1, <1>2, PlaceKeeps, Numbers

(* The other ranks place what rank 0 selected.                              *)
LEMMA FollowKeeps ==
  ASSUME LoadInv, NEW r \in Ranks, Follow(r)
  PROVE  LoadInv'
<1>1. PICK S \in chosen : Place(r, S)
  BY DEF Follow
<1>2. pc[r] = "update" /\ r # 0 /\ chosen' = chosen
  BY DEF Follow
<1>3. full /\ pc[0] = "end"
  BY <1>1, <1>2 DEF LoadInv, RanksAgree
<1>4. chosen = {placed[0][layer]} /\ placed[0][layer] \in Selections
  BY <1>3, Numbers DEF LoadInv, RanksAgree, LoadTypeOK
<1> QED
  BY <1>1, <1>2, <1>3, <1>4, PlaceKeeps

(* A short prompt loads nothing.                                            *)
LEMMA ComputeHybridKeeps ==
  ASSUME LoadInv, NEW r \in Ranks, ComputeHybrid(r)
  PROVE  LoadInv'
<1>0. LoadTypeOK
  BY DEF LoadInv
<1>1. /\ UNCHANGED <<format, layer, full, idx, copied, posted, write, buffers, gpu, placed, held, chosen>>
      /\ pc[r] = "start" /\ ~ full /\ pc' = [pc EXCEPT ![r] = "end"]
  BY DEF ComputeHybrid, streams, tables, Goto
<1>2. Total' = Total /\ InPlace' = InPlace /\ ~ Writes /\ ~ Writes'
  BY <1>1, Frame DEF Writes
<1>3. LoadTypeOK'
  BY <1>0, <1>1 DEF LoadTypeOK, Places
<1>4. RanksAgree'
  BY <1>0, <1>1, Numbers DEF LoadInv, LoadTypeOK, RanksAgree
<1>5. InStep'
  BY <1>0, <1>1, <1>2 DEF LoadInv, InStep, LoadTypeOK
<1>6. WritesInOrder' /\ BuffersHoldLater' /\ BuffersOfMain'
  BY <1>1, <1>2 DEF LoadInv, WritesInOrder, Written, BuffersHoldLater, BuffersOfMain
<1>7. CopiesHoldLater' /\ CopiesOfMain'
  <2>1. \A q \in Ranks : ~ Loading(q)'
    BY <1>1 DEF Loading
  <2> QED
    BY <1>1, <2>1, CopiesStay
<1> QED
  BY <1>3, <1>4, <1>5, <1>6, <1>7 DEF LoadInv

(* The ranks go on to the next layer together.                              *)
LEMMA NextLayerKeeps ==
  ASSUME LoadInv, NextLayer
  PROVE  LoadInv'
<1>0. LoadTypeOK /\ 0 \in Ranks
  BY Numbers DEF LoadInv
<1>1. /\ UNCHANGED <<format, idx, copied, posted, write, buffers, gpu, placed, held>>
      /\ \A r \in Ranks : pc[r] = "end"
      /\ layer' = (layer + 1) % NumLayers /\ full' \in BOOLEAN
      /\ pc' = [r \in Ranks |-> "start"] /\ chosen' = {}
  BY DEF NextLayer, streams, tables
<1>2. Total' = Total /\ InPlace' = InPlace /\ ~ Writes'
  <2>1. Total' = Total /\ InPlace' = InPlace
    BY <1>1 DEF Total, InPlace, Shortcut
  <2> QED
    BY <1>0, <1>1, <2>1 DEF Writes
<1>3. LoadTypeOK'
  <2>1. layer' \in Layers
    <3>1. layer \in Nat
      BY <1>0 DEF LoadTypeOK, Layers
    <3> QED
      BY <1>1, <3>1, Numbers DEF Layers
  <2> QED
    BY <1>0, <1>1, <2>1 DEF LoadTypeOK, Places
<1>4. RanksAgree'
  BY <1>0, <1>1 DEF LoadInv, RanksAgree
<1>5. InStep'
  BY <1>0, <1>1, <1>2 DEF LoadInv, InStep
<1>6. Written /\ Written'
  <2>1. Written
    BY <1>0, <1>1 DEF LoadInv, WritesInOrder
  <2> QED
    BY <1>1, <2>1 DEF Written
<1>7. WritesInOrder' /\ BuffersHoldLater' /\ BuffersOfMain'
  BY <1>2, <1>6 DEF WritesInOrder, BuffersHoldLater, BuffersOfMain
<1>8. CopiesHoldLater' /\ CopiesOfMain'
  <2>1. \A q \in Ranks : ~ Loading(q)'
    BY <1>1 DEF Loading
  <2>2. \A l \in Layers : \A s \in Slots : held'[0][l][s] = Weights(l, Nth(placed'[0][l], s), TRUE)
    BY <1>1 DEF LoadInv, CopiesOfMain
  <2> QED
    BY <1>0, <2>1, <2>2 DEF CopiesHoldLater, CopiesOfMain
<1> QED
  BY <1>3, <1>4, <1>5, <1>7, <1>8 DEF LoadInv

-----------------------------------------------------------------------------
(* What follows of the loading. *)

(* A process starts with the experts it was started with in place.          *)
LEMMA InitLoadInv == Init => LoadInv
<1> SUFFICES ASSUME Init
             PROVE  LoadInv
  OBVIOUS
<1>1. PICK S \in [Layers -> Selections] :
         /\ placed = [r \in Ranks |-> S]
         /\ held = [r \in Ranks |-> [l \in Layers |-> [s \in Slots |-> Weights(l, Nth(S[l], s), TRUE)]]]
  BY DEF Init
<1>2. /\ format \in Formats /\ layer = 0 /\ full \in BOOLEAN /\ chosen = {}
      /\ pc = [r \in Ranks |-> "start"]
      /\ idx = [r \in Ranks |-> 0] /\ copied = [r \in Ranks |-> 0] /\ posted = [r \in Ranks |-> 0]
      /\ write = NoWrite /\ buffers = [r \in Ranks |-> [b \in {0, 1} |-> Torn]]
      /\ gpu = [r \in Ranks |-> [e \in Experts |-> Torn]]
  BY DEF Init
<1>3. \A l \in Layers : \A s \in Slots : Nth(S[l], s) \in Experts
  <2> SUFFICES ASSUME NEW l \in Layers, NEW s \in Slots
               PROVE  Nth(S[l], s) \in Experts
    OBVIOUS
  <2>1. S[l] \in SUBSET Experts /\ Cardinality(S[l]) = NumGpu
    BY Numbers
  <2> QED
    BY <2>1, Ordered DEF Slots
<1>4. LoadTypeOK
  <2>1. held \in [Ranks -> [Layers -> [Slots -> Values]]]
    BY <1>1, <1>3 DEF Weights, Values
  <2>2. placed \in [Ranks -> [Layers -> Selections]]
    BY <1>1
  <2>3. /\ buffers \in [Ranks -> [{0, 1} -> Values]] /\ gpu \in [Ranks -> [Experts -> Values]]
    BY <1>2 DEF Values
  <2>4. write \in [at : Nat, todo : SUBSET Ranks, doing : SUBSET Ranks]
    BY <1>2 DEF NoWrite
  <2>5. format \in {"fp8", "int4"} /\ layer \in Layers
    BY <1>2, Numbers, LoadAssumption
  <2> QED
    BY <1>2, <2>1, <2>2, <2>3, <2>4, <2>5 DEF LoadTypeOK, Places
<1>5. Total \in Nat
  BY <1>4, FromCpuPositions, Numbers
<1>6. RanksAgree
  BY <1>1, <1>2, Numbers DEF RanksAgree
<1>7. InStep
  BY <1>2, <1>5 DEF InStep
<1>8. ~ Writes /\ Written
  BY <1>2, Numbers DEF Writes, Written, NoWrite
<1>9. WritesInOrder /\ BuffersHoldLater /\ BuffersOfMain
  BY <1>8 DEF WritesInOrder, BuffersHoldLater, BuffersOfMain
<1>10. CopiesHoldLater /\ CopiesOfMain
  <2>1. \A r \in Ranks : ~ Loading(r)
    BY <1>2 DEF Loading
  <2> QED
    BY <1>1, <2>1, Numbers DEF CopiesHoldLater, CopiesOfMain
<1> QED
  BY <1>4, <1>6, <1>7, <1>9, <1>10 DEF LoadInv

(* Every step of a rank, of its streams and of the CPU kernel keeps it.     *)
LEMMA NextLoadInv ==
  ASSUME LoadInv, [Next]_vars
  PROVE  LoadInv'
<1>1. CASE UNCHANGED vars
  <2>1. UNCHANGED <<format, layer, full, pc, idx, copied, posted, write, buffers, gpu, placed, held, chosen>>
    BY <1>1 DEF vars, streams, tables
  <2>2. Total' = Total /\ InPlace' = InPlace /\ Writes' = Writes
    BY <2>1, Frame DEF Writes
  <2>3. LoadTypeOK' /\ RanksAgree'
    BY <2>1 DEF LoadInv, LoadTypeOK, RanksAgree
  <2>4. InStep' /\ WritesInOrder'
    BY <2>1, <2>2 DEF LoadInv, InStep, Entered, WritesInOrder, Written
  <2>5. BuffersHoldLater' /\ BuffersOfMain'
    BY <2>1, <2>2, BuffersStay
  <2>6. CopiesHoldLater' /\ CopiesOfMain'
    BY <2>1, CopiesStay DEF Loading
  <2> QED
    BY <2>3, <2>4, <2>5, <2>6 DEF LoadInv
<1>2. CASE NextLayer
  BY <1>2, NextLayerKeeps
<1>3. ASSUME NEW r \in Ranks, Rank(r)
      PROVE  LoadInv'
  BY <1>3, StartLoadKeeps, LaunchCopyKeeps, ComputeFullKeeps, FollowKeeps, ComputeHybridKeeps,
     WriteAheadKeeps, SelectKeeps DEF Rank
<1>4. ASSUME NEW r \in Ranks, Device(r)
      PROVE  LoadInv'
  BY <1>4, CopyKeeps, PostKeeps, BeginWriteKeeps, EndWriteKeeps DEF Device
<1> QED
  BY <1>1, <1>2, <1>3, <1>4 DEF Next

(* The invariant holds in every reachable state.                            *)
THEOREM LoadInvariant == Spec => []LoadInv
<1>1. LoadInv /\ [Next]_vars => LoadInv'
  BY NextLoadInv
<1> QED
  BY <1>1, InitLoadInv, PTL DEF Spec

(* Rank 0 computes with the right weights, on the whole layer and on the    *)
(* experts that stay.                                                       *)
THEOREM MainRankStaysRight == Spec => []MainRankIsRight
<1>1. LoadInv => MainRankIsRight
  <2> SUFFICES ASSUME LoadInv
               PROVE  MainRankIsRight
    OBVIOUS
  <2>0. LoadTypeOK /\ Count(0) = Total /\ 0 \in Ranks
    BY FromCpuPositions, Numbers DEF LoadInv
  <2>1. ASSUME Loaded(0)
        PROVE  \A e \in Experts : gpu[0][e] = Right(e)
    <3>1. pc[0] = "wait" /\ copied[0] = Total /\ (InPlace => posted[0] = Total)
      BY <2>0, <2>1 DEF Loaded
    <3>2. Loading(0)
      BY <2>0, <3>1 DEF Loading, LoadInv, RanksAgree, LoadTypeOK
    <3> QED
      BY <3>1, <3>2, AllCopied
  <2>2. \A s \in Slots : held[0][layer][s] = Right(Nth(placed[0][layer], s))
    BY <2>0 DEF LoadInv, CopiesOfMain, LoadTypeOK, Right
  <2> QED
    BY <2>1, <2>2 DEF MainRankIsRight
<1> QED
  BY <1>1, LoadInvariant, PTL

(* A rank whose copies a write overtakes gets a later expert of this layer, *)
(* or a torn one.                                                           *)
THEOREM OvertakenOnlyByLater == Spec => []OvertakenByLaterOnly
<1>1. LoadInv => OvertakenByLaterOnly
  <2> SUFFICES ASSUME LoadInv, NEW r \in Ranks, Loaded(r), NEW i \in 0 .. (Count(r) - 1)
               PROVE  \/ gpu[r][Position(r, i)] = Torn
                      \/ \E j \in i .. (Count(r) - 1) :
                            j % 2 = i % 2 /\ gpu[r][Position(r, i)] = Right(Position(r, j))
    BY DEF OvertakenByLaterOnly
  <2>0. LoadTypeOK /\ Count(r) = Total /\ Total \in Nat
    BY FromCpuPositions DEF LoadInv
  <2>1. pc[r] = "wait" /\ copied[r] = Total /\ (InPlace => posted[r] = Total)
    BY <2>0 DEF Loaded
  <2>2. Loading(r)
    BY <2>0, <2>1 DEF Loading, LoadInv, RanksAgree, LoadTypeOK
  <2>3. CopiedLater(r, i, gpu[r][Position(r, i)])
    BY <2>0, <2>1, <2>2 DEF LoadInv, CopiesHoldLater
  <2>4. ~ InPlace \/ i < posted[r]
    BY <2>0, <2>1
  <2> QED
    BY <2>0, <2>3, <2>4 DEF CopiedLater, Right, Weights
<1> QED
  BY <1>1, LoadInvariant, PTL
=============================================================================
