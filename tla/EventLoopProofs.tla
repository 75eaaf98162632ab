-------------------------- MODULE EventLoopProofs ---------------------------
(***************************************************************************)
(* Proofs about EventLoop for any requests, chunks, groups and limits.     *)
(***************************************************************************)
EXTENDS EventLoop, Integers, FiniteSetTheorems, SequenceTheorems, WellFoundedInduction, TLAPS

InjectiveSeq(s) == \A i, j \in DOMAIN s : s[i] = s[j] => i = j

(* Where a request may be: queued, waiting to be continued, in the stages,  *)
(* running, just out of the last group, or taken for the batch being made.  *)
Queued  == ToSet(waiting)
Resumed == ToSet(pending)
Prefilled ==
    IF pc \in {"receive", "merge"} /\ last.kind = "prefill" THEN last.reqs \ ToSet(pending) ELSE {}
Held ==
    IF pc = "prefill" THEN {chunked} \ {None}
    ELSE IF pc = "admit" THEN Members(batch) ELSE {}
Served == {r \in Requests : HoldsSlot(r)}

IsChunk(c) ==
    /\ c = [req |-> c.req, chunk |-> c.chunk, group |-> c.group, next |-> c.next, rows |-> c.rows]
    /\ c.req \in Requests /\ c.group \in Nat

(* Types; everything that holds requests is finite.                         *)
LoopTypeOK ==
    /\ pc \in {"receive", "merge", "prefill", "decode", "select", "admit", "run"}
    /\ waiting \in Seq(Requests) /\ pending \in Seq(Requests)
    /\ chunked \in Requests \cup {None}
    /\ \A c \in inflight : IsChunk(c)
    /\ running \in SUBSET Requests
    /\ last \in [kind : {"none", "prefill", "decode"}, reqs : SUBSET Requests]
    /\ cur \in SUBSET Requests
    /\ done \in [Requests -> Nat]
    /\ tokens \in [Requests -> Nat]
    /\ fate \in [Requests -> {"new", "live", "finished", "aborted"}]
    /\ to_finish \in SUBSET Requests
    /\ IsFiniteSet(inflight) /\ IsFiniteSet(running) /\ IsFiniteSet(last.reqs)

(* What the batch of this iteration is made for.                            *)
BatchFits ==
    /\ pc = "admit" => \E r \in Requests :
          /\ batch = Batch("prefill", <<[req |-> r]>>)
          /\ chunked = IF done[r] < NumChunks[r] THEN r ELSE None
    /\ pc = "run" => batch.kind \in {"stage", "decode"}
    /\ pc = "run" /\ batch.kind = "decode" => running \subseteq Live(Requests)
    /\ pc = "run" /\ batch.kind = "stage" =>
          /\ batch.members \in Seq(inflight) /\ batch.members # <<>>
          /\ InjectiveSeq(batch.members)

(* A new chunk is only made when it can be admitted.                        *)
RoomForOne ==
    /\ Cardinality(inflight) <= MaxInflight
    /\ pc \in {"merge", "prefill", "admit"} \/ (pc = "receive" /\ last.kind = "prefill") =>
          Cardinality(inflight) < MaxInflight
    /\ chunked # None => pc \in {"prefill", "admit"}
    /\ pc = "prefill" /\ chunked = None => pending = <<>>
    /\ last.reqs \subseteq cur

(* Live requests are in one place, and only running or prefilled requests   *)
(* may have ended where they are.                                           *)
Apart(W, P, I, R, J, H, L) ==
    /\ L \subseteq W \cup P \cup I \cup R \cup J \cup H
    /\ W \cup P \cup I \cup H \subseteq L
    /\ \A r \in W : r \notin P /\ r \notin I /\ r \notin R /\ r \notin J /\ r \notin H
    /\ \A r \in P : r \notin I /\ r \notin R /\ r \notin J /\ r \notin H
    /\ \A r \in I : r \notin R /\ r \notin J /\ r \notin H
    /\ \A r \in R : r \notin J /\ r \notin H
    /\ \A r \in J : r \notin H
InOnePlace ==
    /\ Apart(Queued, Resumed, InStages, running, Prefilled, Held, Live(Requests))
    /\ InjectiveSeq(waiting) /\ InjectiveSeq(pending)
    /\ \A c, d \in inflight : c.req = d.req => c = d

(* How far its prompt is tells where a live request may be.                 *)
DoneTells ==
    /\ \A r \in Queued : done[r] = 0
    /\ \A r \in Resumed : done[r] > 0 /\ done[r] < NumChunks[r]
    /\ \A c \in inflight :
          /\ done[c.req] > 0 /\ done[c.req] <= NumChunks[c.req]
          /\ c.next = IF done[c.req] < NumChunks[c.req] THEN c.req ELSE None
    /\ \A r \in Live(running) \cup Live(Prefilled) : done[r] = NumChunks[r]
    /\ \A r \in Held :
          /\ done[r] > 0 /\ done[r] <= NumChunks[r]
          /\ pc = "prefill" => done[r] < NumChunks[r]

FewServed == IsFiniteSet(Served) /\ SlotsBounded

LoopInv == LoopTypeOK /\ BatchFits /\ RoomForOne /\ InOnePlace /\ DoneTells /\ FewServed

-----------------------------------------------------------------------------
(* Positions in order, and sequences without repetition. *)

(* The position of an element in a finite set of naturals tells it apart,   *)
(* and every position from 1 on has one.                                    *)
LEMMA Enumerates ==
  ASSUME NEW m \in Nat, NEW I \in SUBSET (1 .. m)
  PROVE  /\ IsFiniteSet(I) /\ Cardinality(I) \in Nat
         /\ \A i \in I : Cardinality({j \in I : j <= i}) \in 1 .. Cardinality(I)
         /\ \A i, k \in I : Cardinality({j \in I : j <= i}) = Cardinality({j \in I : j <= k}) => i = k
         /\ \A n \in 1 .. Cardinality(I) : \E i \in I : Cardinality({j \in I : j <= i}) = n
<1> DEFINE UpTo(i) == {j \in I : j <= i}
           f == [i \in I |-> Cardinality(UpTo(i))]
<1>1. IsFiniteSet(I) /\ Cardinality(I) \in Nat
  <2>1. IsFiniteSet(1 .. m)
    BY FS_Interval
  <2> QED
    BY <2>1, FS_Subset, FS_CardinalityType
<1>2. ASSUME NEW i \in I
      PROVE  /\ IsFiniteSet(UpTo(i)) /\ Cardinality(UpTo(i)) \in 1 .. Cardinality(I)
  <2>1. UpTo(i) \in SUBSET I /\ {i} \in SUBSET UpTo(i)
    OBVIOUS
  <2> HIDE DEF UpTo
  <2>2. IsFiniteSet(UpTo(i)) /\ Cardinality(UpTo(i)) <= Cardinality(I)
    BY <1>1, <2>1, FS_Subset
  <2>3. Cardinality(UpTo(i)) \in Nat
    BY <2>2, FS_CardinalityType
  <2>4. Cardinality({i}) <= Cardinality(UpTo(i)) /\ Cardinality({i}) = 1
    BY <2>1, <2>2, FS_Subset, FS_Singleton
  <2> QED
    BY <1>1, <2>2, <2>3, <2>4
<1>3. ASSUME NEW i \in I, NEW k \in I, i < k, Cardinality(UpTo(i)) = Cardinality(UpTo(k))
      PROVE  FALSE
  <2>0. i < k /\ i \in Int /\ k \in Int /\ \A j \in I : j \in Int
    BY <1>3
  <2>1. UpTo(i) \in SUBSET UpTo(k) /\ k \in UpTo(k) /\ k \notin UpTo(i)
    <3>1. \A j \in UpTo(i) : j \in UpTo(k)
      BY <2>0
    <3>2. k \in UpTo(k)
      BY <2>0
    <3>3. k \notin UpTo(i)
      BY <2>0
    <3> QED
      BY <3>1, <3>2, <3>3
  <2> HIDE DEF UpTo
  <2>2. UpTo(i) = UpTo(k)
    BY <1>2, <1>3, <2>1, FS_Subset
  <2> QED
    BY <2>1, <2>2
<1>4. \A i, k \in I : Cardinality(UpTo(i)) = Cardinality(UpTo(k)) => i = k
  <2> SUFFICES ASSUME NEW i \in I, NEW k \in I, Cardinality(UpTo(i)) = Cardinality(UpTo(k)), i # k
               PROVE  FALSE
    OBVIOUS
  <2>1. i < k \/ k < i
    OBVIOUS
  <2> QED
    BY <1>3, <2>1
<1>5. f \in Injection(I, 1 .. Cardinality(I))
  BY <1>2, <1>4 DEF Injection, IsInjective
<1>6. f \in Surjection(I, 1 .. Cardinality(I))
  BY <1>1, <1>5, FS_Injection, FS_Interval
<1>7. \A n \in 1 .. Cardinality(I) : \E i \in I : Cardinality(UpTo(i)) = n
  BY <1>6 DEF Surjection
<1> QED
  BY <1>1, <1>2, <1>4, <1>7

(* Those(seq, I) has the elements of seq at I, once each.                   *)
LEMMA ThoseAre ==
  ASSUME NEW S, NEW seq \in Seq(S), NEW I \in SUBSET DOMAIN seq
  PROVE  /\ Those(seq, I) \in Seq(S)
         /\ ToSet(Those(seq, I)) = {seq[i] : i \in I}
         /\ (\A i, j \in I : seq[i] = seq[j] => i = j) => InjectiveSeq(Those(seq, I))
<1> DEFINE N == Cardinality(I)
           Nth(n) == CHOOSE i \in I : Cardinality({j \in I : j <= i}) = n
           t == [n \in 1 .. N |-> seq[Nth(n)]]
<1>1. Len(seq) \in Nat /\ DOMAIN seq = 1 .. Len(seq) /\ \A i \in DOMAIN seq : seq[i] \in S
  OBVIOUS
<1>2. /\ N \in Nat
      /\ \A i \in I : Cardinality({j \in I : j <= i}) \in 1 .. N
      /\ \A i, k \in I : Cardinality({j \in I : j <= i}) = Cardinality({j \in I : j <= k}) => i = k
      /\ \A n \in 1 .. N : \E i \in I : Cardinality({j \in I : j <= i}) = n
  BY <1>1, Enumerates
<1>3. \A n \in 1 .. N : Nth(n) \in I /\ Cardinality({j \in I : j <= Nth(n)}) = n
  BY <1>2
<1>4. \A i \in I : \E n \in 1 .. N : Nth(n) = i
  BY <1>2, <1>3
<1> HIDE DEF Nth, N
<1>5. t \in [1 .. N -> S]
  BY <1>1, <1>3
<1>6. t \in Seq(S) /\ DOMAIN t = 1 .. N
  BY <1>2, <1>5
<1>7. ToSet(t) = {seq[i] : i \in I}
  BY <1>3, <1>4, <1>6 DEF ToSet
<1>8. (\A i, j \in I : seq[i] = seq[j] => i = j) => InjectiveSeq(t)
  <2> SUFFICES ASSUME \A i, j \in I : seq[i] = seq[j] => i = j,
                      NEW n \in 1 .. N, NEW k \in 1 .. N, t[n] = t[k]
               PROVE  n = k
    BY <1>6 DEF InjectiveSeq
  <2>1. Nth(n) = Nth(k)
    BY <1>3
  <2> QED
    BY <1>3, <2>1
<1>9. t = Those(seq, I)
  BY DEF Those, Nth, N
<1> QED
  BY <1>6, <1>7, <1>8, <1>9

(* Appending an element that is not there.                                  *)
LEMMA AppendsNew ==
  ASSUME NEW S, NEW seq \in Seq(S), NEW e \in S
  PROVE  /\ Append(seq, e) \in Seq(S)
         /\ ToSet(Append(seq, e)) = ToSet(seq) \cup {e}
         /\ InjectiveSeq(seq) /\ e \notin ToSet(seq) => InjectiveSeq(Append(seq, e))
<1>1. /\ Append(seq, e) \in Seq(S) /\ Len(seq) \in Nat
      /\ DOMAIN seq = 1 .. Len(seq) /\ DOMAIN Append(seq, e) = 1 .. (Len(seq) + 1)
      /\ Append(seq, e)[Len(seq) + 1] = e
      /\ \A i \in 1 .. Len(seq) : Append(seq, e)[i] = seq[i]
  OBVIOUS
<1> QED
  BY <1>1 DEF ToSet, InjectiveSeq

(* Two sequences with nothing in common.                                    *)
LEMMA Joins ==
  ASSUME NEW S, NEW s \in Seq(S), NEW t \in Seq(S)
  PROVE  /\ s \o t \in Seq(S)
         /\ ToSet(s \o t) = ToSet(s) \cup ToSet(t)
         /\ InjectiveSeq(s) /\ InjectiveSeq(t) /\ ToSet(s) \cap ToSet(t) = {} => InjectiveSeq(s \o t)
<1>1. /\ s \o t \in Seq(S) /\ Len(s) \in Nat /\ Len(t) \in Nat
      /\ DOMAIN s = 1 .. Len(s) /\ DOMAIN t = 1 .. Len(t)
      /\ DOMAIN (s \o t) = 1 .. (Len(s) + Len(t))
      /\ \A i \in 1 .. (Len(s) + Len(t)) :
            (s \o t)[i] = IF i <= Len(s) THEN s[i] ELSE t[i - Len(s)]
  OBVIOUS
<1>2. \A i \in DOMAIN t : (s \o t)[i + Len(s)] = t[i] /\ i + Len(s) \in DOMAIN (s \o t)
  BY <1>1
<1>3. ToSet(s \o t) = ToSet(s) \cup ToSet(t)
  <2>1. \A i \in DOMAIN (s \o t) : (s \o t)[i] \in ToSet(s) \cup ToSet(t)
    BY <1>1 DEF ToSet
  <2>2. \A i \in DOMAIN s : s[i] \in ToSet(s \o t)
    BY <1>1 DEF ToSet
  <2>3. \A i \in DOMAIN t : t[i] \in ToSet(s \o t)
    BY <1>2 DEF ToSet
  <2> QED
    BY <2>1, <2>2, <2>3 DEF ToSet
<1>4. ASSUME InjectiveSeq(s), InjectiveSeq(t), ToSet(s) \cap ToSet(t) = {},
             NEW i \in DOMAIN (s \o t), NEW j \in DOMAIN (s \o t), (s \o t)[i] = (s \o t)[j]
      PROVE  i = j
  <2>1. CASE i <= Len(s) /\ j <= Len(s)
    BY <1>1, <1>4, <2>1 DEF InjectiveSeq
  <2>2. CASE i > Len(s) /\ j > Len(s)
    <3>1. i - Len(s) \in DOMAIN t /\ j - Len(s) \in DOMAIN t /\ t[i - Len(s)] = t[j - Len(s)]
      BY <1>1, <1>4, <2>2
    <3>2. i - Len(s) = j - Len(s)
      BY <1>4, <3>1 DEF InjectiveSeq
    <3> QED
      BY <1>1, <3>2
  <2>3. CASE i <= Len(s) /\ j > Len(s)
    <3>1. s[i] = t[j - Len(s)] /\ i \in DOMAIN s /\ j - Len(s) \in DOMAIN t
      BY <1>1, <1>4, <2>3
    <3> QED
      BY <1>4, <3>1 DEF ToSet
  <2>4. CASE i > Len(s) /\ j <= Len(s)
    <3>1. s[j] = t[i - Len(s)] /\ j \in DOMAIN s /\ i - Len(s) \in DOMAIN t
      BY <1>1, <1>4, <2>4
    <3> QED
      BY <1>4, <3>1 DEF ToSet
  <2> QED
    BY <1>1, <2>1, <2>2, <2>3, <2>4
<1> QED
  BY <1>1, <1>3, <1>4 DEF InjectiveSeq

(* Taking the first of a sequence without repetition.                       *)
LEMMA TakesFirst ==
  ASSUME NEW S, NEW s \in Seq(S), s # <<>>
  PROVE  /\ Head(s) \in S /\ Head(s) \in ToSet(s) /\ Tail(s) \in Seq(S)
         /\ InjectiveSeq(s) => InjectiveSeq(Tail(s)) /\ ToSet(Tail(s)) = ToSet(s) \ {Head(s)}
<1>1. /\ Len(s) \in Nat /\ Len(s) > 0 /\ Tail(s) \in Seq(S) /\ Head(s) = s[1]
      /\ DOMAIN s = 1 .. Len(s) /\ DOMAIN Tail(s) = 1 .. (Len(s) - 1)
      /\ \A i \in 1 .. (Len(s) - 1) : Tail(s)[i] = s[i + 1]
  OBVIOUS
<1>2. Head(s) \in S /\ Head(s) \in ToSet(s)
  BY <1>1 DEF ToSet
<1>3. ASSUME InjectiveSeq(s)
      PROVE  InjectiveSeq(Tail(s)) /\ ToSet(Tail(s)) = ToSet(s) \ {Head(s)}
  <2>1. ASSUME NEW i \in DOMAIN Tail(s), NEW j \in DOMAIN Tail(s), Tail(s)[i] = Tail(s)[j]
        PROVE  i = j
    <3>1. s[i + 1] = s[j + 1] /\ i + 1 \in DOMAIN s /\ j + 1 \in DOMAIN s
      BY <1>1, <2>1
    <3>2. i + 1 = j + 1
      BY <1>3, <3>1 DEF InjectiveSeq
    <3> QED
      BY <1>1, <3>2
  <2>2. ASSUME NEW i \in DOMAIN Tail(s)
        PROVE  Tail(s)[i] \in ToSet(s) \ {Head(s)}
    <3>1. Tail(s)[i] = s[i + 1] /\ i + 1 \in DOMAIN s /\ i + 1 # 1 /\ 1 \in DOMAIN s
      BY <1>1
    <3> QED
      BY <1>1, <1>3, <3>1 DEF ToSet, InjectiveSeq
  <2>3. ASSUME NEW i \in DOMAIN s, s[i] # Head(s)
        PROVE  s[i] \in ToSet(Tail(s))
    <3>1. i - 1 \in DOMAIN Tail(s) /\ Tail(s)[i - 1] = s[i]
      BY <1>1, <2>3
    <3> QED
      BY <3>1 DEF ToSet
  <2> QED
    BY <2>1, <2>2, <2>3 DEF ToSet, InjectiveSeq
<1> QED
  BY <1>1, <1>2, <1>3

(* An enumeration of a finite set has its elements, once each.              *)
LEMMA Orders ==
  ASSUME NEW T, IsFiniteSet(T), NEW order \in SetToSeqs(T)
  PROVE  order \in Seq(T) /\ ToSet(order) = T /\ InjectiveSeq(order)
<1> DEFINE n == Cardinality(T)
<1>1. n \in Nat /\ order \in [1 .. n -> T] /\ \A i, j \in 1 .. n : i # j => order[i] # order[j]
  BY FS_CardinalityType DEF SetToSeqs
<1> HIDE DEF n
<1>2. order \in Injection(1 .. n, T)
  BY <1>1 DEF Injection, IsInjective
<1>3. IsFiniteSet(1 .. n) /\ Cardinality(1 .. n) = n
  BY <1>1, FS_Interval
<1>4. order \in Surjection(1 .. n, T)
  BY <1>2, <1>3, FS_Injection DEF n
<1> QED
  BY <1>1, <1>4 DEF Surjection, ToSet, InjectiveSeq

(* Chunks of different requests are as many as their requests.              *)
Reqs(S) == {c.req : c \in S}
LEMMA ReqsCounted ==
  ASSUME NEW S, IsFiniteSet(S)
  PROVE  /\ IsFiniteSet(Reqs(S)) /\ Cardinality(S) \in Nat
         /\ (\A c, d \in S : c.req = d.req => c = d) => Cardinality(Reqs(S)) = Cardinality(S)
<1> DEFINE f == [c \in S |-> c.req]
<1>1. f \in Surjection(S, Reqs(S))
  BY DEF Surjection, Reqs
<1>2. /\ IsFiniteSet(Reqs(S)) /\ Cardinality(S) \in Nat
      /\ Cardinality(Reqs(S)) = Cardinality(S) <=> f \in Injection(S, Reqs(S))
  BY <1>1, FS_Surjection, FS_CardinalityType
<1>3. (\A c, d \in S : c.req = d.req => c = d) => f \in Injection(S, Reqs(S))
  BY <1>1 DEF Injection, IsInjective, Surjection
<1> QED
  BY <1>2, <1>3

-----------------------------------------------------------------------------
(* What clients ask for. *)

(* The limits are positive numbers.                                         *)
LEMMA Limits ==
  /\ MaxInflight \in Nat /\ MaxInflight > 0 /\ MaxRunning \in Nat /\ MaxRunning > 0
  /\ NumGroups \in Nat /\ NumGroups > 0
  /\ NumChunks \in [Requests -> Nat] /\ \A r \in Requests : NumChunks[r] > 0
  /\ None \notin Requests /\ Returning \subseteq Requests /\ Impatient \subseteq Requests
  BY EventLoopAssumption

(* What is served stays finite and few when it shrinks.                     *)
LEMMA FewerServed ==
  ASSUME FewServed, Served' \subseteq Served
  PROVE  FewServed'
<1>1. /\ IsFiniteSet(Served') /\ Cardinality(Served') <= Cardinality(Served)
      /\ Cardinality(Served) \in Nat /\ Cardinality(Served') \in Nat
  BY FS_Subset, FS_CardinalityType DEF FewServed
<1>2. Cardinality(Served) <= MaxRunning + MaxInflight - 1
  BY DEF FewServed, SlotsBounded, Served
<1>3. Cardinality(Served') <= MaxRunning + MaxInflight - 1
  BY <1>1, <1>2, Limits
<1> QED
  BY <1>1, <1>3 DEF FewServed, SlotsBounded, Served

(* Whatever place it is in, it is a request that is there.                   *)
LEMMA Located ==
  ASSUME LoopInv
  PROVE  /\ Queued \subseteq Requests /\ Resumed \subseteq Requests /\ InStages \subseteq Requests
         /\ running \subseteq Requests /\ Prefilled \subseteq Requests /\ Held \subseteq Requests
         /\ \A c \in inflight : c.req \in Requests /\ c.req \in InStages
<1>1. Queued \subseteq Requests /\ Resumed \subseteq Requests
  BY DEF LoopInv, LoopTypeOK, Queued, Resumed, ToSet
<1>2. \A c \in inflight : c.req \in Requests /\ c.req \in InStages
  BY DEF LoopInv, LoopTypeOK, IsChunk, InStages
<1>3. running \subseteq Requests /\ Prefilled \subseteq Requests
  BY DEF LoopInv, LoopTypeOK, Prefilled
<1>4. Held \subseteq Live(Requests)
  BY DEF LoopInv, InOnePlace, Apart
<1> QED
  BY <1>1, <1>2, <1>3, <1>4 DEF InStages, Live

(* A new request joins the queue.                                           *)
LEMMA ArriveKeeps ==
  ASSUME LoopInv, NEW r \in Requests, Arrive(r)
  PROVE  LoopInv'
<1>1. /\ UNCHANGED <<pc, paused, chunked, pending, inflight, running, full, batch, last, cur>>
      /\ pc = "receive" /\ fate[r] # "live" /\ r \notin running /\ r \notin last.reqs
      /\ waiting' = Append(waiting, r)
      /\ fate' = [fate EXCEPT ![r] = "live"] /\ done' = [done EXCEPT ![r] = 0]
      /\ tokens' = [tokens EXCEPT ![r] = 0] /\ to_finish' = to_finish \ {r}
  BY DEF Arrive
<1>2. /\ waiting' \in Seq(Requests) /\ Queued' = Queued \cup {r}
      /\ InjectiveSeq(waiting) /\ r \notin Queued => InjectiveSeq(waiting')
  BY <1>1, AppendsNew DEF LoopInv, LoopTypeOK, Queued
<1>3. /\ Resumed' = Resumed /\ InStages' = InStages /\ Prefilled' = Prefilled
      /\ Held = {} /\ Held' = {} /\ Prefilled \subseteq last.reqs
  BY <1>1 DEF Resumed, InStages, Prefilled, Held
<1>4. /\ Live(Requests)' = Live(Requests) \cup {r} /\ r \notin Live(Requests)
      /\ \A R \in SUBSET Requests : r \notin R => Live(R)' = Live(R)
      /\ \A q \in Requests \ {r} : done'[q] = done[q] /\ fate'[q] = fate[q]
      /\ done'[r] = 0
  BY <1>1 DEF LoopInv, LoopTypeOK, Live
<1>5. r \notin Queued /\ r \notin Resumed /\ r \notin InStages
  BY <1>4 DEF LoopInv, InOnePlace, Apart
<1>6. LoopTypeOK'
  BY <1>1, <1>2 DEF LoopInv, LoopTypeOK
<1>7. BatchFits' /\ RoomForOne'
  BY <1>1 DEF LoopInv, BatchFits, RoomForOne
<1>8. InOnePlace'
  <2>1. Apart(Queued, Resumed, InStages, running, Prefilled, Held, Live(Requests))'
    BY <1>1, <1>2, <1>3, <1>4, <1>5 DEF LoopInv, InOnePlace, Apart
  <2> QED
    BY <1>1, <1>2, <1>5, <2>1 DEF LoopInv, InOnePlace
<1>9. DoneTells'
  <2>0. /\ Queued \subseteq Requests /\ Resumed \subseteq Requests /\ Prefilled \subseteq Requests
        /\ running \subseteq Requests /\ \A c \in inflight : c.req \in Requests /\ c.req \in InStages
    BY Located
  <2>1. \A q \in Queued' : done'[q] = 0
    BY <1>2, <1>4, <2>0 DEF LoopInv, DoneTells
  <2>2. \A q \in Resumed' : done'[q] > 0 /\ done'[q] < NumChunks[q]
    BY <1>3, <1>4, <1>5, <2>0 DEF LoopInv, DoneTells
  <2>3. \A c \in inflight' :
          /\ done'[c.req] > 0 /\ done'[c.req] <= NumChunks[c.req]
          /\ c.next = IF done'[c.req] < NumChunks[c.req] THEN c.req ELSE None
    BY <1>1, <1>4, <1>5, <2>0 DEF LoopInv, DoneTells
  <2>4. \A q \in Live(running)' \cup Live(Prefilled)' : done'[q] = NumChunks[q]
    <3>1. Live(running)' = Live(running) /\ Live(Prefilled)' = Live(Prefilled)
      BY <1>1, <1>3, <1>4, <2>0 DEF Live
    <3>2. r \notin Live(running) /\ r \notin Live(Prefilled)
      BY <1>4, <2>0 DEF Live
    <3> QED
      BY <1>4, <2>0, <3>1, <3>2 DEF LoopInv, DoneTells, Live
  <2> QED
    BY <1>3, <2>1, <2>2, <2>3, <2>4 DEF DoneTells
<1>10. FewServed'
  <2>1. Served' \subseteq Served
    BY <1>4 DEF Served, HoldsSlot
  <2> QED
    BY <2>1, FewerServed DEF LoopInv
<1> QED
  BY <1>6, <1>7, <1>8, <1>9, <1>10 DEF LoopInv

(* Nothing is served anew when no request changes.                          *)
LEMMA SameServed ==
  ASSUME LoopInv, UNCHANGED <<done, fate>>
  PROVE  FewServed'
<1>1. Served' \subseteq Served
  BY DEF Served, HoldsSlot
<1> QED
  BY <1>1, FewerServed DEF LoopInv

(* An abort takes a request out of the queue, or marks it where it is.      *)
LEMMA AbortKeeps ==
  ASSUME LoopInv, NEW r \in Requests, Abort(r)
  PROVE  LoopInv'
<1>1. /\ UNCHANGED <<pc, paused, chunked, pending, inflight, running, full, batch, last, cur,
                     done, tokens>>
      /\ pc = "receive" /\ fate[r] = "live" /\ to_finish' \in SUBSET Requests
      /\ IF r \in Queued
         THEN /\ waiting' = Those(waiting, {i \in DOMAIN waiting : waiting[i] # r})
              /\ fate' = [fate EXCEPT ![r] = "aborted"]
         ELSE UNCHANGED <<waiting, fate>>
  BY DEF Abort, Queued, LoopInv, LoopTypeOK
<1>2. /\ Resumed' = Resumed /\ InStages' = InStages /\ Prefilled' = Prefilled
      /\ Held = {} /\ Held' = {}
  BY <1>1 DEF Resumed, InStages, Prefilled, Held
<1>3. /\ Queued \subseteq Requests /\ Resumed \subseteq Requests /\ Prefilled \subseteq Requests
      /\ running \subseteq Requests /\ \A c \in inflight : c.req \in Requests /\ c.req \in InStages
  BY Located
<1>4. CASE r \notin Queued
  <2>1. UNCHANGED <<waiting, fate>> /\ Queued' = Queued
    BY <1>1, <1>4 DEF Queued
  <2>2. /\ Live(Requests)' = Live(Requests) /\ Live(running)' = Live(running)
        /\ Live(Prefilled)' = Live(Prefilled)
    BY <1>1, <1>2, <2>1 DEF Live
  <2>3. LoopTypeOK'
    BY <1>1, <2>1 DEF LoopInv, LoopTypeOK
  <2>4. BatchFits' /\ RoomForOne'
    BY <1>1, <2>1 DEF LoopInv, BatchFits, RoomForOne
  <2>5. InOnePlace'
    BY <1>1, <1>2, <2>1, <2>2 DEF LoopInv, InOnePlace
  <2>6. DoneTells'
    BY <1>1, <1>2, <2>1, <2>2 DEF LoopInv, DoneTells
  <2> QED
    BY <1>1, <2>1, <2>3, <2>4, <2>5, <2>6, SameServed DEF LoopInv
<1>5. CASE r \in Queued
  <2>1. /\ waiting' = Those(waiting, {i \in DOMAIN waiting : waiting[i] # r})
        /\ fate' = [fate EXCEPT ![r] = "aborted"]
    BY <1>1, <1>5
  <2>2. /\ waiting' \in Seq(Requests) /\ Queued' = Queued \ {r}
        /\ InjectiveSeq(waiting) => InjectiveSeq(waiting')
    <3> DEFINE I == {i \in DOMAIN waiting : waiting[i] # r}
    <3>1. waiting \in Seq(Requests) /\ I \in SUBSET DOMAIN waiting
      BY DEF LoopInv, LoopTypeOK
    <3>2. {waiting[i] : i \in I} = Queued \ {r}
      BY DEF Queued, ToSet
    <3> HIDE DEF I
    <3>3. /\ Those(waiting, I) \in Seq(Requests)
          /\ ToSet(Those(waiting, I)) = {waiting[i] : i \in I}
          /\ InjectiveSeq(waiting) => InjectiveSeq(Those(waiting, I))
      BY <3>1, ThoseAre DEF InjectiveSeq
    <3>4. waiting' = Those(waiting, I)
      BY <2>1 DEF I
    <3> QED
      BY <3>2, <3>3, <3>4 DEF Queued
  <2>3. r \notin Resumed /\ r \notin InStages /\ r \notin running /\ r \notin Prefilled
    BY <1>5 DEF LoopInv, InOnePlace, Apart
  <2>4. /\ Live(Requests)' = Live(Requests) \ {r}
        /\ Live(running)' = Live(running) /\ Live(Prefilled)' = Live(Prefilled)
    BY <1>1, <1>2, <1>3, <2>1, <2>3 DEF Live, LoopInv, LoopTypeOK
  <2>5. LoopTypeOK'
    BY <1>1, <2>1, <2>2 DEF LoopInv, LoopTypeOK
  <2>6. BatchFits' /\ RoomForOne'
    BY <1>1 DEF LoopInv, BatchFits, RoomForOne
  <2>7. InOnePlace'
    <3>1. Apart(Queued, Resumed, InStages, running, Prefilled, Held, Live(Requests))'
      BY <1>1, <1>2, <2>2, <2>3, <2>4 DEF LoopInv, InOnePlace, Apart
    <3> QED
      BY <1>1, <2>2, <3>1 DEF LoopInv, InOnePlace
  <2>8. DoneTells'
    BY <1>1, <1>2, <2>2, <2>4 DEF LoopInv, DoneTells
  <2>9. Served' \subseteq Served
    BY <1>1, <2>1 DEF LoopInv, LoopTypeOK, Served, HoldsSlot
  <2> QED
    BY <2>5, <2>6, <2>7, <2>8, <2>9, FewerServed DEF LoopInv
<1> QED
  BY <1>4, <1>5

(* What ran last, at a pause, is no continuation, unless pauses fall        *)
(* anywhere.                                                                *)
LEMMA PauseMerges ==
  ASSUME LoopInv, Pauses, AnyPause = FALSE
  PROVE  /\ pc = "receive" /\ chunked = None /\ last' = NoLast /\ cur' = {}
         /\ Prefilled = IF last.kind = "prefill" THEN last.reqs ELSE {}
         /\ Merged({chunked}) = Live(Prefilled) /\ Merged({}) = Live(Prefilled)
         /\ IsFiniteSet(Live(running)) /\ IsFiniteSet(Live(Prefilled))
<1>1. /\ pc = "receive" /\ last' = NoLast /\ cur' = {}
      /\ last.kind # "prefill" \/ last.reqs \cap ToSet(pending) = {}
  BY DEF Pauses, PauseAllowed
<1>2. chunked = None
  BY <1>1 DEF LoopInv, RoomForOne
<1>3. Prefilled = IF last.kind = "prefill" THEN last.reqs ELSE {}
  BY <1>1 DEF Prefilled
<1>4. Merged({chunked}) = Live(Prefilled) /\ Merged({}) = Live(Prefilled)
  <2>1. \A r \in last.reqs : r # chunked
    BY <1>2, Limits DEF LoopInv, LoopTypeOK
  <2> QED
    BY <1>3, <2>1 DEF Merged, Live
<1>5. /\ IsFiniteSet(running) /\ IsFiniteSet(last.reqs)
      /\ Live(running) \subseteq running /\ Live(Prefilled) \subseteq last.reqs
  BY <1>3 DEF LoopInv, LoopTypeOK, Live
<1> QED
  BY <1>1, <1>2, <1>3, <1>4, <1>5, FS_Subset

(* A pause in place.                                                        *)
LEMMA PauseInPlaceKeeps ==
  ASSUME LoopInv, PauseInPlace, AnyPause = FALSE
  PROVE  LoopInv'
<1>1. /\ UNCHANGED <<pc, waiting, chunked, pending, inflight, full, batch, done, tokens, fate,
                     to_finish>>
      /\ pc = "receive" /\ chunked = None /\ last' = NoLast /\ cur' = {}
      /\ running' = running \cup Live(Prefilled) /\ IsFiniteSet(Live(Prefilled))
  BY PauseMerges DEF PauseInPlace, reqvars
<1>2. /\ Queued' = Queued /\ Resumed' = Resumed /\ InStages' = InStages /\ Prefilled' = {}
      /\ Held = {} /\ Held' = {} /\ Live(Requests)' = Live(Requests)
      /\ Live(running)' = Live(running) \cup Live(Prefilled) /\ Live(Prefilled)' = {}
      /\ Live(Prefilled) \subseteq Prefilled /\ \A r \in Prefilled \cap Live(Requests) : r \in Live(Prefilled)
  BY <1>1 DEF Queued, Resumed, InStages, Prefilled, Held, Live, NoLast
<1>3. LoopTypeOK'
  <2>1. IsFiniteSet(running') /\ running' \in SUBSET Requests
    BY <1>1, <1>2, Located, FS_Union DEF LoopInv, LoopTypeOK
  <2>2. last' \in [kind : {"none", "prefill", "decode"}, reqs : SUBSET Requests] /\ IsFiniteSet(last'.reqs)
    BY <1>1, FS_EmptySet DEF NoLast
  <2> QED
    BY <1>1, <2>1, <2>2 DEF LoopInv, LoopTypeOK
<1>4. BatchFits' /\ RoomForOne'
  BY <1>1 DEF LoopInv, BatchFits, RoomForOne, NoLast
<1>5. InOnePlace'
  <2>1. Apart(Queued, Resumed, InStages, running, Prefilled, Held, Live(Requests))'
    BY <1>1, <1>2 DEF LoopInv, InOnePlace, Apart
  <2> QED
    BY <1>1, <2>1 DEF LoopInv, InOnePlace
<1>6. DoneTells'
  BY <1>1, <1>2 DEF LoopInv, DoneTells
<1> QED
  BY <1>1, <1>3, <1>4, <1>5, <1>6, SameServed DEF LoopInv

(* A pause that retracts.                                                   *)
LEMMA PauseAndRetractKeeps ==
  ASSUME LoopInv, PauseAndRetract, AnyPause = FALSE
  PROVE  LoopInv'
<1> DEFINE back == Live(running) \cup Live(Prefilled)
<1>1. /\ UNCHANGED <<pc, pending, inflight, batch, tokens, fate, to_finish>>
      /\ pc = "receive" /\ chunked' = None /\ last' = NoLast /\ cur' = {} /\ running' = {}
      /\ done' = [r \in Requests |-> IF r \in back THEN 0 ELSE done[r]]
      /\ IsFiniteSet(back)
  BY PauseMerges, FS_Union DEF PauseAndRetract
<1>2. PICK order \in SetToSeqs(back) : waiting' = waiting \o order
  BY PauseMerges DEF PauseAndRetract
<1>3. back \in SUBSET Requests /\ back \in SUBSET Live(Requests)
  BY Located DEF Live
<1>4. /\ \A r \in back : r \notin Queued /\ r \notin Resumed /\ r \notin InStages
      /\ \A r \in Live(Requests) \cap (running \cup Prefilled) : r \in back
  BY DEF Live, LoopInv, InOnePlace, Apart
<1>5. /\ waiting' \in Seq(Requests) /\ Queued' = Queued \cup back
      /\ InjectiveSeq(waiting) => InjectiveSeq(waiting')
  <2>1. order \in Seq(back) /\ ToSet(order) = back /\ InjectiveSeq(order)
    BY <1>1, <1>2, Orders
  <2>2. waiting \in Seq(Requests) /\ order \in Seq(Requests)
    BY <1>3, <2>1 DEF LoopInv, LoopTypeOK
  <2> QED
    BY <1>2, <1>4, <2>1, <2>2, Joins DEF Queued
<1>6. /\ Resumed' = Resumed /\ InStages' = InStages /\ Prefilled' = {}
      /\ Held = {} /\ Held' = {} /\ Live(Requests)' = Live(Requests)
      /\ Live(running)' = {} /\ Live(Prefilled)' = {}
  BY <1>1 DEF Resumed, InStages, Prefilled, Held, Live, NoLast
<1> HIDE DEF back
<1>7. LoopTypeOK'
  <2>1. done' \in [Requests -> Nat]
    BY <1>1 DEF LoopInv, LoopTypeOK
  <2>2. /\ last' \in [kind : {"none", "prefill", "decode"}, reqs : SUBSET Requests]
        /\ IsFiniteSet(last'.reqs) /\ IsFiniteSet(running')
    BY <1>1, FS_EmptySet DEF NoLast
  <2> QED
    BY <1>1, <1>5, <2>1, <2>2 DEF LoopInv, LoopTypeOK
<1>8. BatchFits' /\ RoomForOne'
  BY <1>1 DEF LoopInv, BatchFits, RoomForOne, NoLast
<1>9. InOnePlace'
  <2>1. Apart(Queued, Resumed, InStages, running, Prefilled, Held, Live(Requests))'
    BY <1>1, <1>3, <1>4, <1>5, <1>6 DEF LoopInv, InOnePlace, Apart
  <2> QED
    BY <1>1, <1>5, <2>1 DEF LoopInv, InOnePlace
<1>10. DoneTells'
  <2>0. /\ Queued \subseteq Requests /\ Resumed \subseteq Requests
        /\ \A c \in inflight : c.req \in Requests /\ c.req \in InStages
    BY Located
  <2>1. \A r \in Queued' : done'[r] = 0
    BY <1>1, <1>3, <1>5, <2>0 DEF LoopInv, DoneTells
  <2>2. \A r \in Resumed' : done'[r] > 0 /\ done'[r] < NumChunks[r]
    BY <1>1, <1>4, <1>6, <2>0 DEF LoopInv, DoneTells
  <2>3. \A c \in inflight' :
          /\ done'[c.req] > 0 /\ done'[c.req] <= NumChunks[c.req]
          /\ c.next = IF done'[c.req] < NumChunks[c.req] THEN c.req ELSE None
    BY <1>1, <1>4, <2>0 DEF LoopInv, DoneTells
  <2> QED
    BY <1>6, <2>1, <2>2, <2>3 DEF DoneTells
<1>11. FewServed'
  <2>1. Served' \subseteq Served
    BY <1>1 DEF Served, HoldsSlot
  <2> QED
    BY <2>1, FewerServed DEF LoopInv
<1> QED
  BY <1>7, <1>8, <1>9, <1>10, <1>11 DEF LoopInv

-----------------------------------------------------------------------------
(* One iteration. *)

(* A pause that ends.                                                       *)
LEMMA ContinueKeeps ==
  ASSUME LoopInv, Continue
  PROVE  LoopInv'
<1>1. /\ UNCHANGED <<pc, waiting, chunked, pending, inflight, running, full, batch, last, cur,
                     done, tokens, fate, to_finish>>
  BY DEF Continue, reqvars
<1>2. /\ Queued' = Queued /\ Resumed' = Resumed /\ InStages' = InStages /\ Prefilled' = Prefilled
      /\ Held' = Held /\ Live(Requests)' = Live(Requests)
      /\ Live(running)' = Live(running) /\ Live(Prefilled)' = Live(Prefilled)
  BY <1>1 DEF Queued, Resumed, InStages, Prefilled, Held, Live, Members
<1>3. LoopTypeOK' /\ BatchFits' /\ RoomForOne'
  <2>1. LoopTypeOK'
    BY <1>1 DEF LoopInv, LoopTypeOK
  <2>2. BatchFits'
    <3>1. Live(Requests)' = Live(Requests)
      BY <1>2
    <3> QED
      BY <1>1, <3>1 DEF LoopInv, BatchFits, Batch, InjectiveSeq
  <2>3. RoomForOne'
    BY <1>1 DEF LoopInv, RoomForOne
  <2> QED
    BY <2>1, <2>2, <2>3
<1>4. InOnePlace' /\ DoneTells'
  BY <1>1, <1>2 DEF LoopInv, InOnePlace, DoneTells, Apart
<1> QED
  BY <1>1, <1>3, <1>4, SameServed DEF LoopInv

(* The legacy path is asked only when a chunk can be admitted.              *)
LEMMA BeginIterationKeeps ==
  ASSUME LoopInv, BeginIteration
  PROVE  LoopInv'
<1>1. /\ UNCHANGED <<waiting, chunked, pending, inflight, running, full, batch, last, cur,
                     done, tokens, fate, to_finish>>
      /\ pc = "receive"
      /\ pc' = IF last.kind = "prefill" \/ CanAdmit \/ inflight = {} THEN "merge" ELSE "select"
  BY DEF BeginIteration, reqvars, MustMerge, HasReady
<1>2. pc' \in {"merge", "select"} /\ (pc' = "merge" => Cardinality(inflight) < MaxInflight)
  <2>1. CASE inflight = {}
    BY <1>1, <2>1, Limits, FS_EmptySet
  <2>2. CASE inflight # {}
    BY <1>1, <2>2 DEF CanAdmit, LoopInv, RoomForOne
  <2> QED
    BY <2>1, <2>2
<1>3. /\ Queued' = Queued /\ Resumed' = Resumed /\ InStages' = InStages /\ Prefilled' = Prefilled
      /\ Held = {} /\ Held' = {} /\ Live(Requests)' = Live(Requests)
      /\ Live(running)' = Live(running) /\ Live(Prefilled)' = Live(Prefilled)
  BY <1>1 DEF Queued, Resumed, InStages, Prefilled, Held, Live
<1>4. LoopTypeOK'
  BY <1>1 DEF LoopInv, LoopTypeOK
<1>5. BatchFits' /\ RoomForOne'
  BY <1>1, <1>2 DEF LoopInv, BatchFits, RoomForOne
<1>6. InOnePlace'
  BY <1>1, <1>3 DEF LoopInv, InOnePlace
<1>7. DoneTells'
  BY <1>1, <1>3 DEF LoopInv, DoneTells
<1> QED
  BY <1>1, <1>4, <1>5, <1>6, <1>7, SameServed DEF LoopInv

(* One continuation is restored; what else ran last and lives starts to     *)
(* decode.                                                                  *)
LEMMA MergeKeeps ==
  ASSUME LoopInv, Merge
  PROVE  LoopInv'
<1>1. /\ UNCHANGED <<waiting, inflight, batch, last, cur, done, tokens, fate, to_finish>>
      /\ pc = "merge" /\ pc' = "prefill" /\ chunked = None
      /\ running' = running \cup Merged(ContinuationsExcluded)
      /\ IF pending # <<>> THEN chunked' = Head(pending) /\ pending' = Tail(pending)
         ELSE chunked' = None /\ pending' = pending
  BY DEF Merge, Activates, LoopInv, RoomForOne, reqvars
<1>2. Merged(ContinuationsExcluded) = Live(Prefilled)
  <2>1. \A r \in last.reqs : r # chunked
    BY <1>1, Limits DEF LoopInv, LoopTypeOK
  <2> QED
    BY <1>1, <2>1 DEF Merged, ContinuationsExcluded, Prefilled, Live
<1>3. pending \in Seq(Requests) /\ InjectiveSeq(pending)
  BY DEF LoopInv, LoopTypeOK, InOnePlace
<1>4. /\ pending' \in Seq(Requests) /\ chunked' \in Requests \cup {None} /\ InjectiveSeq(pending')
      /\ Held' \subseteq Resumed /\ Resumed' = Resumed \ Held'
      /\ chunked' = None => pending' = <<>>
  <2>1. CASE pending = <<>>
    BY <1>1, <1>3, <2>1 DEF Held, Resumed
  <2>2. CASE pending # <<>>
    <3>1. /\ Head(pending) \in Requests /\ Head(pending) \in Resumed /\ Tail(pending) \in Seq(Requests)
          /\ InjectiveSeq(Tail(pending)) /\ ToSet(Tail(pending)) = Resumed \ {Head(pending)}
      BY <1>3, <2>2, TakesFirst DEF Resumed
    <3>2. Held' = {Head(pending)}
      BY <1>1, <2>2, <3>1, Limits DEF Held
    <3> QED
      BY <1>1, <2>2, <3>1, <3>2, Limits DEF Resumed
  <2> QED
    BY <2>1, <2>2
<1>5. /\ Queued' = Queued /\ InStages' = InStages /\ Prefilled' = {} /\ Held = {}
      /\ Live(Requests)' = Live(Requests)
      /\ Live(running)' = Live(running) \cup Live(Prefilled) /\ Live(Prefilled)' = {}
      /\ Live(Prefilled) \subseteq Prefilled /\ \A r \in Prefilled \cap Live(Requests) : r \in Live(Prefilled)
  BY <1>1, <1>2 DEF Queued, InStages, Prefilled, Held, Live
<1>6. running' \in SUBSET Requests /\ IsFiniteSet(running')
  <2>1. Live(Prefilled) \subseteq last.reqs /\ IsFiniteSet(last.reqs) /\ IsFiniteSet(running)
    BY DEF Live, Prefilled, LoopInv, LoopTypeOK
  <2>2. IsFiniteSet(Live(Prefilled))
    BY <2>1, FS_Subset
  <2> QED
    BY <1>1, <1>2, <1>5, <2>1, <2>2, Located, FS_Union
<1>7. LoopTypeOK'
  BY <1>1, <1>4, <1>6 DEF LoopInv, LoopTypeOK
<1>8. BatchFits' /\ RoomForOne'
  BY <1>1, <1>4 DEF LoopInv, BatchFits, RoomForOne
<1>9. InOnePlace'
  <2>1. Apart(Queued, Resumed, InStages, running, Prefilled, Held, Live(Requests))'
    BY <1>1, <1>2, <1>4, <1>5 DEF LoopInv, InOnePlace, Apart
  <2> QED
    BY <1>1, <1>4, <2>1 DEF LoopInv, InOnePlace
<1>10. DoneTells'
  <2>1. \A r \in Resumed : done[r] \in Nat /\ NumChunks[r] \in Nat
    BY Located, Limits DEF LoopInv, LoopTypeOK
  <2>2. \A r \in Held' : /\ done'[r] > 0 /\ done'[r] <= NumChunks[r] /\ done'[r] < NumChunks[r]
    BY <1>1, <1>4, <2>1 DEF LoopInv, DoneTells
  <2> QED
    BY <1>1, <1>4, <1>5, <2>2 DEF LoopInv, DoneTells
<1> QED
  BY <1>1, <1>7, <1>8, <1>9, <1>10, SameServed DEF LoopInv

(* A prefill that adds nothing.                                             *)
LEMMA RejectsKeeps ==
  ASSUME LoopInv, NothingToAdd \/ BatchIsFull \/ NoToken
  PROVE  LoopInv'
<1>1. /\ UNCHANGED <<waiting, chunked, pending, inflight, running, batch, last, cur,
                     done, tokens, fate, to_finish>>
      /\ pc = "prefill" /\ pc' = "decode" /\ chunked = None
  BY DEF NothingToAdd, BatchIsFull, NoToken, Rejects, reqvars
<1>2. /\ Queued' = Queued /\ Resumed' = Resumed /\ InStages' = InStages
      /\ Prefilled = {} /\ Prefilled' = {} /\ Held = {} /\ Held' = {}
      /\ Live(Requests)' = Live(Requests) /\ Live(running)' = Live(running)
      /\ Live(Prefilled)' = Live(Prefilled)
  BY <1>1 DEF Queued, Resumed, InStages, Prefilled, Held, Live
<1>3. LoopTypeOK'
  BY <1>1 DEF LoopInv, LoopTypeOK
<1>4. BatchFits' /\ RoomForOne'
  BY <1>1 DEF LoopInv, BatchFits, RoomForOne
<1>5. InOnePlace' /\ DoneTells'
  BY <1>1, <1>2 DEF LoopInv, InOnePlace, DoneTells
<1> QED
  BY <1>1, <1>3, <1>4, <1>5, SameServed DEF LoopInv

(* The request whose chunk a batch takes is the one that is held.           *)
LEMMA TakesKeeps ==
  ASSUME LoopInv, pc = "prefill", NEW r \in Requests, NEW rest, NEW looks \in BOOLEAN,
         TakesChunkOf(r, rest, looks), done[r] < NumChunks[r],
         rest \in Seq(Requests), InjectiveSeq(rest),
         ToSet(rest) = Queued \ {r}, Held = {r} \/ (Held = {} /\ r \in Queued)
  PROVE  LoopTypeOK' /\ BatchFits' /\ RoomForOne' /\ InOnePlace' /\ DoneTells'
<1>1. /\ UNCHANGED <<pending, inflight, running, last, cur, tokens, fate, to_finish>>
      /\ done' = [done EXCEPT ![r] = @ + 1]
      /\ chunked' = IF done[r] + 1 < NumChunks[r] THEN r ELSE None
      /\ batch' = Batch("prefill", <<[req |-> r]>>) /\ waiting' = rest /\ pc' = "admit"
  BY DEF TakesChunkOf, HasMore
<1>2. Members(batch') = {r}
  <2>1. batch'.members = <<[req |-> r]>>
    BY <1>1 DEF Batch
  <2>2. DOMAIN batch'.members = {1} /\ batch'.members[1].req = r
    BY <2>1
  <2> QED
    BY <2>2 DEF Members
<1>3. /\ Queued' = Queued \ {r} /\ Resumed' = Resumed /\ InStages' = InStages
      /\ Prefilled = {} /\ Prefilled' = {} /\ Held' = {r}
      /\ Live(Requests)' = Live(Requests) /\ Live(running)' = Live(running) /\ Live(Prefilled)' = {}
  BY <1>1, <1>2 DEF Queued, Resumed, InStages, Prefilled, Held, Live, Members
<1>4. /\ r \notin Resumed /\ r \notin InStages /\ r \notin running
      /\ r \in Live(Requests)
  BY DEF LoopInv, InOnePlace, Apart
<1>5. /\ \A q \in Requests \ {r} : done'[q] = done[q]
      /\ done[r] \in Nat /\ done'[r] = done[r] + 1 /\ NumChunks[r] \in Nat
      /\ done' \in [Requests -> Nat]
  <2>1. done \in [Requests -> Nat] /\ NumChunks \in [Requests -> Nat]
    BY Limits DEF LoopInv, LoopTypeOK
  <2>2. done[r] \in Nat /\ NumChunks[r] \in Nat /\ done[r] + 1 \in Nat
    BY <2>1
  <2>3. done' = [done EXCEPT ![r] = done[r] + 1]
    BY <1>1
  <2> QED
    BY <2>1, <2>2, <2>3
<1>6. LoopTypeOK'
  BY <1>1, <1>5 DEF LoopInv, LoopTypeOK
<1>7. BatchFits' /\ RoomForOne'
  <2>1. batch' = Batch("prefill", <<[req |-> r]>>)' /\ chunked' = IF done'[r] < NumChunks[r] THEN r ELSE None
    BY <1>1, <1>5 DEF Batch
  <2>2. BatchFits'
    BY <1>1, <2>1 DEF BatchFits
  <2> QED
    BY <1>1, <2>2 DEF LoopInv, RoomForOne
<1>8. InOnePlace'
  <2>1. Apart(Queued, Resumed, InStages, running, Prefilled, Held, Live(Requests))'
    BY <1>1, <1>3, <1>4 DEF LoopInv, InOnePlace, Apart
  <2> QED
    BY <1>1, <2>1 DEF LoopInv, InOnePlace
<1>9. DoneTells'
  <2>0. /\ Queued \subseteq Requests /\ Resumed \subseteq Requests /\ running \subseteq Requests
        /\ \A c \in inflight : c.req \in Requests /\ c.req \in InStages
    BY Located
  <2>1. \A q \in Queued' : done'[q] = 0
    BY <1>3, <1>5, <2>0 DEF LoopInv, DoneTells
  <2>2. \A q \in Resumed' : done'[q] > 0 /\ done'[q] < NumChunks[q]
    BY <1>3, <1>4, <1>5, <2>0 DEF LoopInv, DoneTells
  <2>3. \A c \in inflight' :
          /\ done'[c.req] > 0 /\ done'[c.req] <= NumChunks[c.req]
          /\ c.next = IF done'[c.req] < NumChunks[c.req] THEN c.req ELSE None
    BY <1>1, <1>4, <1>5, <2>0 DEF LoopInv, DoneTells
  <2>4. \A q \in Live(running)' \cup Live(Prefilled)' : done'[q] = NumChunks[q]
    <3>1. \A q \in Live(running) : q \in Requests \ {r}
      BY <1>4, <2>0 DEF Live
    <3> QED
      BY <1>3, <1>5, <3>1 DEF LoopInv, DoneTells
  <2>5. \A q \in Held' : done'[q] > 0 /\ done'[q] <= NumChunks[q]
    BY <1>3, <1>5
  <2> QED
    BY <1>1, <1>3, <2>1, <2>2, <2>3, <2>4, <2>5 DEF DoneTells
<1> QED
  BY <1>6, <1>7, <1>8, <1>9

(* The batch takes the next chunk of the continuation.                      *)
LEMMA AddChunkedKeeps ==
  ASSUME LoopInv, AddChunked
  PROVE  LoopInv'
<1>1. /\ pc = "prefill" /\ chunked \in Requests /\ TakesChunkOf(chunked, waiting, TRUE)
      /\ Held = {chunked}
  BY Limits DEF AddChunked, LoopInv, LoopTypeOK, Held
<1>2. done[chunked] < NumChunks[chunked] /\ done[chunked] > 0
  BY <1>1 DEF LoopInv, DoneTells
<1>3. waiting \in Seq(Requests) /\ InjectiveSeq(waiting) /\ ToSet(waiting) = Queued \ {chunked}
  BY <1>1 DEF LoopInv, LoopTypeOK, InOnePlace, Apart, Queued
<1>4. LoopTypeOK' /\ BatchFits' /\ RoomForOne' /\ InOnePlace' /\ DoneTells'
  BY <1>1, <1>2, <1>3, TakesKeeps
<1>5. Served' \subseteq Served
  BY <1>1, <1>2 DEF TakesChunkOf, Served, HoldsSlot, LoopInv, LoopTypeOK
<1> QED
  BY <1>4, <1>5, FewerServed DEF LoopInv

(* What is served before a new request is: what runs and what is in the     *)
(* stages, each one fewer than its limit.                                   *)
LEMMA RoomToServe ==
  ASSUME LoopInv, pc = "prefill", chunked = None, Cardinality(running) < MaxRunning
  PROVE  IsFiniteSet(Served) /\ Cardinality(Served) <= MaxRunning + MaxInflight - 2
<1>1. Served \subseteq running \cup InStages
  <2>1. pending = <<>>
    BY DEF LoopInv, RoomForOne
  <2>2. Resumed = {} /\ Held = {} /\ Prefilled = {}
    BY <2>1 DEF Resumed, ToSet, Held, Prefilled
  <2>3. Served \subseteq Live(Requests) /\ \A r \in Served : done[r] > 0
    BY DEF Served, HoldsSlot, Live
  <2>4. \A r \in Served : r \notin Queued
    BY <2>3 DEF LoopInv, DoneTells
  <2> QED
    BY <2>2, <2>3, <2>4 DEF LoopInv, InOnePlace, Apart
<1>2. /\ IsFiniteSet(running) /\ IsFiniteSet(inflight) /\ Cardinality(inflight) < MaxInflight
      /\ \A c, d \in inflight : c.req = d.req => c = d
  BY DEF LoopInv, LoopTypeOK, RoomForOne, InOnePlace
<1>3. /\ IsFiniteSet(InStages) /\ Cardinality(InStages) = Cardinality(inflight)
      /\ Cardinality(inflight) \in Nat /\ Cardinality(running) \in Nat
  BY <1>2, ReqsCounted, FS_CardinalityType DEF InStages, Reqs
<1>4. /\ IsFiniteSet(running \cup InStages)
      /\ Cardinality(running \cup InStages) <= Cardinality(running) + Cardinality(InStages)
  <2>1. /\ IsFiniteSet(running \cup InStages)
        /\ Cardinality(running \cup InStages) =
             Cardinality(running) + Cardinality(InStages) - Cardinality(running \cap InStages)
    BY <1>2, <1>3, FS_Union
  <2>2. IsFiniteSet(running \cap InStages)
    BY <1>2, FS_Intersection
  <2>3. Cardinality(running \cap InStages) \in Nat
    BY <2>2, FS_CardinalityType
  <2> QED
    BY <1>3, <2>1, <2>3
<1>5. /\ IsFiniteSet(Served) /\ Cardinality(Served) \in Nat
      /\ Cardinality(Served) <= Cardinality(running \cup InStages)
      /\ Cardinality(running \cup InStages) \in Nat
  BY <1>1, <1>4, FS_Subset, FS_CardinalityType
<1> QED
  BY <1>2, <1>3, <1>4, <1>5, Limits

(* The batch takes the first chunk of a waiting request.                    *)
LEMMA AddWaitingKeeps ==
  ASSUME LoopInv, AddWaiting
  PROVE  LoopInv'
<1> DEFINE r == Head(waiting)
<1>0. PICK looks \in BOOLEAN : TakesChunkOf(r, Tail(waiting), looks)
  BY DEF AddWaiting
<1>1. /\ pc = "prefill" /\ chunked = None /\ waiting # <<>> /\ TakesChunkOf(r, Tail(waiting), looks)
      /\ MaxRunning - Cardinality(running) > 0
  BY <1>0 DEF AddWaiting, HasRoom, Allocatable
<1>2. waiting \in Seq(Requests) /\ InjectiveSeq(waiting)
  BY DEF LoopInv, LoopTypeOK, InOnePlace
<1>3. /\ r \in Requests /\ r \in Queued /\ Tail(waiting) \in Seq(Requests)
      /\ InjectiveSeq(Tail(waiting)) /\ ToSet(Tail(waiting)) = Queued \ {r}
  BY <1>1, <1>2, TakesFirst DEF Queued
<1> HIDE DEF r
<1>4. done[r] = 0 /\ done[r] < NumChunks[r]
  BY <1>3, Limits DEF LoopInv, DoneTells
<1>5. Held = {}
  BY <1>1 DEF Held
<1>6. LoopTypeOK' /\ BatchFits' /\ RoomForOne' /\ InOnePlace' /\ DoneTells'
  BY <1>1, <1>3, <1>4, <1>5, TakesKeeps
<1>7. FewServed'
  <2>1. Cardinality(running) < MaxRunning
    <3>1. Cardinality(running) \in Nat
      BY FS_CardinalityType DEF LoopInv, LoopTypeOK
    <3> QED
      BY <1>1, <3>1, Limits
  <2>2. IsFiniteSet(Served) /\ Cardinality(Served) <= MaxRunning + MaxInflight - 2
    BY <1>1, <2>1, RoomToServe
  <2>3. Served' \in SUBSET (Served \cup {r})
    BY <1>1 DEF TakesChunkOf, Served, HoldsSlot, LoopInv, LoopTypeOK
  <2>4. IsFiniteSet(Served \cup {r}) /\ Cardinality(Served \cup {r}) <= Cardinality(Served) + 1
    <3>1. Cardinality(Served) \in Nat
      BY <2>2, FS_CardinalityType
    <3> QED
      BY <2>2, <3>1, FS_AddElement
  <2>5. /\ IsFiniteSet(Served') /\ Cardinality(Served') <= Cardinality(Served \cup {r})
        /\ Cardinality(Served') \in Nat /\ Cardinality(Served \cup {r}) \in Nat
        /\ Cardinality(Served) \in Nat
    BY <2>2, <2>3, <2>4, FS_Subset, FS_CardinalityType
  <2>6. Cardinality(Served') <= MaxRunning + MaxInflight - 1
    BY <2>2, <2>4, <2>5, Limits
  <2> QED
    BY <2>5, <2>6 DEF FewServed, SlotsBounded, Served
<1> QED
  BY <1>6, <1>7 DEF LoopInv

(* What the decode batch keeps and drops leaves all where it is, but for a  *)
(* request that is retracted.                                               *)
LEMMA DecodeKeeps ==
  ASSUME LoopInv, pc = "decode",
         UNCHANGED <<waiting, chunked, pending, inflight, last, cur, done, tokens, fate, to_finish>>,
         \/ pc' = "select" /\ running' = {} /\ Live(running) = {}
         \/ pc' = "run" /\ running' = Live(running) /\ batch' = Batch("decode", <<>>)
  PROVE  LoopInv'
<1>1. /\ Queued' = Queued /\ Resumed' = Resumed /\ InStages' = InStages
      /\ Prefilled = {} /\ Prefilled' = {} /\ Held = {} /\ Held' = {}
      /\ Live(Requests)' = Live(Requests) /\ running' = Live(running) /\ Live(running)' = Live(running)
      /\ Live(running) \subseteq running /\ Live(running) = running \cap Live(Requests)
      /\ Live(Prefilled)' = {}
  BY Located DEF Queued, Resumed, InStages, Prefilled, Held, Live
<1>2. LoopTypeOK'
  <2>1. running' \in SUBSET Requests /\ IsFiniteSet(running')
    BY <1>1, FS_Subset DEF LoopInv, LoopTypeOK
  <2> QED
    BY <2>1 DEF LoopInv, LoopTypeOK
<1>3. BatchFits' /\ RoomForOne'
  BY <1>1 DEF LoopInv, BatchFits, RoomForOne, Batch
<1>4. InOnePlace'
  <2>1. Apart(Queued, Resumed, InStages, running, Prefilled, Held, Live(Requests))'
    BY <1>1 DEF LoopInv, InOnePlace, Apart
  <2> QED
    BY <2>1 DEF LoopInv, InOnePlace
<1>5. DoneTells'
  BY <1>1 DEF LoopInv, DoneTells
<1> QED
  BY <1>2, <1>3, <1>4, <1>5, SameServed DEF LoopInv

(* A request of the decode batch goes back to the queue.                    *)
LEMMA RetractDecodeKeeps ==
  ASSUME LoopInv, RetractDecode
  PROVE  LoopInv'
<1>1. PICK r \in Live(running) :
         /\ DecodeOn(Live(running) \ {r})
         /\ waiting' = Append(waiting, r)
         /\ done' = [done EXCEPT ![r] = 0]
  BY DEF RetractDecode
<1>2. /\ UNCHANGED <<chunked, pending, inflight, last, cur, tokens, fate, to_finish>>
      /\ pc = "decode" /\ pc' = "run" /\ running' = Live(running) \ {r}
      /\ batch' = Batch("decode", <<>>)
  BY <1>1 DEF DecodeOn, RetractDecode
<1>3. /\ r \in running /\ r \in Requests /\ r \in Live(Requests)
      /\ r \notin Queued /\ r \notin Resumed /\ r \notin InStages
  BY Located DEF Live, LoopInv, InOnePlace, Apart
<1>4. /\ waiting' \in Seq(Requests) /\ Queued' = Queued \cup {r}
      /\ InjectiveSeq(waiting) => InjectiveSeq(waiting')
  BY <1>1, <1>3, AppendsNew DEF LoopInv, LoopTypeOK, Queued
<1>5. /\ Resumed' = Resumed /\ InStages' = InStages
      /\ Prefilled = {} /\ Prefilled' = {} /\ Held = {} /\ Held' = {}
      /\ Live(Requests)' = Live(Requests) /\ Live(running)' = Live(running) \ {r}
      /\ Live(running) \subseteq running /\ Live(running) = running \cap Live(Requests)
      /\ Live(Prefilled)' = {}
  BY <1>2, Located DEF Resumed, InStages, Prefilled, Held, Live
<1>6. \A q \in Requests \ {r} : done'[q] = done[q]
  BY <1>1 DEF LoopInv, LoopTypeOK
<1>7. LoopTypeOK'
  <2>1. running' \in SUBSET Requests /\ running' \in SUBSET running
    BY <1>2, <1>5, Located
  <2>2. IsFiniteSet(running')
    BY <2>1, FS_Subset DEF LoopInv, LoopTypeOK
  <2>3. done' \in [Requests -> Nat]
    BY <1>1 DEF LoopInv, LoopTypeOK
  <2> QED
    BY <1>2, <1>4, <2>1, <2>2, <2>3 DEF LoopInv, LoopTypeOK
<1>8. BatchFits' /\ RoomForOne'
  <2>1. running' \subseteq Live(Requests)'
    BY <1>2, <1>5
  <2> QED
    BY <1>2, <2>1 DEF LoopInv, BatchFits, RoomForOne, Batch
<1>9. InOnePlace'
  <2>1. Apart(Queued, Resumed, InStages, running, Prefilled, Held, Live(Requests))'
    BY <1>2, <1>3, <1>4, <1>5 DEF LoopInv, InOnePlace, Apart
  <2> QED
    BY <1>2, <1>3, <1>4, <2>1 DEF LoopInv, InOnePlace
<1>10. DoneTells'
  <2>0. /\ Queued \subseteq Requests /\ Resumed \subseteq Requests /\ running \subseteq Requests
        /\ \A c \in inflight : c.req \in Requests /\ c.req \in InStages
    BY Located
  <2>1. \A q \in Queued' : done'[q] = 0
    BY <1>1, <1>3, <1>4, <1>6, <2>0 DEF LoopInv, DoneTells, LoopTypeOK
  <2>2. \A q \in Resumed' : done'[q] > 0 /\ done'[q] < NumChunks[q]
    BY <1>3, <1>5, <1>6, <2>0 DEF LoopInv, DoneTells
  <2>3. \A c \in inflight' :
          /\ done'[c.req] > 0 /\ done'[c.req] <= NumChunks[c.req]
          /\ c.next = IF done'[c.req] < NumChunks[c.req] THEN c.req ELSE None
    BY <1>2, <1>3, <1>6, <2>0 DEF LoopInv, DoneTells
  <2>4. \A q \in Live(running)' \cup Live(Prefilled)' : done'[q] = NumChunks[q]
    BY <1>5, <1>6, <2>0 DEF LoopInv, DoneTells
  <2> QED
    BY <1>5, <2>1, <2>2, <2>3, <2>4 DEF DoneTells
<1>11. FewServed'
  <2>1. Served' \subseteq Served
    BY <1>1, <1>2, <1>6 DEF Served, HoldsSlot, LoopInv, LoopTypeOK
  <2> QED
    BY <2>1, FewerServed DEF LoopInv
<1> QED
  BY <1>7, <1>8, <1>9, <1>10, <1>11 DEF LoopInv

(* The chunk that was added is admitted: there is room for it.              *)
LEMMA AdmitKeeps ==
  ASSUME LoopInv, Admit
  PROVE  LoopInv'
<1>1. /\ UNCHANGED <<waiting, pending, running, last, cur, done, tokens, fate, to_finish>>
      /\ pc = "admit" /\ chunked' = None /\ Cardinality(inflight) < MaxInflight
  BY DEF Admit, LoopInv, RoomForOne, reqvars
<1>2. PICK r \in Requests :
         /\ batch = Batch("prefill", <<[req |-> r]>>)
         /\ chunked = IF done[r] < NumChunks[r] THEN r ELSE None
  BY <1>1 DEF LoopInv, BatchFits
<1>3. batch.members[1].req = r /\ Members(batch) = {r} /\ Held = {r}
  <2>1. batch.members = <<[req |-> r]>>
    BY <1>2 DEF Batch
  <2>2. DOMAIN batch.members = {1} /\ batch.members[1].req = r
    BY <2>1
  <2> QED
    BY <1>1, <2>2 DEF Members, Held
<1> DEFINE c == [req |-> r, chunk |-> done[r], group |-> 0, next |-> chunked,
                 rows |-> RowsOf(r, Rows[r], 0)]
<1>4. inflight' = inflight \cup {c} /\ pc' = "select"
  BY <1>1, <1>3 DEF Admit
<1>5. IsChunk(c) /\ c.req = r /\ c.next = chunked
  BY DEF IsChunk
<1> HIDE DEF c
<1>6. /\ Queued' = Queued /\ Resumed' = Resumed /\ InStages' = InStages \cup {r}
      /\ Prefilled = {} /\ Prefilled' = {} /\ Held' = {}
      /\ Live(Requests)' = Live(Requests) /\ Live(running)' = Live(running) /\ Live(Prefilled)' = {}
  <2>1. InStages' = InStages \cup {r}
    BY <1>4, <1>5 DEF InStages
  <2> QED
    BY <1>1, <1>4, <2>1 DEF Queued, Resumed, Prefilled, Held, Live
<1>7. r \notin InStages /\ \A d \in inflight : d.req # r
  <2>1. r \notin InStages
    BY <1>3 DEF LoopInv, InOnePlace, Apart
  <2> QED
    BY <2>1 DEF InStages
<1>8. IsFiniteSet(inflight') /\ Cardinality(inflight') <= MaxInflight
  <2>1. IsFiniteSet(inflight) /\ Cardinality(inflight) \in Nat
    BY FS_CardinalityType DEF LoopInv, LoopTypeOK
  <2>2. IsFiniteSet(inflight') /\ Cardinality(inflight') = Cardinality(inflight) + 1
    <3>1. c \notin inflight
      BY <1>5, <1>7
    <3>2. /\ IsFiniteSet(inflight \cup {c})
          /\ Cardinality(inflight \cup {c}) =
               IF c \in inflight THEN Cardinality(inflight) ELSE Cardinality(inflight) + 1
      BY <2>1, FS_AddElement, Zenon
    <3> QED
      BY <1>4, <3>1, <3>2
  <2>3. Cardinality(inflight') \in Nat
    BY <2>2, FS_CardinalityType
  <2> QED
    BY <1>1, <2>1, <2>2, <2>3, Limits
<1>9. LoopTypeOK'
  BY <1>1, <1>4, <1>5, <1>8 DEF LoopInv, LoopTypeOK
<1>10. BatchFits' /\ RoomForOne'
  BY <1>1, <1>4, <1>8 DEF LoopInv, BatchFits, RoomForOne
<1>11. InOnePlace'
  <2>1. Apart(Queued, Resumed, InStages, running, Prefilled, Held, Live(Requests))'
    BY <1>1, <1>3, <1>6 DEF LoopInv, InOnePlace, Apart
  <2> QED
    BY <1>1, <1>4, <1>5, <1>7, <2>1 DEF LoopInv, InOnePlace
<1>12. DoneTells'
  <2>1. done[r] > 0 /\ done[r] <= NumChunks[r]
    BY <1>3 DEF LoopInv, DoneTells
  <2> QED
    BY <1>1, <1>2, <1>4, <1>5, <1>6, <2>1 DEF LoopInv, DoneTells
<1> QED
  BY <1>1, <1>9, <1>10, <1>11, <1>12, SameServed DEF LoopInv

(* A cohort of the chunks in the stages is chosen.                          *)
LEMMA SelectKeeps ==
  ASSUME LoopInv, Select
  PROVE  LoopInv'
<1>1. PICK c \in inflight : SelectWith(c)
  BY DEF Select
<1>2. /\ UNCHANGED <<waiting, chunked, pending, inflight, running, full, last, cur,
                     done, tokens, fate, to_finish>>
      /\ pc = "select" /\ pc' = "run"
  BY <1>1 DEF SelectWith, reqvars
<1>3. PICK seq \in Cohorts(c) : batch' = Batch("stage", seq)
  BY <1>1 DEF SelectWith
<1>4. PICK T \in SUBSET inflight : c \in T /\ seq \in SetToSeqs(T)
  BY <1>3 DEF Cohorts
<1>5. IsFiniteSet(T)
  BY <1>4, FS_Subset DEF LoopInv, LoopTypeOK
<1>6. seq \in Seq(inflight) /\ seq # <<>> /\ InjectiveSeq(seq)
  <2>1. seq \in Seq(T) /\ ToSet(seq) = T /\ InjectiveSeq(seq)
    BY <1>4, <1>5, Orders
  <2>2. seq # <<>>
    BY <1>4, <2>1 DEF ToSet
  <2> QED
    BY <2>1, <2>2
<1>7. /\ Queued' = Queued /\ Resumed' = Resumed /\ InStages' = InStages
      /\ Prefilled = {} /\ Prefilled' = {} /\ Held = {} /\ Held' = {}
      /\ Live(Requests)' = Live(Requests) /\ Live(running)' = Live(running)
      /\ Live(Prefilled)' = Live(Prefilled)
  BY <1>2 DEF Queued, Resumed, InStages, Prefilled, Held, Live
<1>8. LoopTypeOK'
  BY <1>2 DEF LoopInv, LoopTypeOK
<1>9. BatchFits' /\ RoomForOne'
  BY <1>2, <1>3, <1>6 DEF LoopInv, BatchFits, RoomForOne, Batch, InjectiveSeq
<1>10. InOnePlace'
  BY <1>2, <1>7 DEF LoopInv, InOnePlace
<1>11. DoneTells'
  BY <1>2, <1>7 DEF LoopInv, DoneTells
<1> QED
  BY <1>2, <1>8, <1>9, <1>10, <1>11, SameServed DEF LoopInv

(* Nothing to run.                                                          *)
LEMMA IdleKeeps ==
  ASSUME LoopInv, Idle
  PROVE  LoopInv'
<1>1. /\ UNCHANGED <<waiting, chunked, pending, inflight, running, full, batch,
                     done, tokens, fate, to_finish>>
      /\ pc = "select" /\ pc' = "receive" /\ last' = NoLast /\ cur' = {}
  BY DEF Idle, reqvars
<1>2. /\ Queued' = Queued /\ Resumed' = Resumed /\ InStages' = InStages
      /\ Prefilled = {} /\ Prefilled' = {} /\ Held = {} /\ Held' = {}
      /\ Live(Requests)' = Live(Requests) /\ Live(running)' = Live(running)
      /\ Live(Prefilled)' = Live(Prefilled)
  BY <1>1 DEF Queued, Resumed, InStages, Prefilled, Held, Live, NoLast
<1>3. LoopTypeOK'
  <2>1. /\ last' \in [kind : {"none", "prefill", "decode"}, reqs : SUBSET Requests]
        /\ IsFiniteSet(last'.reqs)
    BY <1>1, FS_EmptySet DEF NoLast
  <2> QED
    BY <1>1, <2>1 DEF LoopInv, LoopTypeOK
<1>4. BatchFits' /\ RoomForOne'
  BY <1>1 DEF LoopInv, BatchFits, RoomForOne, NoLast
<1>5. InOnePlace'
  BY <1>1, <1>2 DEF LoopInv, InOnePlace
<1>6. DoneTells'
  BY <1>1, <1>2 DEF LoopInv, DoneTells
<1> QED
  BY <1>1, <1>3, <1>4, <1>5, <1>6, SameServed DEF LoopInv

-----------------------------------------------------------------------------
(* Results. *)

(* Emitting tokens may end requests, and nothing else.                      *)
LEMMA EmitsEnds ==
  ASSUME LoopTypeOK, NEW R \in SUBSET Requests, Emits(R)
  PROVE  /\ tokens' \in [Requests -> Nat]
         /\ fate' \in [Requests -> {"new", "live", "finished", "aborted"}]
         /\ \A r \in Requests : fate'[r] = fate[r] \/ (r \in R /\ fate'[r] = "finished")
<1>1. tokens' = [r \in Requests |-> IF r \in R THEN tokens[r] + 1 ELSE tokens[r]]
  BY DEF Emits
<1>2. tokens' \in [Requests -> Nat]
  BY <1>1 DEF LoopTypeOK
<1> DEFINE must == {r \in R : tokens[r] + 1 >= MaxTokens \/ r \in to_finish}
<1>3. PICK stop \in SUBSET (R \ must) :
         fate' = [r \in Requests |-> IF r \in must \cup stop THEN "finished" ELSE fate[r]]
  BY DEF Emits
<1>4. must \subseteq R
  OBVIOUS
<1> HIDE DEF must
<1> QED
  BY <1>2, <1>3, <1>4 DEF LoopTypeOK

(* Where a request that ends was, nothing else changes.                     *)
LEMMA RunDecodeKeeps ==
  ASSUME LoopInv, RunDecode
  PROVE  LoopInv'
<1>1. /\ UNCHANGED <<waiting, chunked, pending, inflight, running, done, to_finish>>
      /\ pc = "run" /\ pc' = "receive" /\ batch.kind = "decode"
      /\ last' = [kind |-> "decode", reqs |-> running] /\ cur' = running
  BY DEF RunDecode
<1>2. /\ tokens' \in [Requests -> Nat]
      /\ fate' \in [Requests -> {"new", "live", "finished", "aborted"}]
      /\ \A r \in Requests : fate'[r] = fate[r] \/ (r \in running /\ fate'[r] = "finished")
  BY EmitsEnds, Located DEF RunDecode, LoopInv
<1>3. /\ Queued' = Queued /\ Resumed' = Resumed /\ InStages' = InStages
      /\ Prefilled = {} /\ Prefilled' = {} /\ Held = {} /\ Held' = {}
      /\ Live(Prefilled)' = {}
  BY <1>1 DEF Queued, Resumed, InStages, Prefilled, Held, Live
<1>4. /\ Live(Requests)' \subseteq Live(Requests)
      /\ \A r \in Live(Requests) : r \in Live(Requests)' \/ r \in running
      /\ Live(running)' \subseteq Live(running)
  BY <1>1, <1>2, Located DEF Live
<1>5. LoopTypeOK'
  <2>1. /\ last' \in [kind : {"none", "prefill", "decode"}, reqs : SUBSET Requests]
        /\ IsFiniteSet(last'.reqs)
    BY <1>1 DEF LoopInv, LoopTypeOK
  <2> QED
    BY <1>1, <1>2, <2>1 DEF LoopInv, LoopTypeOK
<1>6. BatchFits' /\ RoomForOne'
  BY <1>1 DEF LoopInv, BatchFits, RoomForOne
<1>7. InOnePlace'
  <2>1. \A r \in Queued \cup Resumed \cup InStages : r \in Live(Requests) /\ r \notin running
    BY DEF LoopInv, InOnePlace, Apart
  <2>2. Apart(Queued, Resumed, InStages, running, Prefilled, Held, Live(Requests))'
    BY <1>1, <1>3, <1>4, <2>1 DEF LoopInv, InOnePlace, Apart
  <2> QED
    BY <1>1, <2>2 DEF LoopInv, InOnePlace
<1>8. DoneTells'
  BY <1>1, <1>3, <1>4 DEF LoopInv, DoneTells
<1>9. FewServed'
  <2>1. Served' \subseteq Served
    BY <1>1, <1>2 DEF Served, HoldsSlot
  <2> QED
    BY <2>1, FewerServed DEF LoopInv
<1> QED
  BY <1>5, <1>6, <1>7, <1>8, <1>9 DEF LoopInv

(* A cohort after an inner group: the same requests, one group further.     *)
LEMMA AdvanceInnerKeeps ==
  ASSUME LoopInv, AdvanceInner
  PROVE  LoopInv'
<1> DEFINE ms == batch.members
           ex == Executed(ms)
<1>1. /\ UNCHANGED <<waiting, chunked, pending, running, done, tokens, fate, to_finish>>
      /\ pc = "run" /\ pc' = "receive" /\ batch.kind = "stage"
      /\ inflight' = (inflight \ ToSet(ms)) \cup ToSet(ex)
      /\ last' = NoLast /\ cur' = Members(batch)
  BY DEF AdvanceInner, RunsStage, reqvars
<1>2. /\ ms \in Seq(inflight) /\ DOMAIN ms = 1 .. Len(ms) /\ Len(ms) \in Nat
      /\ \A i, j \in DOMAIN ms : ms[i].req = ms[j].req => i = j
  <2>1. ms \in Seq(inflight) /\ InjectiveSeq(ms)
    BY <1>1 DEF LoopInv, BatchFits
  <2>2. DOMAIN ms = 1 .. Len(ms) /\ Len(ms) \in Nat /\ \A i \in DOMAIN ms : ms[i] \in inflight
    BY <2>1
  <2> QED
    BY <2>1, <2>2 DEF InjectiveSeq, LoopInv, InOnePlace
<1>3. /\ DOMAIN ex = DOMAIN ms
      /\ \A i \in DOMAIN ms : IsChunk(ex[i]) /\ ex[i].req = ms[i].req /\ ex[i].next = ms[i].next
  <2> SUFFICES ASSUME NEW i \in DOMAIN ms
               PROVE  DOMAIN ex = DOMAIN ms /\ IsChunk(ex[i]) /\ ex[i].req = ms[i].req /\ ex[i].next = ms[i].next
    BY DEF Executed, Demuxed
  <2>1. PICK s : ex[i] = [ms[i] EXCEPT !.rows = s, !.group = @ + 1]
    BY DEF Executed, Demuxed
  <2>2. IsChunk(ms[i])
    BY <1>2 DEF LoopInv, LoopTypeOK
  <2>3. ex[i] = [req |-> ms[i].req, chunk |-> ms[i].chunk, group |-> ms[i].group + 1,
                 next |-> ms[i].next, rows |-> s]
    BY <2>1, <2>2 DEF IsChunk
  <2>4. DOMAIN ex = DOMAIN ms
    BY DEF Executed, Demuxed
  <2> QED
    BY <2>2, <2>3, <2>4 DEF IsChunk
<1> HIDE DEF ex
<1>4. \A c \in ToSet(ms) : c \in inflight /\ \E i \in DOMAIN ms : c = ms[i]
  BY <1>2 DEF ToSet
<1>5. \A c \in ToSet(ex) : \E i \in DOMAIN ms : c = ex[i] /\ ms[i] \in inflight
  BY <1>2, <1>3 DEF ToSet
<1>6. \A i \in DOMAIN ms : ms[i] \in ToSet(ms) /\ ex[i] \in ToSet(ex)
  BY <1>3 DEF ToSet
<1>7. \A c, d \in inflight' : c.req = d.req => c = d
  <2> SUFFICES ASSUME NEW c \in inflight', NEW d \in inflight', c.req = d.req
               PROVE  c = d
    OBVIOUS
  <2>0. \A e, f \in inflight : e.req = f.req => e = f
    BY DEF LoopInv, InOnePlace
  <2>1. CASE c \in inflight \ ToSet(ms) /\ d \in inflight \ ToSet(ms)
    BY <2>0, <2>1
  <2>2. CASE c \in ToSet(ex) /\ d \in ToSet(ex)
    BY <1>2, <1>3, <1>5, <2>2
  <2>3. CASE c \in inflight \ ToSet(ms) /\ d \in ToSet(ex)
    BY <1>3, <1>5, <1>6, <2>0, <2>3
  <2>4. CASE c \in ToSet(ex) /\ d \in inflight \ ToSet(ms)
    BY <1>3, <1>5, <1>6, <2>0, <2>4
  <2> QED
    BY <1>1, <2>1, <2>2, <2>3, <2>4
<1>8. InStages' = InStages
  <2>1. \A c \in inflight' : \E d \in inflight : c.req = d.req
    BY <1>1, <1>3, <1>5
  <2>2. \A d \in inflight : \E c \in inflight' : c.req = d.req
    BY <1>1, <1>3, <1>4, <1>6
  <2> QED
    BY <2>1, <2>2 DEF InStages
<1>9. IsFiniteSet(inflight') /\ Cardinality(inflight') = Cardinality(inflight)
  <2>1. IsFiniteSet(inflight) /\ \A c, d \in inflight : c.req = d.req => c = d
    BY DEF LoopInv, LoopTypeOK, InOnePlace
  <2>2. IsFiniteSet(ToSet(ex))
    <3>1. ex \in Surjection(DOMAIN ms, ToSet(ex))
      <4>1. ex = [i \in DOMAIN ms |-> ex[i]]
        BY <1>3 DEF ex, Executed, Demuxed
      <4> QED
        BY <1>3, <4>1 DEF Surjection, ToSet
    <3>2. IsFiniteSet(DOMAIN ms)
      BY <1>2, FS_Interval
    <3> QED
      BY <3>1, <3>2, FS_Surjection
  <2>3. IsFiniteSet(inflight \ ToSet(ms))
    BY <2>1, FS_Subset
  <2>4. IsFiniteSet(inflight')
    BY <1>1, <2>2, <2>3, FS_Union
  <2>5. Cardinality(Reqs(inflight)) = Cardinality(inflight)
    BY <2>1, ReqsCounted
  <2>6. Cardinality(Reqs(inflight')) = Cardinality(inflight')
    BY <1>7, <2>4, ReqsCounted
  <2>7. Reqs(inflight') = Reqs(inflight)
    BY <1>8 DEF InStages, Reqs
  <2> QED
    BY <2>4, <2>5, <2>6, <2>7
<1>10. /\ Queued' = Queued /\ Resumed' = Resumed
      /\ Prefilled = {} /\ Prefilled' = {} /\ Held = {} /\ Held' = {}
      /\ Live(Requests)' = Live(Requests) /\ Live(running)' = Live(running)
      /\ Live(Prefilled)' = Live(Prefilled)
  BY <1>1 DEF Queued, Resumed, Prefilled, Held, Live, NoLast
<1>11. LoopTypeOK'
  <2>1. \A c \in inflight' : IsChunk(c)
    BY <1>1, <1>3, <1>5 DEF LoopInv, LoopTypeOK
  <2>2. /\ last' \in [kind : {"none", "prefill", "decode"}, reqs : SUBSET Requests]
        /\ IsFiniteSet(last'.reqs)
    BY <1>1, FS_EmptySet DEF NoLast
  <2>3. cur' \in SUBSET Requests
    <3>1. \A i \in DOMAIN ms : ms[i].req \in Requests
      BY <1>2, Located
    <3> QED
      BY <1>1, <3>1 DEF Members
  <2> QED
    BY <1>1, <1>9, <2>1, <2>2, <2>3 DEF LoopInv, LoopTypeOK
<1>12. BatchFits' /\ RoomForOne'
  BY <1>1, <1>9 DEF LoopInv, BatchFits, RoomForOne, NoLast
<1>13. InOnePlace'
  <2>1. Apart(Queued, Resumed, InStages, running, Prefilled, Held, Live(Requests))'
    BY <1>1, <1>8, <1>10 DEF LoopInv, InOnePlace
  <2> QED
    BY <1>1, <1>7, <2>1 DEF LoopInv, InOnePlace
<1>14. DoneTells'
  <2>1. \A c \in inflight' : \E d \in inflight : c.req = d.req /\ c.next = d.next
    BY <1>1, <1>3, <1>5
  <2>2. \A c \in inflight' :
          /\ done'[c.req] > 0 /\ done'[c.req] <= NumChunks[c.req]
          /\ c.next = IF done'[c.req] < NumChunks[c.req] THEN c.req ELSE None
    BY <1>1, <2>1 DEF LoopInv, DoneTells
  <2> QED
    BY <1>1, <1>10, <2>2 DEF LoopInv, DoneTells
<1> QED
  BY <1>1, <1>11, <1>12, <1>13, <1>14, SameServed DEF LoopInv

(* The requests of a cohort that left the last group: those with chunks     *)
(* left are the continuations.                                              *)
LEMMA ContinuationsAre ==
  ASSUME LoopInv, RunsStage
  PROVE  /\ Members(batch) \subseteq InStages /\ Members(batch) # {} /\ IsFiniteSet(Members(batch))
         /\ {c.req : c \in inflight \ ToSet(batch.members)} = InStages \ Members(batch)
         /\ ToSet(batch.members) \subseteq inflight /\ ToSet(batch.members) # {}
         /\ Continuations \in Seq(Requests) /\ InjectiveSeq(Continuations)
         /\ ToSet(Continuations) = {r \in Members(batch) : done[r] < NumChunks[r]}
<1> DEFINE ms == batch.members
           nexts == [i \in DOMAIN ms |-> ms[i].next]
           I == {i \in DOMAIN ms : ms[i].next # None}
<1>1. /\ ms \in Seq(inflight) /\ ms # <<>> /\ DOMAIN ms = 1 .. Len(ms) /\ Len(ms) \in Nat
      /\ \A i \in DOMAIN ms : ms[i] \in inflight
      /\ \A i, j \in DOMAIN ms : ms[i].req = ms[j].req => i = j
  <2>1. ms \in Seq(inflight) /\ InjectiveSeq(ms) /\ ms # <<>>
    BY DEF LoopInv, BatchFits, RunsStage
  <2>2. DOMAIN ms = 1 .. Len(ms) /\ Len(ms) \in Nat /\ \A i \in DOMAIN ms : ms[i] \in inflight
    BY <2>1
  <2> QED
    BY <2>1, <2>2 DEF InjectiveSeq, LoopInv, InOnePlace
<1>2. \A i \in DOMAIN ms : /\ ms[i].req \in Requests
                           /\ ms[i].next = IF done[ms[i].req] < NumChunks[ms[i].req] THEN ms[i].req ELSE None
  BY <1>1, Located DEF LoopInv, DoneTells
<1>3. ToSet(ms) \subseteq inflight /\ ToSet(ms) # {} /\ Members(batch) \subseteq InStages /\ Members(batch) # {}
  <2>1. 1 \in DOMAIN ms
    BY <1>1
  <2>2. ToSet(ms) \subseteq inflight /\ ms[1] \in ToSet(ms)
    BY <1>1, <2>1 DEF ToSet
  <2>3. Members(batch) \subseteq InStages
    BY <1>1 DEF Members, InStages
  <2>4. ms[1].req \in Members(batch)
    BY <2>1 DEF Members
  <2> QED
    BY <2>2, <2>3, <2>4
<1>4. IsFiniteSet(Members(batch))
  <2>1. Members(batch) = Reqs(ToSet(ms))
    BY DEF Members, Reqs, ToSet
  <2>2. IsFiniteSet(ToSet(ms))
    BY <1>3, FS_Subset DEF LoopInv, LoopTypeOK
  <2> QED
    BY <2>1, <2>2, ReqsCounted
<1>5. {c.req : c \in inflight \ ToSet(ms)} = InStages \ Members(batch)
  <2>1. \A c \in inflight \ ToSet(ms) : c.req \notin Members(batch)
    BY <1>1 DEF ToSet, Members, LoopInv, InOnePlace
  <2> QED
    BY <2>1 DEF InStages, Members, ToSet
<1>6. nexts \in Seq(Requests \cup {None}) /\ DOMAIN nexts = DOMAIN ms /\ I \subseteq DOMAIN nexts
  BY <1>1, <1>2
<1>7. \A i \in I : nexts[i] = ms[i].req /\ done[ms[i].req] < NumChunks[ms[i].req]
  BY <1>2
<1>8. {nexts[i] : i \in I} = {r \in Members(batch) : done[r] < NumChunks[r]}
  <2>1. \A i \in DOMAIN ms : done[ms[i].req] < NumChunks[ms[i].req] => i \in I
    BY <1>2, Limits
  <2>2. \A i \in I : i \in DOMAIN ms
    OBVIOUS
  <2>3. \A r \in Members(batch) : \E i \in DOMAIN ms : r = ms[i].req
    BY DEF Members
  <2>4. \A i \in DOMAIN ms : ms[i].req \in Members(batch)
    BY DEF Members
  <2> HIDE DEF nexts, I
  <2>5. \A i \in I : nexts[i] \in Members(batch) /\ done[nexts[i]] < NumChunks[nexts[i]]
    BY <1>7, <2>2, <2>4
  <2>6. \A r \in Members(batch) : done[r] < NumChunks[r] => \E i \in I : nexts[i] = r
    BY <1>7, <2>1, <2>3
  <2> QED
    BY <2>5, <2>6
<1>9. \A i, j \in I : nexts[i] = nexts[j] => i = j
  BY <1>1, <1>7
<1> HIDE DEF nexts, I
<1>10. /\ Those(nexts, I) \in Seq(Requests \cup {None})
       /\ ToSet(Those(nexts, I)) = {nexts[i] : i \in I} /\ InjectiveSeq(Those(nexts, I))
  BY <1>6, <1>9, ThoseAre
<1>11. Continuations = Those(nexts, I)
  BY DEF Continuations, nexts, I
<1>12. Continuations \in Seq(Requests)
  <2>1. \A i \in DOMAIN Continuations : Continuations[i] \in ToSet(Continuations)
    BY DEF ToSet
  <2>2. ToSet(Continuations) \subseteq Members(batch)
    BY <1>8, <1>10, <1>11
  <2>3. Members(batch) \subseteq Requests
    BY <1>2 DEF Members
  <2>4. /\ Len(Continuations) \in Nat /\ DOMAIN Continuations = 1 .. Len(Continuations)
        /\ Continuations = [i \in 1 .. Len(Continuations) |-> Continuations[i]]
    BY <1>10, <1>11
  <2> QED
    BY <2>1, <2>2, <2>3, <2>4
<1> QED
  BY <1>3, <1>4, <1>5, <1>8, <1>10, <1>11, <1>12

(* A cohort after the last group: its continuations wait, the others have   *)
(* their first token.                                                       *)
LEMMA AdvanceFinalKeeps ==
  ASSUME LoopInv, AdvanceFinal
  PROVE  LoopInv'
<1> DEFINE M == Members(batch)
           C == ToSet(Continuations)
<1>1. /\ UNCHANGED <<waiting, chunked, running, done, to_finish>>
      /\ pc = "run" /\ pc' = "receive" /\ chunked = None /\ batch.kind = "stage"
      /\ inflight' = inflight \ ToSet(batch.members) /\ pending' = pending \o Continuations
      /\ last' = [kind |-> "prefill", reqs |-> M] /\ cur' = M
  BY DEF AdvanceFinal, RunsStage, LoopInv, RoomForOne
<1>2. /\ M \subseteq InStages /\ IsFiniteSet(M) /\ C \subseteq M
      /\ Continuations \in Seq(Requests) /\ InjectiveSeq(Continuations)
      /\ \A r \in C : done[r] < NumChunks[r]
      /\ \A r \in M \ C : ~ (done[r] < NumChunks[r])
  BY ContinuationsAre DEF AdvanceFinal
<1>3. /\ InStages' = InStages \ M
      /\ ToSet(batch.members) \subseteq inflight /\ ToSet(batch.members) # {}
  BY <1>1, ContinuationsAre DEF AdvanceFinal, InStages
<1>4. /\ Queued \subseteq Requests /\ Resumed \subseteq Requests /\ InStages \subseteq Requests
      /\ running \subseteq Requests /\ \A c \in inflight : c.req \in Requests /\ c.req \in InStages
      /\ M \subseteq Requests
  BY <1>2, Located
<1>5. /\ \A r \in M : r \in Live(Requests)
      /\ \A r \in M : r \notin Queued /\ r \notin Resumed /\ r \notin running
  BY <1>2 DEF LoopInv, InOnePlace, Apart
<1>6. /\ pending' \in Seq(Requests) /\ Resumed' = Resumed \cup C /\ InjectiveSeq(pending')
  <2>1. pending \in Seq(Requests) /\ InjectiveSeq(pending)
    BY DEF LoopInv, LoopTypeOK, InOnePlace
  <2> QED
    BY <1>1, <1>2, <1>5, <2>1, Joins DEF Resumed
<1>7. /\ tokens' \in [Requests -> Nat]
      /\ fate' \in [Requests -> {"new", "live", "finished", "aborted"}]
      /\ \A r \in Requests : fate'[r] = fate[r] \/ (r \in M \ C /\ fate'[r] = "finished")
  <2>1. M \ C \in SUBSET Requests /\ LoopTypeOK /\ Emits(M \ C)
    BY <1>4 DEF AdvanceFinal, LoopInv
  <2> HIDE DEF M, C
  <2> QED
    BY <2>1, EmitsEnds
<1>8. /\ Queued' = Queued /\ Prefilled = {} /\ Held = {} /\ Held' = {}
      /\ Prefilled' = M \ C
  <2>1. Prefilled' = M \ Resumed'
    BY <1>1 DEF Prefilled, Resumed
  <2> QED
    BY <1>1, <1>5, <1>6, <2>1 DEF Queued, Prefilled, Held
<1> HIDE DEF M, C
<1>9. /\ Live(Requests)' \subseteq Live(Requests)
      /\ \A r \in Live(Requests) : r \in Live(Requests)' \/ r \in M \ C
      /\ Live(running)' \subseteq Live(running)
      /\ Live(Prefilled)' \subseteq M \ C
  BY <1>1, <1>4, <1>7, <1>8 DEF Live
<1>10. IsFiniteSet(inflight') /\ Cardinality(inflight') < MaxInflight
  <2>1. /\ IsFiniteSet(inflight) /\ Cardinality(inflight) \in Nat /\ Cardinality(inflight) <= MaxInflight
        /\ inflight' \in SUBSET inflight /\ inflight' # inflight
    BY <1>1, <1>3, FS_CardinalityType DEF LoopInv, LoopTypeOK, RoomForOne
  <2>2. /\ IsFiniteSet(inflight') /\ Cardinality(inflight') <= Cardinality(inflight)
        /\ Cardinality(inflight') # Cardinality(inflight)
    BY <2>1, FS_Subset
  <2>3. Cardinality(inflight') \in Nat
    BY <2>2, FS_CardinalityType
  <2> QED
    BY <2>1, <2>2, <2>3, Limits
<1>11. LoopTypeOK'
  <2>1. /\ last' \in [kind : {"none", "prefill", "decode"}, reqs : SUBSET Requests]
        /\ IsFiniteSet(last'.reqs)
    BY <1>1, <1>2, <1>4
  <2> QED
    BY <1>1, <1>4, <1>6, <1>7, <1>10, <2>1 DEF LoopInv, LoopTypeOK
<1>12. BatchFits' /\ RoomForOne'
  <2>1. Cardinality(inflight') <= MaxInflight
    <3>1. Cardinality(inflight') \in Nat
      BY <1>10, FS_CardinalityType
    <3> QED
      BY <1>10, <3>1, Limits
  <2> QED
    BY <1>1, <1>10, <2>1 DEF LoopInv, BatchFits, RoomForOne
<1>13. InOnePlace'
  <2>1. Apart(Queued, Resumed, InStages, running, Prefilled, Held, Live(Requests))'
    BY <1>1, <1>2, <1>3, <1>5, <1>6, <1>8, <1>9 DEF LoopInv, InOnePlace, Apart
  <2> QED
    BY <1>1, <1>6, <2>1 DEF LoopInv, InOnePlace
<1>14. DoneTells'
  <2>0. \A r \in M : done[r] \in Nat /\ NumChunks[r] \in Nat /\ done[r] > 0 /\ done[r] <= NumChunks[r]
    <3>1. \A r \in M : \E c \in inflight : c.req = r
      BY <1>2 DEF InStages
    <3>2. \A r \in M : done[r] > 0 /\ done[r] <= NumChunks[r]
      BY <3>1 DEF LoopInv, DoneTells
    <3> QED
      BY <1>4, <3>2, Limits DEF LoopInv, LoopTypeOK
  <2>1. \A r \in Resumed' : done'[r] > 0 /\ done'[r] < NumChunks[r]
    BY <1>1, <1>2, <1>6, <2>0 DEF LoopInv, DoneTells
  <2>2. \A r \in M \ C : done'[r] = NumChunks[r]
    BY <1>1, <1>2, <2>0
  <2> QED
    BY <1>1, <1>8, <1>9, <2>1, <2>2 DEF LoopInv, DoneTells
<1>15. FewServed'
  <2>1. Served' \subseteq Served
    BY <1>1, <1>7 DEF Served, HoldsSlot
  <2> QED
    BY <2>1, FewerServed DEF LoopInv
<1> QED
  BY <1>11, <1>12, <1>13, <1>14, <1>15 DEF LoopInv

-----------------------------------------------------------------------------
(* The loop's invariant. *)

(* The loop starts with nothing to do.                                      *)
LEMMA InitInv == Init => LoopInv
<1> SUFFICES ASSUME Init
             PROVE  LoopInv
  OBVIOUS
<1>1. /\ pc = "receive" /\ waiting = <<>> /\ chunked = None /\ pending = <<>> /\ inflight = {}
      /\ running = {} /\ last = NoLast /\ cur = {}
      /\ done = [r \in Requests |-> 0] /\ tokens = [r \in Requests |-> 0]
      /\ fate = [r \in Requests |-> "new"] /\ to_finish = {}
  BY DEF Init
<1>2. /\ Queued = {} /\ Resumed = {} /\ InStages = {} /\ Prefilled = {} /\ Held = {}
      /\ Live(Requests) = {} /\ Live(running) = {} /\ Live(Prefilled) = {}
  BY <1>1 DEF Queued, Resumed, InStages, Prefilled, Held, Live, ToSet, NoLast
<1>3. IsFiniteSet({}) /\ Cardinality({}) = 0
  BY FS_EmptySet
<1>4. LoopTypeOK
  BY <1>1, <1>3 DEF LoopTypeOK, NoLast
<1>5. BatchFits /\ RoomForOne
  BY <1>1, <1>3, Limits DEF BatchFits, RoomForOne, NoLast
<1>6. InOnePlace /\ DoneTells
  BY <1>1, <1>2 DEF InOnePlace, Apart, DoneTells, InjectiveSeq
<1>7. FewServed
  <2>1. Served = {} /\ {r \in Requests : HoldsSlot(r)} = {}
    BY <1>1 DEF Served, HoldsSlot
  <2>2. 0 <= MaxRunning + MaxInflight - 1
    BY Limits
  <2> QED
    BY <1>3, <2>1, <2>2 DEF FewServed, SlotsBounded
<1> QED
  BY <1>4, <1>5, <1>6, <1>7 DEF LoopInv

(* Every step of the loop and of its clients keeps it, when no pause falls  *)
(* between a cohort and its continuations.                                  *)
LEMMA NextInv ==
  ASSUME AnyPause = FALSE, LoopInv, [Next]_vars
  PROVE  LoopInv'
<1>1. CASE UNCHANGED vars
  <2>1. /\ UNCHANGED <<pc, waiting, chunked, pending, inflight, running, batch, last, cur,
                       done, tokens, fate, to_finish>>
    BY <1>1 DEF vars, reqvars
  <2>2. /\ Queued' = Queued /\ Resumed' = Resumed /\ InStages' = InStages /\ Prefilled' = Prefilled
        /\ Held' = Held /\ Live(Requests)' = Live(Requests)
        /\ Live(running)' = Live(running) /\ Live(Prefilled)' = Live(Prefilled)
    BY <2>1 DEF Queued, Resumed, InStages, Prefilled, Held, Live, Members
  <2>3. LoopTypeOK'
    BY <2>1 DEF LoopInv, LoopTypeOK
  <2>4. BatchFits' /\ RoomForOne'
    BY <2>1, <2>2 DEF LoopInv, BatchFits, RoomForOne, Batch, InjectiveSeq
  <2>5. InOnePlace' /\ DoneTells'
    BY <2>1, <2>2 DEF LoopInv, InOnePlace, DoneTells, InjectiveSeq
  <2> QED
    BY <2>1, <2>3, <2>4, <2>5, SameServed DEF LoopInv
<1>2. CASE \E r \in Requests : Arrive(r)
  BY <1>2, ArriveKeeps
<1>3. CASE \E r \in Impatient : Abort(r)
  BY <1>3, AbortKeeps, Limits
<1>4. CASE PauseInPlace \/ PauseAndRetract \/ Continue
  BY <1>4, PauseInPlaceKeeps, PauseAndRetractKeeps, ContinueKeeps
<1>5. CASE BeginIteration \/ Merge \/ NothingToAdd \/ BatchIsFull \/ NoToken \/ AddChunked \/ AddWaiting
  BY <1>5, BeginIterationKeeps, MergeKeeps, RejectsKeeps, AddChunkedKeeps, AddWaitingKeeps
<1>6. CASE NoDecode \/ Decode
  <2>1. /\ pc = "decode"
        /\ UNCHANGED <<waiting, chunked, pending, inflight, last, cur, done, tokens, fate, to_finish>>
        /\ \/ pc' = "select" /\ running' = {} /\ Live(running) = {}
           \/ pc' = "run" /\ running' = Live(running) /\ batch' = Batch("decode", <<>>)
    BY <1>6 DEF NoDecode, Decode, DecodeOn, reqvars
  <2> QED
    BY <2>1, DecodeKeeps
<1>7. CASE RetractDecode \/ Admit \/ Idle \/ Select
  BY <1>7, RetractDecodeKeeps, AdmitKeeps, IdleKeeps, SelectKeeps
<1>8. CASE AdvanceInner \/ AdvanceFinal \/ RunDecode
  BY <1>8, AdvanceInnerKeeps, AdvanceFinalKeeps, RunDecodeKeeps
<1> QED
  BY <1>1, <1>2, <1>3, <1>4, <1>5, <1>6, <1>7, <1>8 DEF Next, Iteration

-----------------------------------------------------------------------------
(* What follows of the loop. *)

(* The invariant holds in every reachable state, when no pause falls        *)
(* between a cohort and its continuations; the loop then never raises for   *)
(* want of room in the stages.                                              *)
THEOREM LoopInvariant == ASSUME AnyPause = FALSE PROVE Spec => []LoopInv
<1>1. LoopInv /\ [Next]_vars => LoopInv'
  BY NextInv
<1> QED
  BY <1>1, InitInv, PTL DEF Spec

(* How often an element is in a sequence without repetition.                *)
LEMMA CountsOnce ==
  ASSUME NEW S, NEW s \in Seq(S), InjectiveSeq(s), NEW r
  PROVE  Cardinality({i \in DOMAIN s : s[i] = r}) = IF r \in ToSet(s) THEN 1 ELSE 0
<1>1. CASE r \in ToSet(s)
  <2>1. PICK i \in DOMAIN s : s[i] = r
    BY <1>1 DEF ToSet
  <2>2. {j \in DOMAIN s : s[j] = r} = {i}
    BY <2>1 DEF InjectiveSeq
  <2> QED
    BY <1>1, <2>2, FS_Singleton
<1>2. CASE r \notin ToSet(s)
  <2>1. {j \in DOMAIN s : s[j] = r} = {}
    BY <1>2 DEF ToSet
  <2> QED
    BY <1>2, <2>1, FS_EmptySet
<1> QED
  BY <1>1, <1>2

(* Between two iterations a live request is in exactly one place.           *)
THEOREM RequestsStayInOnePlace ==
  ASSUME AnyPause = FALSE PROVE Spec => []NoneLostNoneTwice
<1>1. LoopInv => NoneLostNoneTwice
  <2> SUFFICES ASSUME LoopInv, pc = "receive", NEW r \in Requests, fate[r] = "live"
               PROVE  Places(r) = 1
    BY DEF NoneLostNoneTwice
  <2>1. chunked = None /\ Held = {} /\ r # chunked
    BY Limits DEF LoopInv, RoomForOne, Held
  <2>2. Cardinality({i \in DOMAIN waiting : waiting[i] = r}) = IF r \in Queued THEN 1 ELSE 0
    BY CountsOnce DEF LoopInv, LoopTypeOK, InOnePlace, Queued
  <2>3. Cardinality({i \in DOMAIN pending : pending[i] = r}) = IF r \in Resumed THEN 1 ELSE 0
    BY CountsOnce DEF LoopInv, LoopTypeOK, InOnePlace, Resumed
  <2>4. Cardinality({c \in inflight : c.req = r}) = IF r \in InStages THEN 1 ELSE 0
    <3>1. CASE r \in InStages
      <4>1. PICK c \in inflight : c.req = r
        BY <3>1 DEF InStages
      <4>2. {d \in inflight : d.req = r} = {c}
        BY <4>1 DEF LoopInv, InOnePlace
      <4> QED
        BY <3>1, <4>2, FS_Singleton
    <3>2. CASE r \notin InStages
      <4>1. {d \in inflight : d.req = r} = {}
        BY <3>2 DEF InStages
      <4> QED
        BY <3>2, <4>1, FS_EmptySet
    <3> QED
      BY <3>1, <3>2
  <2>5. last.kind = "prefill" /\ r \in last.reqs \ ToSet(pending) <=> r \in Prefilled
    BY DEF Prefilled
  <2>6. Places(r) = (IF r \in Queued THEN 1 ELSE 0) + (IF r \in Resumed THEN 1 ELSE 0)
                    + (IF r \in InStages THEN 1 ELSE 0) + (IF r \in running THEN 1 ELSE 0)
                    + (IF r \in Prefilled THEN 1 ELSE 0)
    BY <2>1, <2>2, <2>3, <2>4, <2>5 DEF Places
  <2>7. r \in Live(Requests)
    BY DEF Live
  <2>8. /\ r \in Queued \cup Resumed \cup InStages \cup running \cup Prefilled
        /\ r \in Queued => r \notin Resumed /\ r \notin InStages /\ r \notin running /\ r \notin Prefilled
        /\ r \in Resumed => r \notin InStages /\ r \notin running /\ r \notin Prefilled
        /\ r \in InStages => r \notin running /\ r \notin Prefilled
        /\ r \in running => r \notin Prefilled
    BY <2>1, <2>7 DEF LoopInv, InOnePlace, Apart
  <2> QED
    BY <2>6, <2>8
<1> QED
  BY <1>1, LoopInvariant, PTL

(* What decodes has its whole prompt behind it, and nothing of it is left   *)
(* in the stages or among the continuations.                                *)
THEOREM OnlyPrefilledDecode ==
  ASSUME AnyPause = FALSE PROVE Spec => []DecodesOnlyPrefilled
<1>1. LoopInv => DecodesOnlyPrefilled
  <2> SUFFICES ASSUME LoopInv, NEW r \in Live(running)
               PROVE  done[r] = NumChunks[r] /\ r \notin ToSet(pending) \cup InStages
    BY DEF DecodesOnlyPrefilled
  <2>1. done[r] = NumChunks[r] /\ r \in running
    BY DEF LoopInv, DoneTells, Live
  <2> QED
    BY <2>1 DEF LoopInv, InOnePlace, Apart, Resumed
<1> QED
  BY <1>1, LoopInvariant, PTL

(* The request slots in use stay below the two limits together.             *)
THEOREM SlotsStayBounded == ASSUME AnyPause = FALSE PROVE Spec => []SlotsBounded
<1>1. LoopInv => SlotsBounded
  BY DEF LoopInv, FewServed
<1> QED
  BY <1>1, LoopInvariant, PTL

(* The pools are cleared only when no live request has anything in them.    *)
THEOREM FlushIsSafe == ASSUME AnyPause = FALSE PROVE Spec => []FlushesOnlyUnused
<1>1. LoopInv => FlushesOnlyUnused
  <2> SUFFICES ASSUME LoopInv, pc = "receive", IsNoRequest, NEW r \in Requests, HoldsSlot(r)
               PROVE  FALSE
    BY DEF FlushesOnlyUnused
  <2>1. /\ Resumed = {} /\ InStages = {} /\ running = {} /\ Prefilled = {} /\ Held = {}
    BY DEF IsNoRequest, NoBatches, Resumed, ToSet, InStages, Prefilled, Held
  <2>2. r \in Live(Requests) /\ done[r] > 0
    BY DEF HoldsSlot, Live
  <2>3. r \in Queued
    BY <2>1, <2>2 DEF LoopInv, InOnePlace, Apart
  <2> QED
    BY <2>2, <2>3 DEF LoopInv, DoneTells
<1> QED
  BY <1>1, LoopInvariant, PTL

(* An abort marks or drops the request, unless it is a continuation that    *)
(* waits behind another one.                                                *)
THEOREM AbortsReach == ASSUME AnyPause = FALSE PROVE Spec => AbortReaches
<1>1. LoopInv /\ [Next]_vars =>
        [\A r \in Requests : Abort(r) =>
            r \in to_finish' \/ fate'[r] = "aborted" \/ r \in ToSet(pending)]_vars
  <2> SUFFICES ASSUME LoopInv, NEW r \in Requests, Abort(r)
               PROVE  r \in to_finish' \/ fate'[r] = "aborted" \/ r \in ToSet(pending)
    OBVIOUS
  <2>1. pc = "receive" /\ r \in Live(Requests) /\ Held = {}
    BY DEF Abort, Live, Held
  <2>2. r \in Queued \cup Resumed \cup InStages \cup running \cup Prefilled
    BY <2>1 DEF LoopInv, InOnePlace, Apart
  <2>3. CASE r \in Queued
    BY <2>3 DEF Abort, Queued, LoopInv, LoopTypeOK
  <2>4. CASE r \in InStages \cup running \cup Prefilled
    <3>1. r \in Abortable
      BY <2>4 DEF Abortable, RunningOrCurrent, Prefilled, LoopInv, RoomForOne
    <3> QED
      BY <3>1 DEF Abort
  <2> QED
    BY <2>2, <2>3, <2>4 DEF Resumed
<1> QED
  BY <1>1, LoopInvariant, PTL DEF Spec, AbortReaches

-----------------------------------------------------------------------------
(* Packing a cohort and splitting it again. *)

(* A set of naturals that is not empty has a least element.                 *)
LEMMA LeastNumber ==
  ASSUME NEW T \in SUBSET Nat, T # {}
  PROVE  \E m \in T : \A k \in Nat : k < m => k \notin T
<1>1. PICK m \in T : \A k \in T : ~ (<<k, m>> \in OpToRel(<, Nat))
  BY NatLessThanWellFounded, WFMin
<1> QED
  BY <1>1 DEF OpToRel

(* A function may be given by its first value and a step.                   *)
Accrues(S, c, F, m, h) ==
    h \in [0 .. m -> S] /\ h[0] = c /\ \A i \in 1 .. m : h[i] = F[i][h[i - 1]]

LEMMA Accumulates ==
  ASSUME NEW S, NEW c \in S, NEW n \in Nat, NEW F \in [1 .. n -> [S -> S]]
  PROVE  \E h : Accrues(S, c, F, n, h)
<1>1. PICK T : T = {m \in 0 .. n : ~ \E h : Accrues(S, c, F, m, h)}
  OBVIOUS
<1>2. SUFFICES ASSUME T # {} PROVE FALSE
  <2>1. n \in 0 .. n
    OBVIOUS
  <2> QED
    BY <1>1, <2>1, Zenon
<1>3. PICK m \in T : \A k \in Nat : k < m => k \notin T
  <2>1. T \in SUBSET Nat
    BY <1>1
  <2> QED
    BY ONLY <1>2, <2>1, LeastNumber
<1>4. m \in 0 .. n /\ ~ \E h : Accrues(S, c, F, m, h)
  BY <1>1
<1>5. CASE m = 0
  <2>1. PICK h : h = [i \in 0 .. 0 |-> c]
    OBVIOUS
  <2>2. Accrues(S, c, F, 0, h)
    BY <2>1 DEF Accrues
  <2> QED
    BY <1>4, <1>5, <2>2
<1>6. CASE m # 0
  <2>1. /\ m - 1 \in Nat /\ m - 1 < m /\ m - 1 \in 0 .. n /\ m \in 1 .. n /\ m \in 0 .. m
        /\ m \in Nat
    BY <1>4, <1>6
  <2>2. PICK h : Accrues(S, c, F, m - 1, h)
    BY <1>1, <1>3, <2>1
  <2>3. h \in [0 .. m - 1 -> S] /\ m - 1 \in 0 .. m - 1
    BY <2>1, <2>2 DEF Accrues
  <2>4. F[m][h[m - 1]] \in S
    BY <2>1, <2>3
  <2>5. PICK k : k = [i \in 0 .. m |-> IF i = m THEN F[m][h[m - 1]] ELSE h[i]]
    OBVIOUS
  <2>6. k \in [0 .. m -> S]
    <3>1. \A i \in 0 .. m : i # m => i \in 0 .. m - 1
      BY <2>1
    <3> QED
      BY <2>3, <2>4, <2>5, <3>1
  <2>7. k[0] = c
    BY <1>6, <2>1, <2>2, <2>5 DEF Accrues
  <2>8. ASSUME NEW i \in 1 .. m PROVE k[i] = F[i][k[i - 1]]
    <3>1. i - 1 \in 0 .. m /\ i - 1 # m /\ i \in 0 .. m
      BY <2>1
    <3>2. k[i - 1] = h[i - 1]
      BY <2>5, <3>1
    <3>3. CASE i = m
      BY <2>5, <3>1, <3>2, <3>3
    <3>4. CASE i # m
      <4>1. i \in 1 .. m - 1 /\ k[i] = h[i]
        BY <2>1, <2>5, <3>1, <3>4
      <4> QED
        BY <2>2, <3>2, <4>1 DEF Accrues
    <3> QED
      BY <3>3, <3>4
  <2>9. Accrues(S, c, F, m, k)
    BY <2>6, <2>7, <2>8 DEF Accrues
  <2> QED
    BY <1>4, <2>9
<1> QED
  BY <1>5, <1>6

(* Two functions with the same first value and the same steps are the same. *)
LEMMA SameSteps ==
  ASSUME NEW n \in Nat, NEW a, NEW h, a[0] = h[0],
         \A i \in 1 .. n : a[i - 1] = h[i - 1] => a[i] = h[i]
  PROVE  \A i \in 0 .. n : a[i] = h[i]
<1>1. PICK T : T = {m \in 0 .. n : a[m] # h[m]}
  OBVIOUS
<1>2. SUFFICES ASSUME T # {} PROVE FALSE
  BY <1>1
<1>3. PICK m \in T : \A k \in Nat : k < m => k \notin T
  <2>1. T \in SUBSET Nat
    BY <1>1
  <2> QED
    BY ONLY <1>2, <2>1, LeastNumber
<1>4. m \in 0 .. n /\ a[m] # h[m]
  BY <1>1
<1>5. m - 1 \in Nat /\ m - 1 < m /\ m - 1 \in 0 .. n /\ m \in 1 .. n
  BY <1>4
<1>6. a[m - 1] = h[m - 1]
  BY <1>1, <1>3, <1>5
<1> QED
  BY <1>4, <1>5, <1>6

(* The cursor after every payload.                                          *)
LEMMA CursorsAre ==
  ASSUME NEW ps, NEW n \in Nat, Len(ps) = n, \A i \in 1 .. n : Len(ps[i].rows) \in Nat
  PROVE  /\ Cursors(ps) \in [0 .. n -> Nat] /\ Cursors(ps)[0] = 0
         /\ \A i \in 1 .. n : Cursors(ps)[i] = Cursors(ps)[i - 1] + Len(ps[i].rows)
<1>1. PICK F : F = [i \in 1 .. n |-> [s \in Nat |-> s + Len(ps[i].rows)]]
  OBVIOUS
<1>2. F \in [1 .. n -> [Nat -> Nat]] /\ \A i \in 1 .. n, s \in Nat : F[i][s] = s + Len(ps[i].rows)
  <2>1. \A i \in 1 .. n : F[i] = [s \in Nat |-> s + Len(ps[i].rows)]
    BY <1>1
  <2>2. ASSUME NEW i \in 1 .. n PROVE F[i] \in [Nat -> Nat]
    <3>1. PICK k : k = Len(ps[i].rows)
      OBVIOUS
    <3>2. k \in Nat /\ F[i] = [s \in Nat |-> s + k]
      BY <2>1, <3>1
    <3> QED
      BY <3>2
  <2> QED
    BY <1>1, <2>1, <2>2
<1>3. PICK h : Accrues(Nat, 0, F, n, h)
  BY <1>2, Accumulates, 0 \in Nat, Zenon
<1>4. h \in [0 .. n -> Nat] /\ h[0] = 0 /\ \A i \in 1 .. n : h[i] = h[i - 1] + Len(ps[i].rows)
  <2>1. h \in [0 .. n -> Nat] /\ h[0] = 0 /\ \A i \in 1 .. n : h[i] = F[i][h[i - 1]]
    BY <1>3 DEF Accrues
  <2>2. \A i \in 1 .. n : i - 1 \in 0 .. n
    OBVIOUS
  <2> QED
    BY <1>2, <2>1, <2>2
<1>5. h = [i \in 0 .. n |-> IF i = 0 THEN 0 ELSE h[i - 1] + Len(ps[i].rows)]
  <2>1. ASSUME NEW i \in 0 .. n, i # 0 PROVE h[i] = h[i - 1] + Len(ps[i].rows)
    BY <1>4, <2>1, i \in 1 .. n
  <2> QED
    BY <1>4, <2>1
<1>6. PICK a : a = CHOOSE f : f = [i \in 0 .. n |-> IF i = 0 THEN 0 ELSE f[i - 1] + Len(ps[i].rows)]
  OBVIOUS
<1>7. a = [i \in 0 .. n |-> IF i = 0 THEN 0 ELSE a[i - 1] + Len(ps[i].rows)]
  BY <1>5, <1>6
<1>8. Cursors(ps) = a
  BY <1>6 DEF Cursors
<1>9. a[0] = 0 /\ \A i \in 1 .. n : a[i] = a[i - 1] + Len(ps[i].rows)
  BY <1>7
<1>10. \A i \in 0 .. n : a[i] = h[i]
  <2>1. a[0] = h[0] /\ \A i \in 1 .. n : a[i - 1] = h[i - 1] => a[i] = h[i]
    BY <1>4, <1>9
  <2> QED
    BY ONLY <2>1, SameSteps, n \in Nat
<1>11. a = h
  BY <1>4, <1>7, <1>10
<1> QED
  BY <1>4, <1>8, <1>11


(* What the first payloads pack to.                                         *)
FirstPacked(ps, R, f, k) ==
    /\ f[k] \in Seq(R) /\ Len(f[k]) = Cursors(ps)[k]
    /\ \A j \in 1 .. k : \A t \in 1 .. Len(ps[j].rows) :
          /\ Cursors(ps)[j - 1] + t \in 1 .. Cursors(ps)[k]
          /\ f[k][Cursors(ps)[j - 1] + t] = ps[j].rows[t]

(* Every payload is found again in the packed rows, from the cursor on that *)
(* the payloads before it leave.                                            *)
LEMMA PackedInOrder ==
  ASSUME NEW R, NEW n \in Nat, n # 0, NEW ps, DOMAIN ps = 1 .. n, Len(ps) = n,
         \A i \in 1 .. n : ps[i].rows \in Seq(R)
  PROVE  /\ Packed(ps) \in Seq(R) /\ Len(Packed(ps)) = Cursors(ps)[n]
         /\ \A j \in 1 .. n : \A t \in 1 .. Len(ps[j].rows) :
               /\ Cursors(ps)[j - 1] + t \in 1 .. Cursors(ps)[n]
               /\ Packed(ps)[Cursors(ps)[j - 1] + t] = ps[j].rows[t]
<1>0. PICK C : C = Cursors(ps)
  OBVIOUS
<1>1. /\ C \in [0 .. n -> Nat] /\ C[0] = 0
      /\ \A i \in 1 .. n : C[i] = C[i - 1] + Len(ps[i].rows)
  <2>1. \A i \in 1 .. n : Len(ps[i].rows) \in Nat
    OBVIOUS
  <2> QED
    BY <1>0, <2>1, CursorsAre
<1>2. PICK seqs : seqs = [i \in 1 .. n |-> ps[i].rows]
  OBVIOUS
<1>3. seqs \in Seq(Seq(R)) /\ Len(seqs) = n /\ \A i \in 1 .. n : seqs[i] = ps[i].rows /\ seqs[i] \in Seq(R)
  BY <1>2
<1>4. \E h : h = [i \in 1 .. n |-> IF i = 1 THEN seqs[i] ELSE h[i - 1] \o seqs[i]]
  <2>1. PICK F : F = [i \in 1 .. n |-> [s \in Seq(R) |-> s \o seqs[i]]]
    OBVIOUS
  <2>2. ASSUME NEW i \in 1 .. n
        PROVE  F[i] \in [Seq(R) -> Seq(R)] /\ \A s \in Seq(R) : F[i][s] = s \o seqs[i]
    <3>1. PICK q \in Seq(R) : q = seqs[i]
      BY <1>3
    <3>2. F[i] = [s \in Seq(R) |-> s \o q]
      BY <2>1, <3>1
    <3>3. \A s \in Seq(R) : s \o q \in Seq(R)
      OBVIOUS
    <3> QED
      BY <3>1, <3>2, <3>3
  <2>3. F \in [1 .. n -> [Seq(R) -> Seq(R)]]
    BY <2>1, <2>2
  <2>4. PICK h : Accrues(Seq(R), <<>>, F, n, h)
    <3>1. <<>> \in Seq(R)
      OBVIOUS
    <3> QED
      BY ONLY <2>3, <3>1, Accumulates, n \in Nat, Zenon
  <2>5. h \in [0 .. n -> Seq(R)] /\ h[0] = <<>> /\ \A i \in 1 .. n : h[i] = F[i][h[i - 1]]
    BY <2>4 DEF Accrues
  <2>6. ASSUME NEW i \in 1 .. n PROVE h[i] = h[i - 1] \o seqs[i] /\ i - 1 \in 0 .. n
    BY <2>2, <2>5, i - 1 \in 0 .. n
  <2>7. h[1] = seqs[1]
    <3>1. 1 \in 1 .. n /\ 1 - 1 = 0
      OBVIOUS
    <3>2. h[1] = <<>> \o seqs[1] /\ seqs[1] \in Seq(R)
      BY <1>3, <2>5, <2>6, <3>1
    <3> QED
      BY <3>2
  <2>8. PICK k : k = [i \in 1 .. n |-> h[i]]
    OBVIOUS
  <2>9. ASSUME NEW i \in 1 .. n, i # 1 PROVE k[i] = k[i - 1] \o seqs[i]
    <3>1. i - 1 \in 1 .. n
      BY <2>9
    <3> QED
      BY <2>6, <2>8, <3>1
  <2>10. k = [i \in 1 .. n |-> IF i = 1 THEN seqs[i] ELSE k[i - 1] \o seqs[i]]
    BY <2>7, <2>8, <2>9
  <2> QED
    BY <2>10
<1>5. PICK f : f = CHOOSE h : h = [i \in 1 .. n |-> IF i = 1 THEN seqs[i] ELSE h[i - 1] \o seqs[i]]
  OBVIOUS
<1>6. f = [i \in 1 .. n |-> IF i = 1 THEN seqs[i] ELSE f[i - 1] \o seqs[i]]
  BY <1>4, <1>5
<1>7. Packed(ps) = f[n]
  <2>1. Packed(ps) = FlattenSeq(seqs)
    BY <1>2 DEF Packed
  <2>2. FlattenSeq(seqs) = f[n]
    BY <1>3, <1>5 DEF FlattenSeq
  <2> QED
    BY <2>1, <2>2
<1>8. f[1] = seqs[1] /\ \A i \in 1 .. n : i # 1 => f[i] = f[i - 1] \o seqs[i]
  <2>1. 1 \in 1 .. n
    OBVIOUS
  <2>2. f[1] = seqs[1]
    BY <1>6, <2>1
  <2>3. ASSUME NEW i \in 1 .. n, i # 1 PROVE f[i] = f[i - 1] \o seqs[i]
    BY <1>6, <2>3, Zenon
  <2> QED
    BY <2>2, <2>3
<1>9. \A k \in 1 .. n : FirstPacked(ps, R, f, k)
  <2>1. PICK T : T = {k \in 1 .. n : ~ FirstPacked(ps, R, f, k)}
    OBVIOUS
  <2>2. SUFFICES ASSUME T # {} PROVE FALSE
    BY <2>1
  <2>3. PICK m \in T : \A k \in Nat : k < m => k \notin T
    <3>1. T \in SUBSET Nat
      BY <2>1
    <3> QED
      BY ONLY <2>2, <3>1, LeastNumber
  <2>4. m \in 1 .. n /\ ~ FirstPacked(ps, R, f, m)
    BY <2>1
  <2>5. CASE m = 1
    <3>0. 1 \in 1 .. n /\ 1 - 1 = 0
      OBVIOUS
    <3>1. PICK q \in Seq(R) : q = seqs[1] /\ q = ps[1].rows /\ q = f[1]
      BY <1>3, <1>8, <3>0
    <3>2. C[1] = Len(q) /\ Len(q) \in Nat
      <4>1. C[1] = C[1 - 1] + Len(ps[1].rows)
        BY <1>1, <3>0, Zenon
      <4>2. C[1] = 0 + Len(q) /\ Len(q) \in Nat
        BY <1>1, <3>0, <3>1, <4>1
      <4> QED
        BY <4>2
    <3>3. \A j \in 1 .. 1 : j = 1
      OBVIOUS
    <3>4. \A j \in 1 .. 1 : \A t \in 1 .. Len(ps[j].rows) :
             C[j - 1] + t \in 1 .. C[1] /\ f[1][C[j - 1] + t] = ps[j].rows[t]
      <4> SUFFICES ASSUME NEW t \in 1 .. Len(q)
                   PROVE  C[0] + t \in 1 .. C[1] /\ f[1][C[0] + t] = q[t]
        BY <3>0, <3>1, <3>3
      <4>1. C[0] + t = t
        BY <1>1, <3>2
      <4> QED
        BY <3>1, <3>2, <4>1
    <3>5. FirstPacked(ps, R, f, 1)
      BY <1>0, <3>1, <3>2, <3>4 DEF FirstPacked
    <3> QED
      BY <2>4, <2>5, <3>5
  <2>6. CASE m # 1
    <3>1. m - 1 \in 1 .. n /\ m - 1 \in Nat /\ m - 1 < m /\ m - 1 \in 0 .. n /\ m \in 0 .. n
      BY <2>4, <2>6
    <3>2. FirstPacked(ps, R, f, m - 1)
      BY <2>1, <2>3, <3>1
    <3>3. PICK p \in Seq(R), q \in Seq(R) : p = f[m - 1] /\ q = seqs[m] /\ q = ps[m].rows
      BY <1>3, <2>4, <3>2 DEF FirstPacked
    <3>4. f[m] = p \o q
      BY <1>8, <2>4, <2>6, <3>3
    <3>5. Len(p) = C[m - 1] /\ C[m] = C[m - 1] + Len(q) /\ C[m - 1] \in Nat
      BY <1>0, <1>1, <2>4, <3>1, <3>2, <3>3 DEF FirstPacked
    <3>6. PICK s \in Seq(R) : s = p \o q
      <4>1. p \o q \in Seq(R)
        OBVIOUS
      <4> QED
        BY <4>1
    <3>7. /\ Len(s) = Len(p) + Len(q) /\ Len(p) \in Nat /\ Len(q) \in Nat
          /\ \A i \in 1 .. Len(p) : s[i] = p[i]
          /\ \A i \in 1 .. Len(q) : s[Len(p) + i] = q[i]
      BY <3>6
    <3>8. ASSUME NEW j \in 1 .. m, NEW t \in 1 .. Len(ps[j].rows)
          PROVE  C[j - 1] + t \in 1 .. C[m] /\ s[C[j - 1] + t] = ps[j].rows[t]
      <4>1. CASE j = m
        <5>1. t \in 1 .. Len(q) /\ t \in Nat /\ ps[j].rows[t] = q[t]
          BY <3>3, <3>7, <4>1
        <5>2. C[j - 1] + t = Len(p) + t /\ C[j - 1] + t \in 1 .. C[m]
          BY ONLY <3>5, <3>7, <4>1, <5>1
        <5> QED
          BY ONLY <3>7, <5>1, <5>2
      <4>2. CASE j # m
        <5>1. j \in 1 .. m - 1
          BY <2>4, <4>2
        <5>2. C[j - 1] + t \in 1 .. C[m - 1] /\ p[C[j - 1] + t] = ps[j].rows[t]
          BY <1>0, <3>2, <3>3, <5>1 DEF FirstPacked
        <5>3. PICK k : k = C[j - 1] + t
          OBVIOUS
        <5>4. k \in 1 .. Len(p) /\ k \in 1 .. C[m]
          BY ONLY <3>5, <3>7, <5>2, <5>3
        <5>5. s[k] = p[k]
          BY ONLY <3>7, <5>4
        <5> QED
          BY ONLY <5>2, <5>3, <5>4, <5>5
      <4> QED
        BY <4>1, <4>2
    <3>9. FirstPacked(ps, R, f, m)
      BY <1>0, <3>4, <3>5, <3>6, <3>7, <3>8 DEF FirstPacked
    <3> QED
      BY <2>4, <3>9
  <2> QED
    BY <2>4, <2>5, <2>6
<1>10. FirstPacked(ps, R, f, n)
  BY <1>9, n \in 1 .. n
<1> QED
  BY <1>7, <1>10 DEF FirstPacked


TokenRows == [owner : Requests, token : Nat, depth : Nat]

(* Whatever a cohort is made of, each payload gets its own rows back, each  *)
(* one group further.                                                       *)
LEMMA SplitAsPacked ==
  ASSUME NEW n \in Nat, n # 0, NEW ps, DOMAIN ps = 1 .. n, Len(ps) = n,
         \A i \in 1 .. n : IsChunk(ps[i]) /\ ps[i].rows \in Seq(TokenRows), NEW i \in 1 .. n
  PROVE  Demuxed(ps, TokenSpans(ps), Forwarded(Packed(ps)))[i].rows = Forwarded(ps[i].rows)
<1> DEFINE whole == Forwarded(Packed(ps))
           own == Forwarded(ps[i].rows)
<1>1. PICK a, b : a = Cursors(ps)[i - 1] /\ b = Cursors(ps)[i]
  OBVIOUS
<1>2. PICK l : l = Len(ps[i].rows)
  OBVIOUS
<1>3. a \in Nat /\ b \in Nat /\ l \in Nat /\ b = a + l
  <2>1. \A j \in 1 .. n : Len(ps[j].rows) \in Nat
    OBVIOUS
  <2>2. /\ Cursors(ps) \in [0 .. n -> Nat]
        /\ \A j \in 1 .. n : Cursors(ps)[j] = Cursors(ps)[j - 1] + Len(ps[j].rows)
    BY <2>1, CursorsAre
  <2> QED
    BY <1>1, <1>2, <2>1, <2>2, i - 1 \in 0 .. n
<1>4. /\ Packed(ps) \in Seq(TokenRows)
      /\ \A t \in 1 .. l : a + t \in 1 .. Len(Packed(ps)) /\ Packed(ps)[a + t] = ps[i].rows[t]
  <2>1. /\ Packed(ps) \in Seq(TokenRows) /\ Len(Packed(ps)) = Cursors(ps)[n]
        /\ \A j \in 1 .. n : \A t \in 1 .. Len(ps[j].rows) :
              /\ Cursors(ps)[j - 1] + t \in 1 .. Cursors(ps)[n]
              /\ Packed(ps)[Cursors(ps)[j - 1] + t] = ps[j].rows[t]
    BY PackedInOrder
  <2> QED
    BY <1>1, <1>2, <2>1
<1>5. /\ whole \in Seq(TokenRows) /\ Len(whole) = Len(Packed(ps))
      /\ own \in Seq(TokenRows) /\ Len(own) = l
      /\ \A t \in 1 .. l : a + t \in 1 .. Len(whole) /\ whole[a + t] = own[t]
  <2>1. ASSUME NEW s \in Seq(TokenRows)
        PROVE  /\ Forwarded(s) \in Seq(TokenRows) /\ Len(Forwarded(s)) = Len(s)
               /\ \A k \in 1 .. Len(s) : Forwarded(s)[k] = [s[k] EXCEPT !.depth = @ + 1]
    <3>1. Len(s) \in Nat /\ DOMAIN s = 1 .. Len(s) /\ \A k \in 1 .. Len(s) : s[k] \in TokenRows
      OBVIOUS
    <3>2. ASSUME NEW k \in 1 .. Len(s) PROVE [s[k] EXCEPT !.depth = @ + 1] \in TokenRows
      <4>1. PICK r \in TokenRows : r = s[k]
        BY <3>1
      <4>2. PICK d \in Nat : d = r.depth + 1
        <5>1. r.depth \in Nat
          BY DEF TokenRows
        <5> QED
          BY <5>1
      <4>3. [r EXCEPT !.depth = d] \in TokenRows
        BY DEF TokenRows
      <4> QED
        BY <4>1, <4>2, <4>3
    <3> QED
      BY <3>1, <3>2 DEF Forwarded
  <2>2. PICK p \in Seq(TokenRows) : p = Packed(ps)
    BY <1>4
  <2>3. PICK q \in Seq(TokenRows) : q = ps[i].rows
    OBVIOUS
  <2>4. /\ whole \in Seq(TokenRows) /\ Len(whole) = Len(p)
        /\ own \in Seq(TokenRows) /\ Len(own) = Len(q)
    BY <2>1, <2>2, <2>3
  <2>5. \A t \in 1 .. l : a + t \in 1 .. Len(p) /\ p[a + t] = q[t] /\ t \in 1 .. Len(q)
    BY <1>2, <1>4, <2>2, <2>3
  <2>6. ASSUME NEW t \in 1 .. l PROVE whole[a + t] = own[t]
    <3>1. whole[a + t] = [p[a + t] EXCEPT !.depth = @ + 1]
      BY <2>1, <2>2, <2>5
    <3>2. own[t] = [q[t] EXCEPT !.depth = @ + 1]
      BY <2>1, <2>3, <2>5
    <3> QED
      BY <2>5, <3>1, <3>2
  <2> QED
    BY <1>2, <2>2, <2>3, <2>4, <2>5, <2>6
<1> HIDE DEF whole, own
<1>6. SubSeq(whole, a + 1, b) = own
  <2>1. /\ SubSeq(whole, a + 1, b) = [t \in 1 .. l |-> whole[t + a]]
    <3>1. /\ a + 1 \in Int /\ b \in Int /\ (b - (a + 1)) + 1 = l
          /\ \A t \in 1 .. l : ((a + 1) + t) - 1 = t + a
          /\ (IF a + 1 <= b THEN (b - (a + 1)) + 1 ELSE 0) = l
      BY <1>3
    <3>2. \A k \in a + 1 .. b : whole[k] \in TokenRows
      <4>1. \A k \in a + 1 .. b : k - a \in 1 .. l /\ a + (k - a) = k
        BY <1>3
      <4>2. \A k \in 1 .. Len(whole) : whole[k] \in TokenRows
        BY <1>5
      <4> QED
        BY <1>5, <4>1, <4>2
    <3>3. PICK s : s = SubSeq(whole, a + 1, b)
      OBVIOUS
    <3>4. /\ s \in Seq(TokenRows) /\ Len(s) = l
          /\ \A t \in 1 .. l : s[t] = whole[((a + 1) + t) - 1]
      <4>1. /\ SubSeq(whole, a + 1, b) \in Seq(TokenRows)
            /\ Len(SubSeq(whole, a + 1, b)) = IF a + 1 <= b THEN (b - (a + 1)) + 1 ELSE 0
            /\ \A t \in 1 .. (b - (a + 1)) + 1 :
                  SubSeq(whole, a + 1, b)[t] = whole[((a + 1) + t) - 1]
        BY ONLY <3>1, <3>2, SubSeqProperties
      <4> QED
        BY <3>1, <3>3, <4>1
    <3>5. \A t \in 1 .. l : s[t] = whole[t + a]
      BY <3>1, <3>4
    <3>6. s = [t \in 1 .. l |-> s[t]]
      BY <3>4
    <3> QED
      BY <3>3, <3>5, <3>6
  <2>2. own = [t \in 1 .. l |-> own[t]]
    BY <1>3, <1>5
  <2>3. \A t \in 1 .. l : whole[t + a] = own[t]
    BY <1>3, <1>5
  <2> QED
    BY <2>1, <2>2, <2>3
<1>7. TokenSpans(ps)[i] = <<a, b>>
  BY <1>1 DEF TokenSpans
<1>8. Demuxed(ps, TokenSpans(ps), whole)[i].rows = SubSeq(whole, TokenSpans(ps)[i][1] + 1, TokenSpans(ps)[i][2])
  <2>1. Demuxed(ps, TokenSpans(ps), whole)[i] =
           [ps[i] EXCEPT !.rows = SubSeq(whole, TokenSpans(ps)[i][1] + 1, TokenSpans(ps)[i][2]),
                         !.group = @ + 1]
    BY DEF Demuxed
  <2> QED
    BY <2>1 DEF IsChunk
<1> QED
  BY <1>6, <1>7, <1>8 DEF whole, own

(* The rows of a chunk are rows of tokens, and a group takes each further.  *)
LEMMA RowsAre ==
  ASSUME NEW r \in Requests, NEW d \in Nat
  PROVE  /\ RowsOf(r, Rows[r], d) \in Seq(TokenRows)
         /\ Forwarded(RowsOf(r, Rows[r], d)) = RowsOf(r, Rows[r], d + 1)
<1>1. PICK m \in Nat : m = Rows[r]
  BY EventLoopAssumption DEF EventLoopAssumption
<1>2. PICK s : s = [i \in 1 .. m |-> [owner |-> r, token |-> i, depth |-> d]]
  OBVIOUS
<1>3. RowsOf(r, Rows[r], d) = s
  BY <1>1, <1>2 DEF RowsOf
<1>4. s \in Seq(TokenRows) /\ DOMAIN s = 1 .. m
  <2>1. \A i \in 1 .. m : [owner |-> r, token |-> i, depth |-> d] \in TokenRows
    BY DEF TokenRows
  <2> QED
    BY <1>2, <2>1
<1>5. ASSUME NEW i \in 1 .. m
      PROVE  [s[i] EXCEPT !.depth = @ + 1] = [owner |-> r, token |-> i, depth |-> d + 1]
  <2>1. s[i] = [owner |-> r, token |-> i, depth |-> d]
    BY <1>2
  <2> QED
    BY <2>1
<1>6. Forwarded(s) = RowsOf(r, Rows[r], d + 1)
  BY <1>1, <1>4, <1>5 DEF Forwarded, RowsOf
<1> QED
  BY <1>3, <1>4, <1>6

(* The chunks of a cohort take their own rows to the next group.            *)
LEMMA AdvanceReturnsRows ==
  ASSUME LoopInv, RowsReturnHome, AdvanceInner
  PROVE  RowsReturnHome'
<1>1. PICK ms : ms = batch.members
  OBVIOUS
<1>2. /\ inflight' = (inflight \ ToSet(ms)) \cup ToSet(Executed(ms))
      /\ ms \in Seq(inflight) /\ ms # <<>>
  BY <1>1 DEF AdvanceInner, RunsStage, LoopInv, BatchFits
<1>3. PICK n \in Nat : n = Len(ms) /\ n # 0 /\ DOMAIN ms = 1 .. n
  BY <1>2
<1>4. ASSUME NEW i \in 1 .. n
      PROVE  /\ ms[i] \in inflight /\ IsChunk(ms[i])
             /\ ms[i].rows = RowsOf(ms[i].req, Rows[ms[i].req], ms[i].group)
             /\ ms[i].rows \in Seq(TokenRows)
             /\ Forwarded(ms[i].rows) = RowsOf(ms[i].req, Rows[ms[i].req], ms[i].group + 1)
  <2>1. ms[i] \in inflight
    BY <1>2, <1>3
  <2>2. IsChunk(ms[i]) /\ ms[i].rows = RowsOf(ms[i].req, Rows[ms[i].req], ms[i].group)
    BY <2>1 DEF LoopInv, LoopTypeOK, RowsReturnHome
  <2>3. ms[i].req \in Requests /\ ms[i].group \in Nat
    BY <2>2 DEF IsChunk
  <2> QED
    BY <2>1, <2>2, <2>3, RowsAre
<1>5. ASSUME NEW i \in 1 .. n
      PROVE  Executed(ms)[i].rows
                = RowsOf(Executed(ms)[i].req, Rows[Executed(ms)[i].req], Executed(ms)[i].group)
  <2>1. Executed(ms)[i].rows = Forwarded(ms[i].rows)
    <3>1. \A k \in 1 .. n : IsChunk(ms[k]) /\ ms[k].rows \in Seq(TokenRows)
      BY <1>4
    <3> QED
      BY ONLY <1>3, <3>1, n \in Nat, i \in 1 .. n, SplitAsPacked DEF Executed
  <2>2. PICK s : Executed(ms)[i] = [ms[i] EXCEPT !.rows = s, !.group = @ + 1]
    BY <1>3 DEF Executed, Demuxed
  <2>3. Executed(ms)[i].req = ms[i].req /\ Executed(ms)[i].group = ms[i].group + 1
    BY <1>4, <2>2 DEF IsChunk
  <2> QED
    BY <1>4, <2>1, <2>3
<1>6. \A c \in ToSet(Executed(ms)) : \E i \in 1 .. n : c = Executed(ms)[i]
  BY <1>3 DEF ToSet, Executed, Demuxed
<1>7. \A c \in inflight' : c.rows = RowsOf(c.req, Rows[c.req], c.group)
  BY <1>2, <1>5, <1>6 DEF RowsReturnHome
<1> QED
  BY <1>7 DEF RowsReturnHome

(* Whatever cohorts a chunk travels with, of whatever lengths, its rows are *)
(* its own tokens in order, each through the groups before the one where it *)
(* waits.                                                                   *)
THEOREM EveryRowReturnsHome == ASSUME AnyPause = FALSE PROVE Spec => []RowsReturnHome
<1>1. Init => RowsReturnHome
  BY DEF Init, RowsReturnHome
<1>2. LoopInv /\ RowsReturnHome /\ [Next]_vars => RowsReturnHome'
  <2> SUFFICES ASSUME LoopInv, RowsReturnHome, [Next]_vars PROVE RowsReturnHome'
    OBVIOUS
  <2>1. CASE inflight' \subseteq inflight
    BY <2>1 DEF RowsReturnHome
  <2>2. CASE Admit
    <3>1. \A c \in inflight' : c \in inflight \/ \E r, k, x :
             c = [req |-> r, chunk |-> k, group |-> 0, next |-> x, rows |-> RowsOf(r, Rows[r], 0)]
      BY <2>2 DEF Admit
    <3> QED
      BY <3>1 DEF RowsReturnHome
  <2>3. CASE AdvanceInner
    BY <2>3, AdvanceReturnsRows
  <2>4. CASE AdvanceFinal
    BY <2>1, <2>4 DEF AdvanceFinal
  <2>5. ASSUME NEW r \in Requests, Arrive(r) \/ Abort(r) PROVE inflight' = inflight
    BY <2>5 DEF Arrive, Abort
  <2>6. CASE PauseInPlace \/ PauseAndRetract \/ Continue
    BY <2>1, <2>6 DEF PauseInPlace, PauseAndRetract, Continue
  <2>7. CASE BeginIteration \/ Merge \/ NothingToAdd \/ BatchIsFull \/ NoToken \/ AddChunked \/ AddWaiting
    <3>1. inflight' = inflight
      BY <2>7 DEF BeginIteration, Merge, NothingToAdd, BatchIsFull, NoToken, AddChunked, AddWaiting,
                  TakesChunkOf, Rejects
    <3> QED
      BY <2>1, <3>1
  <2>8. CASE NoDecode \/ Decode \/ RetractDecode \/ RunDecode
    <3>1. inflight' = inflight
      BY <2>8 DEF NoDecode, Decode, RetractDecode, RunDecode, DecodeOn
    <3> QED
      BY <2>1, <3>1
  <2>9. CASE Select \/ Idle \/ UNCHANGED vars
    BY <2>1, <2>9 DEF Select, SelectWith, Idle, vars
  <2> QED
    BY <2>1, <2>2, <2>3, <2>4, <2>5, <2>6, <2>7, <2>8, <2>9, Limits DEF Next, Iteration
<1> QED
  BY <1>1, <1>2, LoopInvariant, PTL DEF Spec

=============================================================================
