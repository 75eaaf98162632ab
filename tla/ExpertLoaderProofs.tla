------------------------- MODULE ExpertLoaderProofs -------------------------
(***************************************************************************)
(* Proofs about ExpertLoader for every number of experts, consumers,       *)
(* workers and futures, and every size of the two caches.                  *)
(***************************************************************************)
EXTENDS ExpertLoader, FiniteSetTheorems, TLAPS

Entries == [key : Keys, locked : BOOLEAN]
Places ==
    [pc : {"idle", "lookup", "register", "insert", "unregister", "waits", "holds"},
     key : Keys \cup {None}, task : Tasks \cup {None}, locked : BOOLEAN,
     out : SUBSET Entries]

(* Every variable the cache depends on holds a value of its type; only the  *)
(* steps between reading and unregistering carry tensors.                   *)
LoaderTypeOK ==
    /\ at \in [Threads -> Places]
    /\ cache \in Seq(Entries)
    /\ registered \subseteq Keys
    /\ registers \in BOOLEAN /\ leaked \in BOOLEAN /\ raced \in BOOLEAN
    /\ \A x \in Threads :
          /\ at[x].pc # "idle" => at[x].key \in Keys
          /\ at[x].pc # "unregister" => at[x].out = {}
          /\ at[x].pc # "insert" => ~ at[x].locked

(* A future waits in the queue once, or one worker runs it.                 *)
TasksInOnePlace ==
    /\ task \in [Tasks -> [key : Keys \cup {None},
                           state : {"free", "queued", "running", "done", "failed"}]]
    /\ queue \in Seq(Tasks)
    /\ \A i \in DOMAIN queue :
          task[queue[i]].state = "queued" /\ task[queue[i]].key \in Keys
    /\ \A i, j \in DOMAIN queue : queue[i] = queue[j] => i = j
    /\ \A w \in Workers : at[w].pc # "idle" =>
          at[w].task \in Tasks /\ task[at[w].task].state = "running"
    /\ \A w, v \in Workers :
          w # v /\ at[w].pc # "idle" /\ at[v].pc # "idle" => at[w].task # at[v].task

(* The cache holds an expert once, and not more than it may.                *)
CacheOK ==
    /\ Len(cache) <= MaxCached
    /\ \A i, j \in DOMAIN cache : cache[i].key = cache[j].key => i = j

(* Until two threads have one expert in hand, what a thread has in hand is  *)
(* not in the cache, and what is page-locked is registered.                 *)
HandsApart ==
    ~ raced =>
        /\ \A x, y \in Threads : x # y => InHand(at[x]) \cap InHand(at[y]) = {}
        /\ \A x \in Threads :
              /\ at[x].pc \in {"register", "insert"} => Cached(at[x].key) = {}
              /\ at[x].locked => at[x].key \in registered
              /\ \A e \in at[x].out :
                    Cached(e.key) = {} /\ (e.locked => e.key \in registered)
        /\ \A e \in ToSet(cache) : e.locked => e.key \in registered

Safe == RegisteredAreCached /\ HandsApart /\ LeaksOnlyWhenRaced
LoaderInv == LoaderTypeOK /\ TasksInOnePlace /\ CacheOK /\ Safe

-----------------------------------------------------------------------------
(* The two operations on the cache. *)

(* Moving an element to the end loses nothing.                              *)
LEMMA ToEndSame ==
  ASSUME NEW S, NEW seq \in Seq(S), NEW e \in ToSet(seq)
  PROVE  /\ ToEnd(seq, e) \in Seq(S) /\ Len(ToEnd(seq, e)) = Len(seq)
         /\ ToSet(ToEnd(seq, e)) = ToSet(seq)
<1> DEFINE n == Len(seq)
           i == CHOOSE j \in DOMAIN seq : seq[j] = e
           moved == [j \in DOMAIN seq |->
                        IF j < i THEN seq[j] ELSE IF j < Len(seq) THEN seq[j + 1] ELSE e]
<1>1. n \in Nat /\ DOMAIN seq = 1 .. n /\ i \in 1 .. n /\ seq[i] = e /\ e \in S
  BY DEF ToSet
<1>2. ToEnd(seq, e) = moved
  BY DEF ToEnd
<1> HIDE DEF i
<1>3. moved \in Seq(S) /\ Len(moved) = n /\ DOMAIN moved = 1 .. n
  <2>1. \A j \in 1 .. n : moved[j] \in S
    BY <1>1
  <2> QED
    BY <1>1, <2>1
<1>4. ToSet(moved) = ToSet(seq)
  <2>1. \A j \in 1 .. n : moved[j] \in ToSet(seq)
    BY <1>1 DEF ToSet
  <2>2. \A j \in 1 .. n : \E k \in 1 .. n : moved[k] = seq[j]
    <3> TAKE j \in 1 .. n
    <3>1. CASE j < i
      BY <1>1, <3>1
    <3>2. CASE j = i
      <4>1. moved[n] = e
        BY <1>1
      <4> QED
        BY <1>1, <3>2, <4>1
    <3>3. CASE j > i
      <4>1. j - 1 \in 1 .. n /\ moved[j - 1] = seq[j]
        BY <1>1, <3>3
      <4> QED
        BY <4>1
    <3> QED
      BY <1>1, <3>1, <3>2, <3>3
  <2> QED
    BY <1>1, <1>3, <2>1, <2>2 DEF ToSet
<1> QED
  BY <1>2, <1>3, <1>4

(* Moving an entry of the cache to the end doubles nothing either.          *)
LEMMA ToEndKeeps ==
  ASSUME cache \in Seq(Entries), CacheOK, NEW e \in ToSet(cache)
  PROVE  /\ ToEnd(cache, e) \in Seq(Entries)
         /\ Len(ToEnd(cache, e)) = Len(cache)
         /\ ToSet(ToEnd(cache, e)) = ToSet(cache)
         /\ \A i, j \in DOMAIN ToEnd(cache, e) :
               ToEnd(cache, e)[i].key = ToEnd(cache, e)[j].key => i = j
<1> DEFINE n == Len(cache)
           i == CHOOSE j \in DOMAIN cache : cache[j] = e
           moved == [j \in DOMAIN cache |->
                        IF j < i THEN cache[j] ELSE IF j < Len(cache) THEN cache[j + 1] ELSE e]
<1>1. n \in Nat /\ DOMAIN cache = 1 .. n /\ i \in 1 .. n /\ cache[i] = e
  BY DEF ToSet
<1>2. ToEnd(cache, e) = moved
  BY DEF ToEnd
<1> HIDE DEF i
<1>3. \A j, k \in 1 .. n : moved[j].key = moved[k].key => j = k
  BY <1>1 DEF CacheOK
<1>4. DOMAIN moved = 1 .. n
  BY <1>1
<1>5. ToEnd(cache, e) \in Seq(Entries) /\ Len(ToEnd(cache, e)) = Len(cache)
  BY ToEndSame
<1>6. ToSet(ToEnd(cache, e)) = ToSet(cache)
  BY ToEndSame
<1> HIDE DEF moved
<1> QED
  BY <1>2, <1>3, <1>4, <1>5, <1>6

(* Inserting an expert loses no expert but the one it evicts, and that one  *)
(* is gone from the cache.                                                  *)
LEMMA InsertKeeps ==
  ASSUME LoaderTypeOK, CacheOK, NEW x \in Threads, Insert(x)
  PROVE  /\ at[x].pc = "insert" /\ at[x].key \in Keys /\ at[x].out = {}
         /\ cache' \in Seq(Entries) /\ CacheOK'
         /\ at'[x].out \subseteq Entries
         /\ ToSet(cache') \cup at'[x].out
               \subseteq ToSet(cache) \cup {[key |-> at[x].key, locked |-> at[x].locked]}
         /\ \A k \in Keys : k = at[x].key \/ Cached(k) # {} =>
               (\E d \in ToSet(cache') : d.key = k) \/ \E d \in at'[x].out : d.key = k
         /\ \A d \in at'[x].out : ~ \E c \in ToSet(cache') : c.key = d.key
<1> DEFINE n == Len(cache)
           e == [key |-> at[x].key, locked |-> at[x].locked]
           all == Replaced(e)
           out == IF Evicts(all) THEN {Head(all)} ELSE {}
           rest == IF Evicts(all) THEN Tail(all) ELSE all
<1>1. /\ n \in Nat /\ DOMAIN cache = 1 .. n /\ n <= MaxCached /\ MaxCached \in Nat \ {0}
      /\ \A i \in 1 .. n : cache[i] \in Entries
      /\ \A i, j \in 1 .. n : cache[i].key = cache[j].key => i = j
      /\ ToSet(cache) = {cache[i] : i \in 1 .. n}
  BY LoaderAssumption DEF LoaderTypeOK, CacheOK, ToSet
<1>2. at[x].pc = "insert" /\ at[x].key \in Keys /\ at[x].out = {} /\ e \in Entries
  BY DEF Insert, LoaderTypeOK, Places, Entries
<1>3. cache' = rest
  BY DEF Insert
<1>4. at'[x].out = out
  BY DEF Insert, Go, LoaderTypeOK, Places
<1> HIDE DEF e
<1>5. /\ all \in Seq(Entries)
      /\ \A i, j \in DOMAIN all : all[i].key = all[j].key => i = j
      /\ ToSet(all) \subseteq ToSet(cache) \cup {e}
      /\ \A k \in Keys : k = e.key \/ Cached(k) # {} => \E i \in DOMAIN all : all[i].key = k
      /\ Len(all) <= MaxCached \/ (Len(all) = MaxCached + 1)
  <2>1. CASE Cached(e.key) = {}
    <3>1. all = Append(cache, e) /\ Len(all) = n + 1 /\ DOMAIN all = 1 .. (n + 1)
      BY <1>1, <1>2, <2>1 DEF Replaced, LoaderTypeOK
    <3>2. all[n + 1] = e /\ \A i \in 1 .. n : all[i] = cache[i]
      BY <1>1, <1>2, <3>1 DEF LoaderTypeOK
    <3>3. \A i \in 1 .. n : cache[i].key # e.key
      BY <1>1, <2>1 DEF Cached
    <3>4. all \in Seq(Entries)
      BY <1>2, <3>1 DEF LoaderTypeOK
    <3>5. \A i, j \in DOMAIN all : all[i].key = all[j].key => i = j
      BY <1>1, <3>1, <3>2, <3>3
    <3>6. ToSet(all) \subseteq ToSet(cache) \cup {e}
      BY <1>1, <3>1, <3>2 DEF ToSet
    <3>7. \A k \in Keys : k = e.key \/ Cached(k) # {} => \E i \in DOMAIN all : all[i].key = k
      BY <1>1, <3>1, <3>2 DEF Cached
    <3> QED
      BY <1>1, <3>1, <3>4, <3>5, <3>6, <3>7
  <2>2. CASE Cached(e.key) # {}
    <3>1. all = [i \in 1 .. n |-> IF cache[i].key = e.key THEN e ELSE cache[i]]
      BY <1>1, <2>2 DEF Replaced
    <3>2. all \in Seq(Entries) /\ Len(all) = n /\ DOMAIN all = 1 .. n
      BY <1>1, <1>2, <3>1
    <3>3. \A i \in 1 .. n : all[i].key = cache[i].key
      BY <1>1, <3>1
    <3>4. \A i, j \in DOMAIN all : all[i].key = all[j].key => i = j
      BY <1>1, <3>2, <3>3
    <3>5. ToSet(all) \subseteq ToSet(cache) \cup {e}
      BY <1>1, <3>1, <3>2 DEF ToSet
    <3>6. \A k \in Keys : k = e.key \/ Cached(k) # {} => \E i \in DOMAIN all : all[i].key = k
      BY <1>1, <2>2, <3>2, <3>3 DEF Cached
    <3> QED
      BY <1>1, <3>2, <3>4, <3>5, <3>6
  <2> QED
    BY <2>1, <2>2
<1> HIDE DEF all
<1>6. CASE ~ Evicts(all)
  <2>1. rest = all /\ out = {}
    BY <1>6
  <2>2. Len(all) <= MaxCached
    BY <1>1, <1>5, <1>6 DEF Evicts
  <2>3. \A k \in Keys : k = e.key \/ Cached(k) # {} => \E d \in ToSet(all) : d.key = k
    BY <1>5 DEF ToSet
  <2> QED
    BY <1>2, <1>3, <1>4, <1>5, <2>1, <2>2, <2>3 DEF CacheOK, e
<1>7. CASE Evicts(all)
  <2>1. Len(all) = MaxCached + 1 /\ DOMAIN all = 1 .. (MaxCached + 1)
    BY <1>1, <1>5, <1>7 DEF Evicts
  <2>2. rest = Tail(all) /\ out = {all[1]}
    BY <1>7, <1>5, <2>1, <1>1
  <2>3. /\ rest \in Seq(Entries) /\ Len(rest) = MaxCached /\ DOMAIN rest = 1 .. MaxCached
        /\ \A i \in 1 .. MaxCached : rest[i] = all[i + 1]
    BY <1>1, <1>5, <2>1, <2>2
  <2>4. all[1] \in Entries
    BY <1>1, <1>5, <2>1
  <2>5. \A i, j \in DOMAIN rest : rest[i].key = rest[j].key => i = j
    BY <1>1, <1>5, <2>1, <2>3
  <2>6. ToSet(rest) \cup out \subseteq ToSet(all)
    BY <1>1, <2>1, <2>2, <2>3 DEF ToSet
  <2>7. \A k \in Keys : k = e.key \/ Cached(k) # {} =>
            (\E d \in ToSet(rest) : d.key = k) \/ \E d \in out : d.key = k
    <3> SUFFICES ASSUME NEW k \in Keys, k = e.key \/ Cached(k) # {}
                 PROVE  (\E d \in ToSet(rest) : d.key = k) \/ \E d \in out : d.key = k
      OBVIOUS
    <3>1. PICK i \in 1 .. (MaxCached + 1) : all[i].key = k
      BY <1>5, <2>1
    <3>2. CASE i = 1
      BY <2>2, <3>1, <3>2
    <3>3. CASE i # 1
      <4>1. i - 1 \in 1 .. MaxCached /\ rest[i - 1] = all[i]
        BY <1>1, <2>3, <3>3
      <4> QED
        BY <2>3, <3>1, <4>1 DEF ToSet
    <3> QED
      BY <3>2, <3>3
  <2>8. \A d \in out : ~ \E c \in ToSet(rest) : c.key = d.key
    <3>1. \A i \in 1 .. MaxCached : all[i + 1].key # all[1].key
      BY <1>1, <1>5, <2>1
    <3> QED
      BY <2>2, <2>3, <3>1 DEF ToSet
  <2> HIDE DEF rest, out
  <2>9. CacheOK'
    BY <1>3, <1>1, <2>3, <2>5 DEF CacheOK
  <2>10. out \subseteq Entries
    BY <2>2, <2>4
  <2>11. ToSet(rest) \cup out \subseteq ToSet(cache) \cup {e}
    BY <1>5, <2>6
  <2> QED
    BY <1>2, <1>3, <1>4, <2>3, <2>7, <2>8, <2>9, <2>10, <2>11 DEF e
<1> QED
  BY <1>6, <1>7

-----------------------------------------------------------------------------
(* The steps, by what they do to the hands of a thread. *)

CalmPC == {"idle", "lookup", "waits", "holds"}
Calm(p) ==
    /\ p \in Places /\ p.pc \in CalmPC
    /\ p.pc # "idle" => p.key \in Keys
    /\ p.out = {} /\ ~ p.locked
CalmStep(x) ==
    /\ at[x].pc \in CalmPC
    /\ \E p \in Places : Calm(p) /\ Go(x, p)
    /\ cache' \in Seq(Entries) /\ CacheOK' /\ ToSet(cache') = ToSet(cache)
    /\ UNCHANGED <<registered, registers, leaked>>

(* A place made by At is calm if its pc is.                                 *)
LEMMA AtIsCalm ==
  ASSUME NEW k \in Keys, NEW t \in Tasks \cup {None}, NEW pc \in CalmPC
  PROVE  Calm(At(pc, k, t)) /\ Calm(Idle)
BY DEF Calm, CalmPC, At, Idle, Places

(* A load that ends leaves its thread with nothing in hand.                 *)
LEMMA EndsCalmly ==
  ASSUME LoaderTypeOK, NEW x \in Threads, at[x].key \in Keys, NEW outcome, Ends(x, outcome)
  PROVE  \E p \in Places : Calm(p) /\ Go(x, p)
<1>1. Calm(Idle) /\ Calm(At("holds", at[x].key, None))
  BY AtIsCalm DEF CalmPC
<1> QED
  BY <1>1 DEF Ends, Calm

(* Four steps of a load move tensors; all others are calm.                  *)
LEMMA StepKinds ==
  ASSUME LoaderTypeOK, TasksInOnePlace, CacheOK, Next
  PROVE  \/ UNCHANGED <<at, raced, host>>
         \/ \E x \in Threads :
               CalmStep(x) \/ Read(x) \/ Register(x) \/ Insert(x) \/ Unregister(x)
<1>1. ASSUME NEW x \in Threads, at[x].pc \in CalmPC, UNCHANGED host,
             \E p \in Places : Calm(p) /\ Go(x, p)
      PROVE  CalmStep(x)
  BY <1>1 DEF CalmStep, host, LoaderTypeOK, CacheOK
<1>2. ASSUME NEW k \in Keys, SubmitPrefetch(k) \/ RefusePrefetch(k)
      PROVE  UNCHANGED <<at, raced, host>>
  BY <1>2 DEF SubmitPrefetch, RefusePrefetch
<1>3. ASSUME NEW c \in Consumers, NEW k \in Keys, Consume(c, k)
      PROVE  CalmStep(c)
  <2>1. c \in Threads
    BY DEF Threads
  <2>2. \A t \in Tasks \cup {None}, pc \in CalmPC : Calm(At(pc, k, t))
    BY AtIsCalm
  <2>3. at[c].pc \in CalmPC /\ UNCHANGED host
    BY <1>3 DEF Consume, TakeReady, TakeFuture, TakeDirect, Idle, At, CalmPC
  <2>4. CASE TakeReady(c, k)
    BY <1>1, <2>1, <2>2, <2>3, <2>4 DEF TakeReady, CalmPC, Calm
  <2>5. CASE TakeFuture(c, k)
    <3>1. PICK t \in Tasks : Go(c, At("waits", k, t))
      BY <2>5 DEF TakeFuture, FutureOf
    <3> QED
      BY <1>1, <2>1, <2>2, <2>3, <3>1 DEF CalmPC, Calm
  <2>6. CASE TakeDirect(c, k)
    BY <1>1, <2>1, <2>2, <2>3, <2>6 DEF TakeDirect, CalmPC, Calm
  <2> QED
    BY <1>3, <2>4, <2>5, <2>6 DEF Consume
<1>4. ASSUME NEW x \in Threads, LookupHits(x) PROVE CalmStep(x)
  <2>1. at[x].pc = "lookup" /\ at[x].key \in Keys
    BY <1>4 DEF LookupHits, LoaderTypeOK
  <2>2. PICK e \in ToSet(cache) : cache' = ToEnd(cache, e)
    BY <1>4 DEF LookupHits, Cached
  <2>3. cache' \in Seq(Entries) /\ CacheOK' /\ ToSet(cache') = ToSet(cache)
    BY <2>2, ToEndKeeps DEF LoaderTypeOK, CacheOK
  <2>4. \E p \in Places : Calm(p) /\ Go(x, p)
    BY <1>4, <2>1, EndsCalmly DEF LookupHits
  <2> QED
    BY <1>4, <2>1, <2>3, <2>4 DEF LookupHits, CalmStep, CalmPC
<1>5. ASSUME NEW x \in Threads, ReadFails(x) PROVE CalmStep(x)
  <2>1. at[x].pc = "lookup" /\ at[x].key \in Keys
    BY <1>5 DEF ReadFails, Misses, LoaderTypeOK
  <2>2. \E p \in Places : Calm(p) /\ Go(x, p)
    BY <1>5, <2>1, EndsCalmly DEF ReadFails
  <2> QED
    BY <1>1, <1>5, <2>1, <2>2 DEF ReadFails, CalmPC
<1>6. ASSUME NEW w \in Workers, Begin(w) PROVE CalmStep(w)
  <2>1. w \in Threads
    BY DEF Threads
  <2>2. Head(queue) \in Tasks /\ KeyOf(Head(queue)) \in Keys
    BY <1>6 DEF Begin, TasksInOnePlace, KeyOf
  <2>3. Calm(At("lookup", KeyOf(Head(queue)), Head(queue)))
    BY <2>2, AtIsCalm DEF CalmPC
  <2> QED
    BY <1>1, <1>6, <2>1, <2>3 DEF Begin, Idle, At, CalmPC, Calm
<1>7. ASSUME NEW c \in Consumers, Receive(c) \/ Release(c) PROVE CalmStep(c)
  <2>1. c \in Threads /\ at[c].key \in Keys /\ at[c].pc \in CalmPC /\ UNCHANGED host
    BY <1>7 DEF Threads, Receive, Release, LoaderTypeOK, CalmPC
  <2>2. Calm(Idle) /\ Calm(At("holds", at[c].key, None))
    BY <2>1, AtIsCalm DEF CalmPC
  <2>3. \E p \in Places : Calm(p) /\ Go(c, p)
    BY <1>7, <2>2 DEF Receive, Release, Calm
  <2> QED
    BY <1>1, <2>1, <2>3
<1>8. ASSUME NEW x \in Threads, Step(x)
      PROVE  CalmStep(x) \/ Read(x) \/ Register(x) \/ Insert(x) \/ Unregister(x)
  BY <1>4, <1>5, <1>6, <1>7, <1>8 DEF Step, Load
<1> QED
  BY <1>2, <1>3, <1>8 DEF Next, Threads

(* The types are kept, and the cache stays within its size.                 *)
LEMMA TypesStep ==
  ASSUME LoaderTypeOK, TasksInOnePlace, CacheOK, Next
  PROVE  LoaderTypeOK' /\ CacheOK'
<1>1. ASSUME NEW x \in Threads, NEW p \in Places, Go(x, p),
             cache' \in Seq(Entries), registered' \subseteq Keys,
             registers' \in BOOLEAN, leaked' \in BOOLEAN,
             p.pc # "idle" => p.key \in Keys,
             p.pc # "unregister" => p.out = {},
             p.pc # "insert" => ~ p.locked
      PROVE  LoaderTypeOK'
  <2>1. raced' \in BOOLEAN
    BY <1>1 DEF Go, LoaderTypeOK
  <2>2. at' \in [Threads -> Places] /\ at' = [at EXCEPT ![x] = p]
    BY <1>1 DEF Go, LoaderTypeOK
  <2>3. \A y \in Threads : at'[y] = IF y = x THEN p ELSE at[y]
    BY <2>2 DEF LoaderTypeOK
  <2> QED
    BY <1>1, <2>1, <2>2, <2>3 DEF LoaderTypeOK
<1>2. CASE UNCHANGED <<at, raced, host>>
  BY <1>2 DEF host, LoaderTypeOK, CacheOK
<1>3. ASSUME NEW x \in Threads, CalmStep(x) PROVE LoaderTypeOK' /\ CacheOK'
  <2>1. PICK p \in Places : Calm(p) /\ Go(x, p)
    BY <1>3 DEF CalmStep
  <2> QED
    BY <1>1, <1>3, <2>1 DEF CalmStep, Calm, CalmPC, LoaderTypeOK
<1>4. ASSUME NEW x \in Threads, Read(x) PROVE LoaderTypeOK' /\ CacheOK'
  <2> DEFINE p == [at[x] EXCEPT !.pc = IF registers THEN "register" ELSE "insert"]
  <2>1. /\ p \in Places /\ Go(x, p) /\ p.pc \in {"register", "insert"} /\ p.key \in Keys
        /\ p.out = {} /\ ~ p.locked
    BY <1>4 DEF Read, Misses, LoaderTypeOK, Places
  <2> HIDE DEF p
  <2> QED
    BY <1>1, <1>4, <2>1 DEF Read, host, LoaderTypeOK, CacheOK
<1>5. ASSUME NEW x \in Threads, Register(x) PROVE LoaderTypeOK' /\ CacheOK'
  <2>1. PICK l \in BOOLEAN :
          /\ registered' = IF l THEN registered \cup {at[x].key} ELSE registered
          /\ registers' = (registers /\ (l \/ ~ Registrable(x)))
          /\ Go(x, [at[x] EXCEPT !.pc = "insert", !.locked = l])
    BY <1>5 DEF Register
  <2> DEFINE p == [at[x] EXCEPT !.pc = "insert", !.locked = l]
  <2>2. p \in Places /\ Go(x, p) /\ p.pc = "insert" /\ p.key = at[x].key /\ p.out = {}
        /\ at[x].key \in Keys
    BY <1>5, <2>1 DEF Register, LoaderTypeOK, Places
  <2> HIDE DEF p
  <2>3. registers' \in BOOLEAN /\ registered' \subseteq Keys
    BY <2>1, <2>2 DEF LoaderTypeOK
  <2> QED
    BY <1>1, <1>5, <2>2, <2>3 DEF Register, LoaderTypeOK, CacheOK
<1>6. ASSUME NEW x \in Threads, Insert(x) PROVE LoaderTypeOK' /\ CacheOK'
  <2>1. PICK p : Go(x, p) /\ \E o : p = [at[x] EXCEPT !.pc = "unregister", !.locked = FALSE, !.out = o]
    BY <1>6 DEF Insert
  <2>2. PICK o : p = [at[x] EXCEPT !.pc = "unregister", !.locked = FALSE, !.out = o]
    BY <2>1
  <2>3. p.out = o /\ p.pc = "unregister" /\ p.key = at[x].key /\ p.locked = FALSE
    BY <2>2 DEF LoaderTypeOK, Places
  <2>4. at'[x] = p
    BY <2>1 DEF Go, LoaderTypeOK
  <2>5. p \in Places
    <3>1. o \subseteq Entries
      BY <1>6, <2>3, <2>4, InsertKeeps
    <3> QED
      BY <2>2, <3>1 DEF LoaderTypeOK, Places
  <2>6. leaked' \in BOOLEAN
    BY <1>6 DEF Insert, LoaderTypeOK
  <2> QED
    BY <1>1, <1>6, <2>1, <2>3, <2>5, <2>6, InsertKeeps DEF Insert, LoaderTypeOK
<1>7. ASSUME NEW x \in Threads, Unregister(x) PROVE LoaderTypeOK' /\ CacheOK'
  <2>1. at[x].key \in Keys
    BY <1>7 DEF Unregister, LoaderTypeOK
  <2>2. PICK p \in Places : Calm(p) /\ Go(x, p)
    BY <1>7, <2>1, EndsCalmly DEF Unregister
  <2>3. leaked' \in BOOLEAN
    BY <1>7 DEF Unregister, LoaderTypeOK
  <2> QED
    BY <1>1, <1>7, <2>2, <2>3 DEF Unregister, Calm, CalmPC, LoaderTypeOK, CacheOK
<1> QED
  BY <1>2, <1>3, <1>4, <1>5, <1>6, <1>7, StepKinds

-----------------------------------------------------------------------------
(* The futures. *)

(* Taking in what is done frees only futures that nobody waits to run.      *)
LEMMA DrainedKeeps ==
  ASSUME TasksInOnePlace
  PROVE  /\ Drained \in [Tasks -> [key : Keys \cup {None},
                                   state : {"free", "queued", "running", "done", "failed"}]]
         /\ \A t \in Tasks : task[t].state \in {"queued", "running"} => Drained[t] = task[t]
BY DEF TasksInOnePlace, Drained, Over, Free

(* A step that leaves the workers and the queue, and keeps every future     *)
(* that is queued or running, keeps each future in its one place.           *)
LEMMA TasksUndisturbed ==
  ASSUME TasksInOnePlace, queue' = queue,
         \A w \in Workers : at'[w] = at[w],
         task' \in [Tasks -> [key : Keys \cup {None},
                              state : {"free", "queued", "running", "done", "failed"}]],
         \A t \in Tasks : task[t].state \in {"queued", "running"} => task'[t] = task[t]
  PROVE  TasksInOnePlace'
BY DEF TasksInOnePlace

(* Each future stays in one place.                                          *)
LEMMA TasksStep ==
  ASSUME LoaderTypeOK, TasksInOnePlace, Next
  PROVE  TasksInOnePlace'
<1>0. LoaderAssumption
  BY LoaderAssumption
<1>1. ASSUME NEW k \in Keys, SubmitPrefetch(k) PROVE TasksInOnePlace'
  <2>1. PICK t \in Tasks :
          /\ Drained[t] = Free
          /\ task' = [Drained EXCEPT ![t] = [key |-> k, state |-> "queued"]]
          /\ queue' = Append(queue, t)
    BY <1>1 DEF SubmitPrefetch, Unused
  <2>2. \A i \in DOMAIN queue : queue[i] \in Tasks /\ queue[i] # t
    BY <2>1, DrainedKeeps DEF TasksInOnePlace, Free
  <2>3. \A w \in Workers : at[w].pc # "idle" => at[w].task # t
    BY <2>1, DrainedKeeps DEF TasksInOnePlace, Free
  <2>4. /\ task' \in [Tasks -> [key : Keys \cup {None},
                                state : {"free", "queued", "running", "done", "failed"}]]
        /\ task'[t] = [key |-> k, state |-> "queued"]
        /\ \A u \in Tasks \ {t} :
              task[u].state \in {"queued", "running"} => task'[u] = task[u]
    BY <2>1, DrainedKeeps
  <2>5. /\ queue' \in Seq(Tasks) /\ DOMAIN queue' = 1 .. (Len(queue) + 1)
        /\ DOMAIN queue = 1 .. Len(queue) /\ Len(queue) \in Nat
        /\ queue'[Len(queue) + 1] = t
        /\ \A i \in DOMAIN queue : queue'[i] = queue[i]
    BY <2>1 DEF TasksInOnePlace
  <2>6. \A i \in DOMAIN queue' : task'[queue'[i]].state = "queued" /\ task'[queue'[i]].key \in Keys
    <3> TAKE i \in DOMAIN queue'
    <3>1. CASE i = Len(queue) + 1
      BY <2>4, <2>5, <3>1
    <3>2. CASE i # Len(queue) + 1
      <4>1. i \in DOMAIN queue
        BY <2>5, <3>2
      <4> QED
        BY <2>2, <2>4, <2>5, <4>1 DEF TasksInOnePlace
    <3> QED
      BY <3>1, <3>2
  <2>7. \A i, j \in DOMAIN queue' : queue'[i] = queue'[j] => i = j
    BY <2>2, <2>5 DEF TasksInOnePlace
  <2>8. at' = at
    BY <1>1 DEF SubmitPrefetch
  <2> QED
    BY <2>3, <2>4, <2>5, <2>6, <2>7, <2>8 DEF TasksInOnePlace
<1>2. ASSUME NEW k \in Keys, RefusePrefetch(k) PROVE TasksInOnePlace'
  BY <1>2, DrainedKeeps, TasksUndisturbed DEF RefusePrefetch
<1>3. ASSUME NEW c \in Consumers, NEW p, Go(c, p) PROVE \A w \in Workers : at'[w] = at[w]
  BY <1>0, <1>3 DEF Go, LoaderAssumption, LoaderTypeOK, Threads
<1>4. ASSUME NEW c \in Consumers, NEW k \in Keys, Consume(c, k) PROVE TasksInOnePlace'
  <2>1. (\E p : Go(c, p)) /\ task' = Drained /\ queue' = queue
    BY <1>4 DEF Consume, TakeReady, TakeFuture, TakeDirect
  <2> QED
    BY <1>3, <2>1, DrainedKeeps, TasksUndisturbed
<1>5. ASSUME NEW c \in Consumers, Receive(c) PROVE TasksInOnePlace'
  <2>1. (\E p : Go(c, p)) /\ queue' = queue
    BY <1>5 DEF Receive, prefetches
  <2>2. /\ task' \in [Tasks -> [key : Keys \cup {None},
                                state : {"free", "queued", "running", "done", "failed"}]]
        /\ \A t \in Tasks : task[t].state \in {"queued", "running"} => task'[t] = task[t]
    BY <1>5 DEF Receive, Over, Free, TasksInOnePlace
  <2> QED
    BY <1>3, <2>1, <2>2, TasksUndisturbed
<1>6. ASSUME NEW c \in Consumers, Release(c) PROVE TasksInOnePlace'
  <2>1. (\E p : Go(c, p)) /\ queue' = queue /\ task' = task
    BY <1>6 DEF Release, prefetches
  <2> QED
    BY <1>3, <2>1, TasksUndisturbed DEF TasksInOnePlace
<1>7. ASSUME NEW w \in Workers, Begin(w) PROVE TasksInOnePlace'
  <2> DEFINE h == Head(queue)
  <2>1. /\ at[w] = Idle /\ queue # <<>> /\ queue' = Tail(queue)
        /\ task' = [task EXCEPT ![h].state = "running"]
        /\ at' = [at EXCEPT ![w] = At("lookup", KeyOf(h), h)]
    BY <1>7 DEF Begin, Go
  <2>2. /\ Len(queue) \in Nat \ {0} /\ DOMAIN queue = 1 .. Len(queue) /\ h = queue[1]
        /\ queue' \in Seq(Tasks) /\ DOMAIN queue' = 1 .. (Len(queue) - 1)
        /\ \A i \in DOMAIN queue' : queue'[i] = queue[i + 1]
    BY <2>1 DEF TasksInOnePlace
  <2>3. h \in Tasks /\ task[h].state = "queued" /\ task[h].key \in Keys
    BY <2>2 DEF TasksInOnePlace
  <2> HIDE DEF h
  <2>4. /\ task' \in [Tasks -> [key : Keys \cup {None},
                                state : {"free", "queued", "running", "done", "failed"}]]
        /\ task'[h].state = "running" /\ \A u \in Tasks \ {h} : task'[u] = task[u]
    BY <2>1, <2>3 DEF TasksInOnePlace
  <2>5. \A i \in DOMAIN queue' : i + 1 \in DOMAIN queue /\ queue[i + 1] \in Tasks \ {h}
    BY <2>2 DEF TasksInOnePlace
  <2>6. \A i \in DOMAIN queue' : task'[queue'[i]].state = "queued" /\ task'[queue'[i]].key \in Keys
    BY <2>2, <2>4, <2>5 DEF TasksInOnePlace
  <2>7. \A i, j \in DOMAIN queue' : queue'[i] = queue'[j] => i = j
    <3> TAKE i, j \in DOMAIN queue'
    <3>1. i \in Nat /\ j \in Nat
      BY <2>2
    <3>2. queue[i + 1] = queue[j + 1] => i + 1 = j + 1
      BY <2>5 DEF TasksInOnePlace
    <3> QED
      BY <2>2, <3>1, <3>2
  <2>8. \A v \in Workers : v \in Threads
    BY DEF Threads
  <2>9. at'[w].task = h /\ \A v \in Workers \ {w} : at'[v] = at[v]
    BY <2>1, <2>8 DEF LoaderTypeOK, At
  <2>10. \A v \in Workers \ {w} : at[v].pc # "idle" => at[v].task # h
    BY <2>3 DEF TasksInOnePlace
  <2>11. \A v \in Workers : at'[v].pc # "idle" =>
            at'[v].task \in Tasks /\ task'[at'[v].task].state = "running"
    BY <2>3, <2>4, <2>9, <2>10 DEF TasksInOnePlace
  <2>12. \A u, v \in Workers :
            u # v /\ at'[u].pc # "idle" /\ at'[v].pc # "idle" => at'[u].task # at'[v].task
    BY <2>9, <2>10 DEF TasksInOnePlace
  <2> QED
    BY <2>2, <2>4, <2>6, <2>7, <2>11, <2>12 DEF TasksInOnePlace
<1>8. ASSUME NEW x \in Threads, NEW outcome \in {"done", "failed"}, Ends(x, outcome),
             queue' = queue, at[x].pc # "idle"
      PROVE  TasksInOnePlace'
  <2>1. CASE x \in Consumers
    <3>1. x \notin Workers
      BY <1>0, <2>1 DEF LoaderAssumption
    <3>2. (\E p : Go(x, p)) /\ task' = task
      BY <1>8, <3>1 DEF Ends
    <3> QED
      BY <1>3, <1>8, <2>1, <3>2, TasksUndisturbed DEF TasksInOnePlace
  <2>2. CASE x \in Workers
    <3> DEFINE h == at[x].task
    <3>1. at' = [at EXCEPT ![x] = Idle] /\ task' = [task EXCEPT ![h].state = outcome]
      BY <1>8, <2>2 DEF Ends, Go
    <3>2. h \in Tasks /\ task[h].state = "running"
      BY <1>8, <2>2 DEF TasksInOnePlace
    <3>3. \A v \in Workers \ {x} : at[v].pc # "idle" => at[v].task # h
      BY <1>8, <2>2 DEF TasksInOnePlace
    <3> HIDE DEF h
    <3>4. /\ task' \in [Tasks -> [key : Keys \cup {None},
                                  state : {"free", "queued", "running", "done", "failed"}]]
          /\ \A u \in Tasks \ {h} : task'[u] = task[u]
      BY <3>1, <3>2 DEF TasksInOnePlace
    <3>5. at'[x].pc = "idle" /\ \A v \in Workers \ {x} : at'[v] = at[v]
      BY <3>1 DEF LoaderTypeOK, Idle, At, Threads
    <3>6. \A i \in DOMAIN queue : queue[i] \in Tasks \ {h}
      BY <3>2 DEF TasksInOnePlace
    <3> QED
      BY <1>8, <3>3, <3>4, <3>5, <3>6 DEF TasksInOnePlace
  <2> QED
    BY <2>1, <2>2 DEF Threads
<1>9. ASSUME NEW x \in Threads, NEW p \in Places, Go(x, p),
             at[x].pc # "idle", p.task = at[x].task, p.pc # "idle",
             queue' = queue, task' = task
      PROVE  TasksInOnePlace'
  <2>1. at'[x] = p /\ \A v \in Threads \ {x} : at'[v] = at[v]
    BY <1>9 DEF Go, LoaderTypeOK
  <2>2. \A v \in Workers : v \in Threads /\ at'[v].task = at[v].task
                           /\ (at'[v].pc = "idle" <=> at[v].pc = "idle")
    BY <1>9, <2>1 DEF Threads
  <2> QED
    BY <1>9, <2>2 DEF TasksInOnePlace
<1>10. ASSUME NEW x \in Threads, Load(x) PROVE TasksInOnePlace'
  <2>1. CASE LookupHits(x)
    BY <1>8, <2>1 DEF LookupHits, prefetches
  <2>2. CASE ReadFails(x)
    BY <1>8, <2>2 DEF ReadFails, Misses, Failure, prefetches
  <2>3. CASE Unregister(x)
    BY <1>8, <2>3 DEF Unregister, prefetches
  <2>4. CASE Read(x)
    <3> DEFINE p == [at[x] EXCEPT !.pc = IF registers THEN "register" ELSE "insert"]
    <3>1. p \in Places /\ p.task = at[x].task /\ p.pc \in {"register", "insert"} /\ Go(x, p)
      BY <2>4 DEF Read, LoaderTypeOK, Places
    <3> HIDE DEF p
    <3> QED
      BY <1>9, <2>4, <3>1 DEF Read, Misses, prefetches
  <2>5. CASE Register(x)
    <3>1. PICK l \in BOOLEAN : Go(x, [at[x] EXCEPT !.pc = "insert", !.locked = l])
      BY <2>5 DEF Register
    <3> DEFINE p == [at[x] EXCEPT !.pc = "insert", !.locked = l]
    <3>2. p \in Places /\ p.task = at[x].task /\ p.pc = "insert" /\ Go(x, p)
      BY <2>5, <3>1 DEF LoaderTypeOK, Places
    <3> HIDE DEF p
    <3> QED
      BY <1>9, <2>5, <3>2 DEF Register, prefetches
  <2>6. CASE Insert(x)
    <3>1. PICK o : Go(x, [at[x] EXCEPT !.pc = "unregister", !.locked = FALSE, !.out = o])
      BY <2>6 DEF Insert
    <3> DEFINE p == [at[x] EXCEPT !.pc = "unregister", !.locked = FALSE, !.out = o]
    <3>2. /\ at'[x] = p /\ \A v \in Threads \ {x} : at'[v] = at[v]
          /\ p.task = at[x].task /\ p.pc = "unregister" /\ at[x].pc = "insert"
      BY <2>6, <3>1 DEF Insert, Go, LoaderTypeOK, Places
    <3> HIDE DEF p
    <3>3. \A v \in Workers : v \in Threads /\ at'[v].task = at[v].task
                             /\ (at'[v].pc = "idle" <=> at[v].pc = "idle")
      BY <3>2 DEF Threads
    <3>4. queue' = queue /\ task' = task
      BY <2>6 DEF Insert, prefetches
    <3> QED
      BY <3>3, <3>4 DEF TasksInOnePlace
  <2> QED
    BY <1>10, <2>1, <2>2, <2>3, <2>4, <2>5, <2>6 DEF Load
<1> QED
  BY <1>1, <1>2, <1>4, <1>5, <1>6, <1>7, <1>10 DEF Next, Step

-----------------------------------------------------------------------------
(* What was prefetched. *)

(* What is ready and what is under way fit together; a future in the table  *)
(* is in use, and nobody waits for it; whoever waits has a future alone.    *)
FuturesHeld ==
    /\ ready \in Seq(Keys) /\ futures \in Seq(Tasks)
    /\ Len(ready) + Len(futures) <= MaxPrefetched
    /\ \A t \in ToSet(futures) : task[t].state # "free" /\ task[t].key \in Keys
    /\ \A c \in Consumers : at[c].pc = "waits" =>
          at[c].task \in Tasks /\ at[c].task \notin ToSet(futures) /\ task[at[c].task].state # "free"
    /\ \A c, d \in Consumers :
          c # d /\ at[c].pc = "waits" /\ at[d].pc = "waits" => at[c].task # at[d].task

(* How many members of a finite set of naturals are not above a member      *)
(* numbers them.                                                            *)
LEMMA Numbered ==
  ASSUME NEW m \in Nat, NEW I \in SUBSET (1 .. m)
  PROVE  /\ IsFiniteSet(I) /\ Cardinality(I) \in Nat
         /\ \A i \in I : Cardinality({j \in I : j <= i}) \in 1 .. Cardinality(I)
         /\ \A i, k \in I : Cardinality({j \in I : j <= i}) = Cardinality({j \in I : j <= k}) => i = k
         /\ \A n \in 1 .. Cardinality(I) : \E i \in I : Cardinality({j \in I : j <= i}) = n
<1> DEFINE UpTo(i) == {j \in I : j <= i}
           f == [i \in I |-> Cardinality(UpTo(i))]
<1>1. IsFiniteSet(I) /\ Cardinality(I) \in Nat
  <2>1. IsFiniteSet(1 .. m)
    BY FS_Interval
  <2> QED
    BY <2>1, FS_Subset, FS_CardinalityType
<1>2. ASSUME NEW i \in I
      PROVE  /\ IsFiniteSet(UpTo(i)) /\ Cardinality(UpTo(i)) \in 1 .. Cardinality(I)
  <2>1. UpTo(i) \in SUBSET I /\ {i} \in SUBSET UpTo(i)
    OBVIOUS
  <2> HIDE DEF UpTo
  <2>2. IsFiniteSet(UpTo(i)) /\ Cardinality(UpTo(i)) <= Cardinality(I)
    BY <1>1, <2>1, FS_Subset
  <2>3. Cardinality(UpTo(i)) \in Nat
    BY <2>2, FS_CardinalityType
  <2>4. Cardinality({i}) <= Cardinality(UpTo(i)) /\ Cardinality({i}) = 1
    BY <2>1, <2>2, FS_Subset, FS_Singleton
  <2> QED
    BY <1>1, <2>2, <2>3, <2>4
<1>3. ASSUME NEW i \in I, NEW k \in I, i < k, Cardinality(UpTo(i)) = Cardinality(UpTo(k))
      PROVE  FALSE
  <2>0. i < k /\ i \in Int /\ k \in Int /\ \A j \in I : j \in Int
    BY <1>3
  <2>1. UpTo(i) \in SUBSET UpTo(k) /\ k \in UpTo(k) /\ k \notin UpTo(i)
    <3>1. \A j \in UpTo(i) : j \in UpTo(k)
      BY <2>0
    <3>2. k \in UpTo(k)
      BY <2>0
    <3>3. k \notin UpTo(i)
      BY <2>0
    <3> QED
      BY <3>1, <3>2, <3>3
  <2> HIDE DEF UpTo
  <2>2. UpTo(i) = UpTo(k)
    BY <1>2, <1>3, <2>1, FS_Subset
  <2> QED
    BY <2>1, <2>2
<1>4. \A i, k \in I : Cardinality(UpTo(i)) = Cardinality(UpTo(k)) => i = k
  <2> SUFFICES ASSUME NEW i \in I, NEW k \in I, Cardinality(UpTo(i)) = Cardinality(UpTo(k)), i # k
               PROVE  FALSE
    OBVIOUS
  <2>1. i < k \/ k < i
    OBVIOUS
  <2> QED
    BY <1>3, <2>1
<1>5. f \in Injection(I, 1 .. Cardinality(I))
  BY <1>2, <1>4 DEF Injection, IsInjective
<1>6. f \in Surjection(I, 1 .. Cardinality(I))
  BY <1>1, <1>5, FS_Injection, FS_Interval
<1>7. \A n \in 1 .. Cardinality(I) : \E i \in I : Cardinality(UpTo(i)) = n
  BY <1>6 DEF Surjection
<1> QED
  BY <1>1, <1>2, <1>4, <1>7

(* Those(seq, I) has the elements of seq at I, and as many of them.         *)
LEMMA ThoseAre ==
  ASSUME NEW S, NEW seq \in Seq(S), NEW I \in SUBSET DOMAIN seq
  PROVE  /\ Those(seq, I) \in Seq(S) /\ Len(Those(seq, I)) = Cardinality(I)
         /\ ToSet(Those(seq, I)) = {seq[i] : i \in I}
<1> DEFINE N == Cardinality(I)
           Nth(n) == CHOOSE i \in I : Cardinality({j \in I : j <= i}) = n
           t == [n \in 1 .. N |-> seq[Nth(n)]]
<1>1. Len(seq) \in Nat /\ DOMAIN seq = 1 .. Len(seq) /\ \A i \in DOMAIN seq : seq[i] \in S
  OBVIOUS
<1>2. /\ N \in Nat
      /\ \A i \in I : Cardinality({j \in I : j <= i}) \in 1 .. N
      /\ \A i, k \in I : Cardinality({j \in I : j <= i}) = Cardinality({j \in I : j <= k}) => i = k
      /\ \A n \in 1 .. N : \E i \in I : Cardinality({j \in I : j <= i}) = n
  BY <1>1, Numbered
<1>3. \A n \in 1 .. N : Nth(n) \in I /\ Cardinality({j \in I : j <= Nth(n)}) = n
  BY <1>2
<1>4. \A i \in I : \E n \in 1 .. N : Nth(n) = i
  BY <1>2, <1>3
<1> HIDE DEF Nth, N
<1>5. t \in [1 .. N -> S]
  BY <1>1, <1>3
<1>6. t \in Seq(S) /\ DOMAIN t = 1 .. N /\ Len(t) = N
  BY <1>2, <1>5
<1>7. ToSet(t) = {seq[i] : i \in I}
  BY <1>3, <1>4, <1>6 DEF ToSet
<1>8. t = Those(seq, I)
  BY DEF Those, Nth, N
<1> QED
  BY <1>6, <1>7, <1>8 DEF N

(* Positions of a sequence with nothing in common are no more than there    *)
(* are.                                                                     *)
LEMMA PartsFit ==
  ASSUME NEW S, NEW seq \in Seq(S), NEW I \in SUBSET DOMAIN seq, NEW J \in SUBSET DOMAIN seq,
         I \cap J = {}
  PROVE  Cardinality(I) + Cardinality(J) <= Len(seq)
<1>1. PICK n \in Nat : n = Len(seq) /\ DOMAIN seq = 1 .. n
  OBVIOUS
<1>2. IsFiniteSet(1 .. n) /\ Cardinality(1 .. n) = n
  BY FS_Interval
<1>3. IsFiniteSet(I) /\ IsFiniteSet(J) /\ Cardinality(I) \in Nat /\ Cardinality(J) \in Nat
  BY <1>1, <1>2, FS_Subset, FS_CardinalityType
<1>4. I \cup J \in SUBSET (1 .. n) /\ Cardinality({}) = 0
  BY <1>1, FS_EmptySet
<1>5. Cardinality(I \cup J) <= n
  BY <1>2, <1>4, FS_Subset
<1>6. /\ IsFiniteSet(I \cup J)
      /\ Cardinality(I \cup J) = Cardinality(I) + Cardinality(J) - Cardinality(I \cap J)
  <2>1. PICK A, B : A = I /\ B = J
    OBVIOUS
  <2>2. IsFiniteSet(A) /\ IsFiniteSet(B)
    BY <1>3, <2>1
  <2>3. /\ IsFiniteSet(A \cup B)
        /\ Cardinality(A \cup B) = Cardinality(A) + Cardinality(B) - Cardinality(A \cap B)
    BY ONLY <2>2, FS_Union
  <2> QED
    BY <2>1, <2>3
<1>7. Cardinality(I \cap J) = 0
  BY <1>4
<1>8. PICK a, b, c : a = Cardinality(I) /\ b = Cardinality(J) /\ c = Cardinality(I \cup J)
  OBVIOUS
<1>9. a \in Nat /\ b \in Nat /\ c = a + b - 0 /\ c <= n
  BY <1>3, <1>5, <1>6, <1>7, <1>8
<1>10. a + b <= n
  BY <1>9
<1> QED
  BY <1>1, <1>8, <1>10

(* The two parts _drain_completed_prefetch_locked takes the table apart     *)
(* into.                                                                    *)
LEMMA DrainSplits ==
  ASSUME FuturesHeld
  PROVE  /\ OpenFutures \in Seq(Tasks) /\ Results \in Seq(Tasks)
         /\ ToSet(OpenFutures) = {t \in ToSet(futures) : ~ Over(t)}
         /\ ToSet(Results) = {t \in ToSet(futures) : task[t].state = "done"}
         /\ Len(OpenFutures) + Len(Results) <= Len(futures)
<1>1. PICK I, J : /\ I = {i \in DOMAIN futures : ~ Over(futures[i])}
                  /\ J = {i \in DOMAIN futures : task[futures[i]].state = "done"}
  OBVIOUS
<1>2. I \in SUBSET DOMAIN futures /\ J \in SUBSET DOMAIN futures /\ I \cap J = {}
  BY <1>1 DEF Over
<1>3. OpenFutures = Those(futures, I) /\ Results = Those(futures, J)
  BY <1>1 DEF OpenFutures, Results
<1>4. futures \in Seq(Tasks)
  BY DEF FuturesHeld
<1>5. /\ Those(futures, I) \in Seq(Tasks) /\ Len(Those(futures, I)) = Cardinality(I)
      /\ ToSet(Those(futures, I)) = {futures[i] : i \in I}
  BY <1>2, <1>4, ThoseAre
<1>6. /\ Those(futures, J) \in Seq(Tasks) /\ Len(Those(futures, J)) = Cardinality(J)
      /\ ToSet(Those(futures, J)) = {futures[i] : i \in J}
  BY <1>2, <1>4, ThoseAre
<1>7. Cardinality(I) + Cardinality(J) <= Len(futures)
  BY <1>2, <1>4, PartsFit
<1>8. {futures[i] : i \in I} = {t \in ToSet(futures) : ~ Over(t)}
  BY <1>1 DEF ToSet
<1>9. {futures[i] : i \in J} = {t \in ToSet(futures) : task[t].state = "done"}
  BY <1>1 DEF ToSet
<1> QED
  BY <1>3, <1>5, <1>6, <1>7, <1>8, <1>9

(* Taking in what is done throws nothing away.                              *)
LEMMA DrainKeepsAll ==
  ASSUME FuturesHeld
  PROVE  /\ ReadyNow \in Seq(Keys) /\ ToSet(ReadyNow) = Fetched
         /\ Len(ReadyNow) + Len(OpenFutures) <= MaxPrefetched
<1>1. /\ Results \in Seq(Tasks) /\ Len(OpenFutures) \in Nat /\ Len(Results) \in Nat
      /\ ToSet(Results) = {t \in ToSet(futures) : task[t].state = "done"}
      /\ Len(OpenFutures) + Len(Results) <= Len(futures)
  BY DrainSplits
<1>2. /\ ready \in Seq(Keys) /\ Len(ready) \in Nat /\ Len(futures) \in Nat
      /\ Len(ready) + Len(futures) <= MaxPrefetched /\ MaxPrefetched \in Nat
  BY LoaderAssumption DEF FuturesHeld
<1>3. PICK keys : keys = [i \in DOMAIN Results |-> KeyOf(Results[i])]
  OBVIOUS
<1>4. PICK n \in Nat : n = Len(Results) /\ DOMAIN Results = 1 .. n
  BY <1>1
<1>5. \A i \in 1 .. n : Results[i] \in ToSet(Results) /\ KeyOf(Results[i]) \in Keys
  <2>1. \A i \in 1 .. n : Results[i] \in ToSet(Results)
    BY <1>4 DEF ToSet
  <2> QED
    BY <1>1, <2>1 DEF FuturesHeld, KeyOf
<1>6. keys \in Seq(Keys) /\ Len(keys) = n /\ DOMAIN keys = 1 .. n
  <2>1. keys \in [1 .. n -> Keys]
    BY <1>3, <1>4, <1>5
  <2> QED
    BY <2>1
<1>7. ToSet(keys) = {KeyOf(t) : t \in ToSet(Results)}
  BY <1>3, <1>4, <1>6 DEF ToSet
<1>8. AllReady = ready \o keys
  BY <1>3 DEF AllReady
<1>9. /\ ready \o keys \in Seq(Keys) /\ Len(ready \o keys) = Len(ready) + n
      /\ ToSet(ready \o keys) = ToSet(ready) \cup ToSet(keys)
  <2>1. /\ ready \o keys \in Seq(Keys) /\ Len(ready \o keys) = Len(ready) + n
        /\ DOMAIN (ready \o keys) = 1 .. (Len(ready) + n)
        /\ \A i \in 1 .. Len(ready) : (ready \o keys)[i] = ready[i]
        /\ \A i \in 1 .. n : (ready \o keys)[Len(ready) + i] = keys[i]
    BY <1>2, <1>6
  <2>2. DOMAIN ready = 1 .. Len(ready) /\ DOMAIN keys = 1 .. n
    BY <1>2, <1>6
  <2>3. \A i \in 1 .. (Len(ready) + n) : i \in 1 .. Len(ready) \/ i - Len(ready) \in 1 .. n
    BY <1>2
  <2>4. \A i \in 1 .. (Len(ready) + n) : (ready \o keys)[i] \in ToSet(ready) \cup ToSet(keys)
    <3> TAKE i \in 1 .. (Len(ready) + n)
    <3>1. CASE i \in 1 .. Len(ready)
      BY <2>1, <2>2, <3>1 DEF ToSet
    <3>2. CASE i - Len(ready) \in 1 .. n
      <4>1. i = Len(ready) + (i - Len(ready))
        BY <1>2
      <4>2. (ready \o keys)[i] = keys[i - Len(ready)]
        BY <2>1, <3>2, <4>1
      <4> QED
        BY <2>2, <3>2, <4>2 DEF ToSet
    <3> QED
      BY <2>3, <3>1, <3>2
  <2>5. ToSet(ready) \cup ToSet(keys) \subseteq ToSet(ready \o keys)
    <3>1. \A i \in 1 .. Len(ready) : i \in 1 .. (Len(ready) + n)
      BY <1>2
    <3>2. \A i \in 1 .. n : Len(ready) + i \in 1 .. (Len(ready) + n)
      BY <1>2
    <3> QED
      BY <2>1, <2>2, <3>1, <3>2 DEF ToSet
  <2>6. ToSet(ready \o keys) \subseteq ToSet(ready) \cup ToSet(keys)
    BY <2>1, <2>4 DEF ToSet
  <2> QED
    BY <2>1, <2>5, <2>6
<1>10. GivesWay = 0
  BY <1>1, <1>2, <1>4, <1>8, <1>9 DEF GivesWay
<1>11. ReadyNow = ready \o keys
  BY <1>8, <1>9, <1>10 DEF ReadyNow
<1>12. ToSet(ReadyNow) = Fetched
  BY <1>1, <1>7, <1>9, <1>11 DEF Fetched
<1> QED
  BY <1>1, <1>2, <1>4, <1>9, <1>11, <1>12

(* A step that leaves ready, futures and the waiting threads alone, and the *)
(* key of every future and whether it is free.                              *)
LEMMA HeldUndisturbed ==
  ASSUME FuturesHeld, UNCHANGED <<ready, futures>>,
         \A c \in Consumers : at'[c].pc = "waits" => at'[c] = at[c],
         \A t \in Tasks : task'[t].key = task[t].key,
         \A t \in Tasks : task'[t].state = "free" => task[t].state = "free"
  PROVE  FuturesHeld'
<1>1. \A t \in ToSet(futures) : t \in Tasks
  BY DEF FuturesHeld, ToSet
<1> QED
  BY <1>1 DEF FuturesHeld

(* Taking one future out of the table.                                      *)
LEMMA WithoutOne ==
  ASSUME NEW S, NEW seq \in Seq(S), NEW e
  PROVE  /\ Without(seq, e) \in Seq(S) /\ Len(Without(seq, e)) <= Len(seq)
         /\ ToSet(Without(seq, e)) = ToSet(seq) \ {e}
<1>1. PICK I : I = {i \in DOMAIN seq : seq[i] # e}
  OBVIOUS
<1>2. I \in SUBSET DOMAIN seq /\ {} \in SUBSET DOMAIN seq /\ I \cap {} = {}
  BY <1>1
<1>3. /\ Those(seq, I) \in Seq(S) /\ Len(Those(seq, I)) = Cardinality(I)
      /\ ToSet(Those(seq, I)) = {seq[i] : i \in I}
  BY <1>2, ThoseAre
<1>4. Cardinality(I) + Cardinality({}) <= Len(seq) /\ Cardinality({}) = 0
  BY <1>2, PartsFit, FS_EmptySet
<1>5. Cardinality(I) \in Nat
  BY <1>3
<1>6. {seq[i] : i \in I} = ToSet(seq) \ {e}
  BY <1>1 DEF ToSet
<1>7. Without(seq, e) = Those(seq, I)
  BY <1>1 DEF Without
<1> QED
  BY <1>3, <1>4, <1>5, <1>6, <1>7

(* What the entry points leave in the table is neither free nor drained.    *)
LEMMA OpenAreKept ==
  ASSUME TasksInOnePlace, FuturesHeld
  PROVE  /\ \A t \in ToSet(OpenFutures) :
               t \in Tasks /\ Drained[t] = task[t] /\ task[t].state # "free" /\ task[t].key \in Keys
               /\ t \in ToSet(futures) /\ ~ Over(t)
         /\ \A t \in Tasks : t \notin ToSet(futures) => Drained[t] = task[t]
<1>1. ToSet(OpenFutures) = {t \in ToSet(futures) : ~ Over(t)}
  BY DrainSplits
<1>2. \A t \in ToSet(futures) : t \in Tasks
  BY DEF FuturesHeld, ToSet
<1> QED
  BY <1>1, <1>2 DEF Drained, FuturesHeld

(* After an entry point has drained the table: the part of the invariant    *)
(* that is about those who wait.                                            *)
LEMMA DrainedHeld ==
  ASSUME TasksInOnePlace, FuturesHeld, ready' \in Seq(Keys), Len(ready') = Len(ReadyNow),
         futures' \in Seq(Tasks), Len(futures') <= Len(OpenFutures),
         ToSet(futures') \subseteq ToSet(OpenFutures), task' = Drained,
         \A c \in Consumers : at'[c].pc = "waits" =>
             \/ at'[c] = at[c]
             \/ /\ at'[c].task \in ToSet(OpenFutures) /\ at'[c].task \notin ToSet(futures')
                /\ \A d \in Consumers \ {c} : at'[d] = at[d]
  PROVE  FuturesHeld'
<1>1. \A t \in ToSet(OpenFutures) :
         t \in Tasks /\ task'[t] = task[t] /\ task[t].state # "free" /\ task[t].key \in Keys
         /\ t \in ToSet(futures)
  BY OpenAreKept
<1>2. \A t \in Tasks : t \notin ToSet(futures) => task'[t] = task[t]
  BY OpenAreKept
<1>3. Len(ready') + Len(futures') <= MaxPrefetched
  <2>1. Len(ReadyNow) + Len(OpenFutures) <= MaxPrefetched /\ ReadyNow \in Seq(Keys)
        /\ OpenFutures \in Seq(Tasks) /\ MaxPrefetched \in Nat
    BY DrainKeepsAll, DrainSplits, LoaderAssumption
  <2>2. Len(ready') \in Nat /\ Len(futures') \in Nat /\ Len(OpenFutures) \in Nat
    BY <2>1
  <2> QED
    BY <2>1, <2>2
<1>4. \A t \in ToSet(futures') : task'[t].state # "free" /\ task'[t].key \in Keys
  BY <1>1
<1>5. ASSUME NEW c \in Consumers, at'[c].pc = "waits"
      PROVE  /\ at'[c].task \in Tasks /\ at'[c].task \notin ToSet(futures')
             /\ task'[at'[c].task].state # "free"
  <2>1. CASE at'[c] = at[c]
    <3>1. /\ at[c].task \in Tasks /\ at[c].task \notin ToSet(futures)
          /\ task[at[c].task].state # "free"
      BY <1>5, <2>1 DEF FuturesHeld
    <3>2. at[c].task \notin ToSet(futures')
      BY <1>1, <3>1
    <3> QED
      BY <1>2, <2>1, <3>1, <3>2
  <2>2. CASE at'[c] # at[c]
    <3>1. at'[c].task \in ToSet(OpenFutures) /\ at'[c].task \notin ToSet(futures')
      BY <1>5, <2>2
    <3> QED
      BY <1>1, <3>1
  <2> QED
    BY <2>1, <2>2
<1>6. ASSUME NEW c \in Consumers, NEW d \in Consumers,
             c # d, at'[c].pc = "waits", at'[d].pc = "waits"
      PROVE  at'[c].task # at'[d].task
  <2>1. \A e \in Consumers : at[e].pc = "waits" => at[e].task \notin ToSet(futures)
    BY DEF FuturesHeld
  <2>2. CASE at'[c] = at[c] /\ at'[d] = at[d]
    BY <1>6, <2>2 DEF FuturesHeld
  <2>3. CASE at'[c] # at[c]
    <3>1. at'[c].task \in ToSet(futures) /\ at'[d] = at[d]
      BY <1>1, <1>6, <2>3
    <3> QED
      BY <1>6, <2>1, <3>1
  <2>4. CASE at'[d] # at[d]
    <3>1. at'[d].task \in ToSet(futures) /\ at'[c] = at[c]
      BY <1>1, <1>6, <2>4
    <3> QED
      BY <1>6, <2>1, <3>1
  <2> QED
    BY <2>2, <2>3, <2>4
<1> QED
  BY <1>3, <1>4, <1>5, <1>6 DEF FuturesHeld

(* What was fetched stays when the table stays and no result is taken back. *)
LEMMA FetchedUndisturbed ==
  ASSUME UNCHANGED <<ready, futures>>,
         \A t \in ToSet(futures) : task[t].state = "done" =>
             task'[t].state = "done" /\ task'[t].key = task[t].key
  PROVE  Fetched \subseteq Fetched'
<1>1. \A t \in ToSet(futures) : task[t].state = "done" => KeyOf(t)' = KeyOf(t)
  BY DEF KeyOf
<1> QED
  BY <1>1 DEF Fetched

(* ... and when the table is drained.                                       *)
LEMMA FetchedDrained ==
  ASSUME FuturesHeld, ToSet(ready') = ToSet(ReadyNow)
  PROVE  Fetched \subseteq Fetched'
<1>1. ToSet(ReadyNow) = Fetched
  BY DrainKeepsAll
<1> QED
  BY <1>1 DEF Fetched

(* A thread that goes on waits for nothing it did not wait for before.      *)
LEMMA WaitersStay ==
  ASSUME LoaderTypeOK, NEW x \in Threads, NEW p, Go(x, p), p.pc # "waits"
  PROVE  \A c \in Consumers : at'[c].pc = "waits" => at'[c] = at[c]
BY DEF Go, LoaderTypeOK, Threads

(* What was fetched stays, and what is in the table is held, at every step. *)
LEMMA FuturesStep ==
  ASSUME LoaderTypeOK, TasksInOnePlace, FuturesHeld, Next
  PROVE  FuturesHeld' /\ Fetched \subseteq Fetched'
<1>0. /\ Consumers \cap Workers = {} /\ MaxPrefetched \in Nat
      /\ ReadyNow \in Seq(Keys) /\ OpenFutures \in Seq(Tasks)
  BY LoaderAssumption, DrainKeepsAll, DrainSplits
<1>1. ASSUME NEW k \in Keys, SubmitPrefetch(k) PROVE FuturesHeld' /\ Fetched \subseteq Fetched'
  <2>1. PICK t \in Tasks :
          /\ Drained[t] = Free
          /\ task' = [Drained EXCEPT ![t] = [key |-> k, state |-> "queued"]]
          /\ futures' = Append(OpenFutures, t) /\ ready' = ReadyNow /\ at' = at
          /\ Len(ReadyNow) + Len(OpenFutures) < MaxPrefetched
    BY <1>1 DEF SubmitPrefetch, Unused, MayPrefetch, HasRoom
  <2>2. /\ futures' \in Seq(Tasks) /\ Len(futures') = Len(OpenFutures) + 1
        /\ ToSet(futures') = ToSet(OpenFutures) \cup {t}
    <3>1. /\ Append(OpenFutures, t) \in Seq(Tasks) /\ Len(OpenFutures) \in Nat
          /\ Len(Append(OpenFutures, t)) = Len(OpenFutures) + 1
          /\ DOMAIN OpenFutures = 1 .. Len(OpenFutures)
          /\ DOMAIN Append(OpenFutures, t) = 1 .. (Len(OpenFutures) + 1)
          /\ Append(OpenFutures, t)[Len(OpenFutures) + 1] = t
          /\ \A i \in 1 .. Len(OpenFutures) : Append(OpenFutures, t)[i] = OpenFutures[i]
      BY <1>0
    <3> QED
      BY <2>1, <3>1 DEF ToSet
  <2>3. Len(ready') + Len(futures') <= MaxPrefetched
    <3>1. Len(ReadyNow) \in Nat /\ Len(OpenFutures) \in Nat
      BY <1>0
    <3> QED
      BY <1>0, <2>1, <2>2, <3>1
  <2>4. \A u \in Tasks \ {t} : task'[u] = Drained[u]
    BY <2>1, DrainedKeeps
  <2>5. task'[t] = [key |-> k, state |-> "queued"]
    BY <2>1, DrainedKeeps
  <2>6. \A u \in ToSet(futures') : task'[u].state # "free" /\ task'[u].key \in Keys
    BY <2>2, <2>4, <2>5, OpenAreKept
  <2>7. \A c \in Consumers : at[c].pc = "waits" =>
           at[c].task # t /\ task'[at[c].task] = task[at[c].task]
    <3> TAKE c \in Consumers
    <3> HAVE at[c].pc = "waits"
    <3>1. /\ at[c].task \in Tasks /\ at[c].task \notin ToSet(futures)
          /\ task[at[c].task].state # "free"
      BY DEF FuturesHeld
    <3>2. Drained[at[c].task] = task[at[c].task]
      BY <3>1, OpenAreKept
    <3>3. at[c].task # t
      BY <2>1, <3>1, <3>2 DEF Free
    <3> QED
      BY <2>4, <3>1, <3>2, <3>3
  <2>8. \A c \in Consumers : at[c].pc = "waits" => at[c].task \notin ToSet(futures')
    BY <2>2, <2>7, OpenAreKept DEF FuturesHeld
  <2>9. FuturesHeld'
    BY <1>0, <2>1, <2>2, <2>3, <2>6, <2>7, <2>8 DEF FuturesHeld
  <2>10. Fetched \subseteq Fetched'
    BY <2>1, FetchedDrained
  <2> QED
    BY <2>9, <2>10
<1>2. ASSUME NEW k \in Keys, RefusePrefetch(k) PROVE FuturesHeld' /\ Fetched \subseteq Fetched'
  <2>1. task' = Drained /\ futures' = OpenFutures /\ ready' = ReadyNow /\ at' = at
    BY <1>2 DEF RefusePrefetch
  <2>2. Len(OpenFutures) \in Nat
    BY <1>0
  <2>3. FuturesHeld'
    BY <1>0, <2>1, <2>2, DrainedHeld
  <2>4. Fetched \subseteq Fetched'
    BY <2>1, FetchedDrained
  <2> QED
    BY <2>3, <2>4
<1>3. ASSUME NEW c \in Consumers, NEW k \in Keys, Consume(c, k)
      PROVE  FuturesHeld' /\ Fetched \subseteq Fetched'
  <2>1. c \in Threads /\ Len(OpenFutures) \in Nat /\ task' = Drained
    BY <1>0, <1>3 DEF Threads, Consume, TakeReady, TakeFuture, TakeDirect
  <2>2. CASE TakeReady(c, k)
    <3>1. ready' = ToEnd(ReadyNow, k) /\ k \in ToSet(ReadyNow) /\ futures' = OpenFutures
          /\ Go(c, At("holds", k, None))
      BY <2>2 DEF TakeReady
    <3>2. /\ ready' \in Seq(Keys) /\ Len(ready') = Len(ReadyNow) /\ ToSet(ready') = ToSet(ReadyNow)
      BY <1>0, <3>1, ToEndSame
    <3>3. \A d \in Consumers : at'[d].pc = "waits" => at'[d] = at[d]
      BY <2>1, <3>1, WaitersStay DEF At
    <3>4. FuturesHeld'
      BY <1>0, <2>1, <3>1, <3>2, <3>3, DrainedHeld
    <3> QED
      BY <3>2, <3>4, FetchedDrained
  <2>3. CASE TakeFuture(c, k)
    <3>1. PICK t \in FutureOf(k) : Go(c, At("waits", k, t)) /\ futures' = Without(OpenFutures, t)
      BY <2>3 DEF TakeFuture
    <3>2. t \in ToSet(OpenFutures) /\ ready' = ReadyNow
      BY <2>3, <3>1 DEF TakeFuture, FutureOf
    <3>3. /\ futures' \in Seq(Tasks) /\ Len(futures') <= Len(OpenFutures)
          /\ ToSet(futures') = ToSet(OpenFutures) \ {t}
      BY <1>0, <3>1, WithoutOne
    <3>4. at'[c].task = t /\ \A d \in Consumers \ {c} : at'[d] = at[d]
      BY <2>1, <3>1 DEF Go, At, LoaderTypeOK, Threads
    <3>5. \A d \in Consumers : at'[d].pc = "waits" =>
             \/ at'[d] = at[d]
             \/ /\ at'[d].task \in ToSet(OpenFutures) /\ at'[d].task \notin ToSet(futures')
                /\ \A b \in Consumers \ {d} : at'[b] = at[b]
      BY <3>2, <3>3, <3>4
    <3>6. FuturesHeld'
      BY <1>0, <2>1, <3>2, <3>3, <3>5, DrainedHeld
    <3> QED
      BY <3>2, <3>6, FetchedDrained
  <2>4. CASE TakeDirect(c, k)
    <3>1. ready' = ReadyNow /\ futures' = OpenFutures /\ Go(c, At("lookup", k, None))
      BY <2>4 DEF TakeDirect
    <3>2. \A d \in Consumers : at'[d].pc = "waits" => at'[d] = at[d]
      BY <2>1, <3>1, WaitersStay DEF At
    <3>3. FuturesHeld'
      BY <1>0, <2>1, <3>1, <3>2, DrainedHeld
    <3> QED
      BY <3>1, <3>3, FetchedDrained
  <2> QED
    BY <1>3, <2>2, <2>3, <2>4 DEF Consume
<1>4. ASSUME UNCHANGED <<ready, futures>>, NEW x \in Threads, NEW p, Go(x, p), p.pc # "waits",
             NEW h, NEW s, s # "free",
             task' = task \/ (h \in Tasks /\ task[h].state \in {"queued", "running"}
                              /\ task' = [task EXCEPT ![h].state = s])
      PROVE  FuturesHeld' /\ Fetched \subseteq Fetched'
  <2>1. /\ \A t \in Tasks : task'[t].key = task[t].key
        /\ \A t \in Tasks : task'[t].state = "free" => task[t].state = "free"
        /\ \A t \in Tasks : task[t].state = "done" => task'[t].state = "done"
    <3>1. CASE task' = task
      BY <3>1
    <3>2. CASE h \in Tasks /\ task[h].state \in {"queued", "running"}
               /\ task' = [task EXCEPT ![h].state = s]
      <4>1. \A t \in Tasks : task[t] \in [key : Keys \cup {None},
                state : {"free", "queued", "running", "done", "failed"}]
        BY DEF TasksInOnePlace
      <4>2. /\ task'[h] = [task[h] EXCEPT !.state = s]
            /\ \A t \in Tasks \ {h} : task'[t] = task[t]
        BY <3>2 DEF TasksInOnePlace
      <4>3. task'[h].key = task[h].key /\ task'[h].state = s
        BY <3>2, <4>1, <4>2
      <4>4. task'[h].state # "free" /\ task[h].state # "done"
        BY <1>4, <3>2, <4>3
      <4> QED
        BY <4>2, <4>3, <4>4
    <3> QED
      BY <1>4, <3>1, <3>2
  <2>2. \A c \in Consumers : at'[c].pc = "waits" => at'[c] = at[c]
    BY <1>4, WaitersStay
  <2>3. \A t \in ToSet(futures) : t \in Tasks
    BY DEF FuturesHeld, ToSet
  <2>4. FuturesHeld'
    BY <1>4, <2>1, <2>2, HeldUndisturbed
  <2>5. Fetched \subseteq Fetched'
    BY <1>4, <2>1, <2>3, FetchedUndisturbed
  <2> QED
    BY <2>4, <2>5
<1>5. ASSUME NEW w \in Workers, Begin(w) PROVE FuturesHeld' /\ Fetched \subseteq Fetched'
  <2>1. PICK h : h = Head(queue)
    OBVIOUS
  <2>2. h \in Tasks /\ task[h].state = "queued"
    BY <1>5, <2>1 DEF Begin, TasksInOnePlace
  <2>3. /\ UNCHANGED <<ready, futures>> /\ Go(w, At("lookup", KeyOf(h), h))
        /\ task' = [task EXCEPT ![h].state = "running"]
    BY <1>5, <2>1 DEF Begin
  <2>4. w \in Threads /\ At("lookup", KeyOf(h), h).pc = "lookup"
    BY DEF Threads, At
  <2> QED
    BY <1>4, <2>2, <2>3, <2>4
<1>6. ASSUME NEW x \in Threads, NEW outcome \in {"done", "failed"}, Ends(x, outcome),
             UNCHANGED <<ready, futures>>, at[x].pc # "idle"
      PROVE  FuturesHeld' /\ Fetched \subseteq Fetched'
  <2>1. Idle.pc # "waits" /\ At("holds", at[x].key, None).pc # "waits"
    BY DEF Idle, At
  <2>2. CASE x \in Workers
    <3>1. at[x].task \in Tasks /\ task[at[x].task].state = "running"
      BY <1>6, <2>2 DEF TasksInOnePlace
    <3>2. Go(x, Idle) /\ task' = [task EXCEPT ![at[x].task].state = outcome] /\ outcome # "free"
      BY <1>6, <2>2 DEF Ends
    <3> QED
      BY <1>4, <1>6, <2>1, <3>1, <3>2
  <2>3. CASE x \notin Workers
    <3>1. task' = task /\ (Go(x, Idle) \/ Go(x, At("holds", at[x].key, None)))
      BY <1>6, <2>3 DEF Ends
    <3>2. "running" # "free"
      OBVIOUS
    <3> QED
      BY <1>4, <1>6, <2>1, <3>1, <3>2
  <2> QED
    BY <2>2, <2>3
<1>7. ASSUME NEW x \in Threads, NEW p, Go(x, p), p.pc # "waits", UNCHANGED <<ready, futures, task>>
      PROVE  FuturesHeld' /\ Fetched \subseteq Fetched'
  <2>1. "running" # "free"
    OBVIOUS
  <2> QED
    BY <1>4, <1>7, <2>1
<1>8. ASSUME NEW c \in Consumers, Receive(c) PROVE FuturesHeld' /\ Fetched \subseteq Fetched'
  <2>1. PICK h : h = at[c].task
    OBVIOUS
  <2>2. /\ at[c].pc = "waits" /\ UNCHANGED <<ready, futures>> /\ task' = [task EXCEPT ![h] = Free]
        /\ Go(c, Idle) \/ Go(c, At("holds", at[c].key, None))
    BY <1>8, <2>1 DEF Receive, prefetches
  <2>3. h \in Tasks /\ h \notin ToSet(futures)
    BY <2>1, <2>2 DEF FuturesHeld
  <2>4. c \in Threads /\ Idle.pc # "waits" /\ At("holds", at[c].key, None).pc # "waits"
    BY DEF Threads, Idle, At
  <2>5. \A d \in Consumers : at'[d].pc = "waits" => at'[d] = at[d] /\ d # c
    <3>1. \A d \in Consumers : at'[d].pc = "waits" => at'[d] = at[d]
      BY <2>2, <2>4, WaitersStay
    <3>2. at'[c].pc # "waits"
      BY <2>2, <2>4 DEF Go, LoaderTypeOK
    <3> QED
      BY <3>1, <3>2
  <2>6. \A t \in Tasks \ {h} : task'[t] = task[t]
    BY <2>2 DEF TasksInOnePlace
  <2>7. \A t \in ToSet(futures) : t \in Tasks \ {h}
    BY <2>3 DEF FuturesHeld, ToSet
  <2>8. \A d \in Consumers : at'[d].pc = "waits" =>
           /\ at[d].pc = "waits" /\ at'[d].task = at[d].task /\ at[d].task \in Tasks \ {h}
           /\ at[d].task \notin ToSet(futures) /\ task[at[d].task].state # "free"
    BY <2>1, <2>2, <2>5 DEF FuturesHeld
  <2>9. FuturesHeld'
    BY <2>2, <2>6, <2>7, <2>8 DEF FuturesHeld
  <2>10. Fetched \subseteq Fetched'
    BY <2>2, <2>6, <2>7, FetchedUndisturbed
  <2> QED
    BY <2>9, <2>10
<1>9. ASSUME NEW c \in Consumers, Release(c) PROVE FuturesHeld' /\ Fetched \subseteq Fetched'
  <2>1. c \in Threads /\ Idle.pc # "waits" /\ Go(c, Idle) /\ UNCHANGED <<ready, futures, task>>
    BY <1>9 DEF Threads, Idle, At, Release, prefetches
  <2> QED
    BY <1>7, <2>1
<1>10. ASSUME NEW x \in Threads, Load(x) PROVE FuturesHeld' /\ Fetched \subseteq Fetched'
  <2>1. CASE LookupHits(x)
    BY <1>6, <2>1 DEF LookupHits, prefetches
  <2>2. CASE ReadFails(x)
    BY <1>6, <2>2 DEF ReadFails, Misses, Failure, prefetches
  <2>3. CASE Unregister(x)
    BY <1>6, <2>3 DEF Unregister, prefetches
  <2>4. CASE Read(x)
    <3>1. PICK p : p = [at[x] EXCEPT !.pc = IF registers THEN "register" ELSE "insert"]
      OBVIOUS
    <3>2. Go(x, p) /\ p.pc \in {"register", "insert"} /\ UNCHANGED <<ready, futures, task>>
      BY <2>4, <3>1 DEF Read, LoaderTypeOK, Places, prefetches
    <3> QED
      BY <1>7, <3>2
  <2>5. CASE Register(x)
    <3>1. PICK b \in BOOLEAN : Go(x, [at[x] EXCEPT !.pc = "insert", !.locked = b])
      BY <2>5 DEF Register
    <3>2. PICK p : p = [at[x] EXCEPT !.pc = "insert", !.locked = b]
      OBVIOUS
    <3>3. Go(x, p) /\ p.pc = "insert" /\ UNCHANGED <<ready, futures, task>>
      BY <2>5, <3>1, <3>2 DEF Register, LoaderTypeOK, Places, prefetches
    <3> QED
      BY <1>7, <3>3
  <2>6. CASE Insert(x)
    <3>1. PICK o : Go(x, [at[x] EXCEPT !.pc = "unregister", !.locked = FALSE, !.out = o])
      BY <2>6 DEF Insert
    <3>2. PICK p : p = [at[x] EXCEPT !.pc = "unregister", !.locked = FALSE, !.out = o]
      OBVIOUS
    <3>3. Go(x, p) /\ p.pc = "unregister" /\ UNCHANGED <<ready, futures, task>>
      BY <2>6, <3>1, <3>2 DEF Insert, LoaderTypeOK, Places, prefetches
    <3> QED
      BY <1>7, <3>3
  <2> QED
    BY <1>10, <2>1, <2>2, <2>3, <2>4, <2>5, <2>6 DEF Load
<1> QED
  BY <1>1, <1>2, <1>3, <1>5, <1>8, <1>9, <1>10 DEF Next, Step, Threads

-----------------------------------------------------------------------------
(* What is registered, and who has it in hand. *)

(* A thread that goes elsewhere leaves the others where they are; two have  *)
(* one expert in hand only from a step on that sets raced.                  *)
LEMMA GoApart ==
  ASSUME LoaderTypeOK, HandsApart, NEW x \in Threads, NEW p, Go(x, p)
  PROVE  /\ at'[x] = p /\ \A y \in Threads \ {x} : at'[y] = at[y]
         /\ raced => raced'
         /\ ~ raced' => \A y \in Threads \ {x} : InHand(p) \cap InHand(at[y]) = {}
         /\ ~ raced' => \A y, z \in Threads :
                            y # z => InHand(at'[y]) \cap InHand(at'[z]) = {}
<1>1. at'[x] = p /\ \A y \in Threads \ {x} : at'[y] = at[y]
  BY DEF Go, LoaderTypeOK
<1>2. raced' = (raced \/ \E y \in Threads \ {x} : InHand(p) \cap InHand(at[y]) # {})
  BY DEF Go
<1>3. ~ raced' => \A y \in Threads \ {x} : InHand(p) \cap InHand(at[y]) = {}
  BY <1>2
<1>4. ASSUME ~ raced', NEW y \in Threads, NEW z \in Threads, y # z
      PROVE  InHand(at'[y]) \cap InHand(at'[z]) = {}
  <2>1. CASE y = x
    BY <1>1, <1>3, <1>4, <2>1
  <2>2. CASE z = x
    BY <1>1, <1>3, <1>4, <2>2
  <2>3. CASE y # x /\ z # x
    BY <1>1, <1>2, <1>4, <2>3 DEF HandsApart
  <2> QED
    BY <2>1, <2>2, <2>3
<1> QED
  BY <1>1, <1>2, <1>3, <1>4

(* What a thread has in hand, by where it is.                               *)
LEMMA Hands ==
  ASSUME LoaderTypeOK, NEW x \in Threads
  PROVE  /\ at[x].pc \in CalmPC => InHand(at[x]) = {}
         /\ at[x].pc \in {"register", "insert"} => InHand(at[x]) = {at[x].key}
         /\ at[x].pc = "unregister" => InHand(at[x]) = {e.key : e \in at[x].out}
<1>1. at[x].out \subseteq Entries
  BY DEF LoaderTypeOK, Places
<1> QED
  BY <1>1 DEF LoaderTypeOK, InHand, CalmPC

(* A step of thread x that registers nothing new: an expert that x had in   *)
(* hand, and that is still registered, is in the cache or in its hand.      *)
LEMMA StaysRegistered ==
  ASSUME LoaderTypeOK, RegisteredAreCached, NEW x \in Threads,
         \A y \in Threads \ {x} : at'[y] = at[y],
         registered' \subseteq registered,
         \A k \in registered' : k \in InHand(at[x]) \/ Cached(k) # {} =>
             Cached(k)' # {} \/ k \in InHand(at'[x])
  PROVE  RegisteredAreCached'
<1> SUFFICES ASSUME NEW k \in registered' PROVE Cached(k)' # {} \/ Handled(k)'
  BY DEF RegisteredAreCached
<1>1. Cached(k) # {} \/ Handled(k)
  BY DEF RegisteredAreCached
<1>2. CASE Cached(k) # {} \/ k \in InHand(at[x])
  BY <1>2 DEF Handled
<1>3. CASE \E y \in Threads \ {x} : k \in InHand(at[y])
  BY <1>3 DEF Handled
<1> QED
  BY <1>1, <1>2, <1>3 DEF Handled

(* Whatever leaves the host's tensors and the threads where they are.       *)
LEMMA IdleKeepsSafe ==
  ASSUME Safe, UNCHANGED <<at, raced, host>>
  PROVE  Safe'
<1> USE DEF host
<1>1. RegisteredAreCached'
  BY DEF Safe, RegisteredAreCached, Cached, Handled
<1>2. HandsApart'
  BY DEF Safe, HandsApart, Cached
<1>3. LeaksOnlyWhenRaced'
  BY DEF Safe, LeaksOnlyWhenRaced
<1> QED
  BY <1>1, <1>2, <1>3 DEF Safe

(* A calm step moves nothing.                                               *)
LEMMA CalmKeepsSafe ==
  ASSUME LoaderTypeOK, Safe, NEW x \in Threads, CalmStep(x)
  PROVE  Safe'
<1>1. PICK p \in Places : Calm(p) /\ Go(x, p)
  BY DEF CalmStep
<1>2. /\ at'[x] = p /\ \A y \in Threads \ {x} : at'[y] = at[y]
      /\ raced => raced'
      /\ ~ raced' => \A y, z \in Threads : y # z => InHand(at'[y]) \cap InHand(at'[z]) = {}
  BY <1>1, GoApart DEF Safe
<1>3. \A k \in Keys : Cached(k)' = Cached(k)
  BY DEF Cached, CalmStep
<1>4. InHand(at[x]) = {}
  BY Hands DEF CalmStep
<1>5. RegisteredAreCached'
  <2>1. registered' = registered /\ registered \subseteq Keys
    BY DEF CalmStep, LoaderTypeOK
  <2> QED
    BY <1>2, <1>3, <1>4, <2>1, StaysRegistered DEF Safe
<1>6. HandsApart'
  <2> SUFFICES ASSUME ~ raced' PROVE HandsApart'
    BY DEF HandsApart
  <2>1. ~ raced /\ registered' = registered /\ ToSet(cache') = ToSet(cache)
    BY <1>2 DEF CalmStep
  <2>2. at'[x].pc \notin {"register", "insert"} /\ ~ at'[x].locked /\ at'[x].out = {}
    BY <1>1, <1>2 DEF Calm, CalmPC
  <2>3. \A y \in Threads \ {x} :
          /\ at[y].pc \in {"register", "insert"} => at[y].key \in Keys
          /\ \A e \in at[y].out : e.key \in Keys
    BY DEF LoaderTypeOK, Places, Entries
  <2>4. \A y \in Threads :
          /\ at'[y].pc \in {"register", "insert"} => Cached(at[y].key)' = {}
          /\ at'[y].locked => at'[y].key \in registered'
          /\ \A e \in at'[y].out :
                Cached(e.key)' = {} /\ (e.locked => e.key \in registered')
    BY <1>2, <1>3, <2>1, <2>2, <2>3 DEF Safe, HandsApart, Cached
  <2>5. \A e \in ToSet(cache') : e.locked => e.key \in registered'
    BY <2>1 DEF Safe, HandsApart
  <2> QED
    BY <1>2, <2>4, <2>5 DEF HandsApart
<1>7. LeaksOnlyWhenRaced'
  BY <1>2 DEF CalmStep, Safe, LeaksOnlyWhenRaced
<1> QED
  BY <1>5, <1>6, <1>7 DEF Safe

(* What is read was not in the cache.                                       *)
LEMMA ReadKeepsSafe ==
  ASSUME LoaderTypeOK, Safe, NEW x \in Threads, Read(x)
  PROVE  Safe'
<1> DEFINE p == [at[x] EXCEPT !.pc = IF registers THEN "register" ELSE "insert"]
<1>1. /\ at[x].pc = "lookup" /\ Cached(at[x].key) = {} /\ Go(x, p)
      /\ UNCHANGED <<cache, registered, registers, leaked>>
  BY DEF Read, Misses, host
<1>2. p.pc \in {"register", "insert"} /\ p.key = at[x].key /\ ~ p.locked /\ p.out = {}
  BY <1>1 DEF LoaderTypeOK, Places
<1> HIDE DEF p
<1>3. /\ at'[x] = p /\ \A y \in Threads \ {x} : at'[y] = at[y]
      /\ raced => raced'
      /\ ~ raced' => \A y, z \in Threads : y # z => InHand(at'[y]) \cap InHand(at'[z]) = {}
  BY <1>1, GoApart DEF Safe
<1>4. \A k : Cached(k)' = Cached(k)
  BY <1>1 DEF Cached
<1>5. RegisteredAreCached'
  <2>1. InHand(at[x]) = {}
    BY <1>1, Hands DEF CalmPC
  <2> QED
    BY <1>1, <1>3, <1>4, <2>1, StaysRegistered DEF Safe
<1>6. HandsApart'
  <2> SUFFICES ASSUME ~ raced' PROVE HandsApart'
    BY DEF HandsApart
  <2>1. \A y \in Threads :
          /\ at'[y].pc \in {"register", "insert"} => Cached(at[y].key)' = {}
          /\ at'[y].locked => at'[y].key \in registered'
          /\ \A e \in at'[y].out :
                Cached(e.key)' = {} /\ (e.locked => e.key \in registered')
    BY <1>1, <1>2, <1>3, <1>4 DEF Safe, HandsApart, Cached
  <2>2. \A e \in ToSet(cache') : e.locked => e.key \in registered'
    BY <1>1, <1>3 DEF Safe, HandsApart
  <2> QED
    BY <1>3, <2>1, <2>2 DEF HandsApart
<1>7. LeaksOnlyWhenRaced'
  BY <1>1, <1>3 DEF Safe, LeaksOnlyWhenRaced
<1> QED
  BY <1>5, <1>6, <1>7 DEF Safe

(* Tensors are locked under a key that is registered with them.             *)
LEMMA RegisterKeepsSafe ==
  ASSUME LoaderTypeOK, Safe, NEW x \in Threads, Register(x)
  PROVE  Safe'
<1>1. PICK l \in BOOLEAN :
          /\ registered' = IF l THEN registered \cup {at[x].key} ELSE registered
          /\ Go(x, [at[x] EXCEPT !.pc = "insert", !.locked = l])
  BY DEF Register
<1> DEFINE p == [at[x] EXCEPT !.pc = "insert", !.locked = l]
<1>2. at[x].pc = "register" /\ at[x].key \in Keys /\ cache' = cache /\ leaked' = leaked
  BY DEF Register, LoaderTypeOK
<1>3. p.pc = "insert" /\ p.key = at[x].key /\ p.locked = l /\ p.out = {}
  BY <1>2 DEF LoaderTypeOK, Places
<1>4. Go(x, p)
  BY <1>1
<1> HIDE DEF p
<1>5. /\ at'[x] = p /\ \A y \in Threads \ {x} : at'[y] = at[y]
      /\ raced => raced'
      /\ ~ raced' => \A y, z \in Threads : y # z => InHand(at'[y]) \cap InHand(at'[z]) = {}
  BY <1>4, GoApart DEF Safe
<1>6. \A k : Cached(k)' = Cached(k)
  BY <1>2 DEF Cached
<1>7. at[x].key \in InHand(at'[x]) /\ InHand(at[x]) = {at[x].key}
  BY <1>2, <1>3, <1>5, Hands DEF InHand
<1>8. RegisteredAreCached'
  <2> SUFFICES ASSUME NEW k \in registered' PROVE Cached(k)' # {} \/ Handled(k)'
    BY DEF RegisteredAreCached
  <2>1. CASE k = at[x].key
    BY <1>7, <2>1 DEF Handled
  <2>2. CASE k # at[x].key
    <3>1. k \in registered
      BY <1>1, <2>2
    <3>2. Cached(k) # {} \/ \E y \in Threads \ {x} : k \in InHand(at[y])
      BY <1>7, <2>2, <3>1 DEF Safe, RegisteredAreCached, Handled
    <3> QED
      BY <1>5, <1>6, <3>2 DEF Handled
  <2> QED
    BY <2>1, <2>2
<1>9. HandsApart'
  <2> SUFFICES ASSUME ~ raced' PROVE HandsApart'
    BY DEF HandsApart
  <2>1. registered \subseteq registered' /\ (l => at[x].key \in registered')
    BY <1>1
  <2>2. \A y \in Threads :
          /\ at'[y].pc \in {"register", "insert"} => Cached(at[y].key)' = {}
          /\ at'[y].locked => at'[y].key \in registered'
          /\ \A e \in at'[y].out :
                Cached(e.key)' = {} /\ (e.locked => e.key \in registered')
    BY <1>2, <1>3, <1>5, <1>6, <2>1 DEF Safe, HandsApart, Cached
  <2>3. \A e \in ToSet(cache') : e.locked => e.key \in registered'
    BY <1>2, <1>5, <2>1 DEF Safe, HandsApart
  <2> QED
    BY <1>5, <2>2, <2>3 DEF HandsApart
<1>10. LeaksOnlyWhenRaced'
  BY <1>2, <1>5 DEF Safe, LeaksOnlyWhenRaced
<1> QED
  BY <1>8, <1>9, <1>10 DEF Safe

(* The key that is inserted is new to the cache, so nothing is replaced,    *)
(* unless two threads had it in hand.                                       *)
LEMMA InsertKeepsSafe ==
  ASSUME LoaderTypeOK, CacheOK, Safe, NEW x \in Threads, Insert(x)
  PROVE  Safe'
<1> DEFINE key == at[x].key
           new == [key |-> key, locked |-> at[x].locked]
<1>1. /\ at[x].pc = "insert" /\ key \in Keys /\ at[x].out = {}
      /\ at'[x].out \subseteq Entries
      /\ ToSet(cache') \cup at'[x].out \subseteq ToSet(cache) \cup {new}
      /\ \A k \in Keys : k = key \/ Cached(k) # {} =>
            (\E d \in ToSet(cache') : d.key = k) \/ \E d \in at'[x].out : d.key = k
      /\ \A d \in at'[x].out : ~ \E c \in ToSet(cache') : c.key = d.key
  BY InsertKeeps
<1>2. PICK o : Go(x, [at[x] EXCEPT !.pc = "unregister", !.locked = FALSE, !.out = o])
  BY DEF Insert
<1> DEFINE p == [at[x] EXCEPT !.pc = "unregister", !.locked = FALSE, !.out = o]
<1>3. p.pc = "unregister" /\ p.key = key /\ ~ p.locked /\ Go(x, p)
  BY <1>2 DEF LoaderTypeOK, Places
<1> HIDE DEF p
<1>4. /\ at'[x] = p /\ \A y \in Threads \ {x} : at'[y] = at[y]
      /\ raced => raced'
      /\ ~ raced' => \A y \in Threads \ {x} : InHand(p) \cap InHand(at[y]) = {}
      /\ ~ raced' => \A y, z \in Threads : y # z => InHand(at'[y]) \cap InHand(at'[z]) = {}
  BY <1>3, GoApart DEF Safe
<1>5. registered' = registered /\ registered \subseteq Keys
  BY DEF Insert, LoaderTypeOK
<1>6. InHand(at[x]) = {key}
  BY <1>1, Hands
<1>7. \A d \in at'[x].out : d.key \in InHand(at'[x])
  BY <1>1 DEF Entries, InHand
<1>8. RegisteredAreCached'
  <2>1. \A k \in registered' : k \in InHand(at[x]) \/ Cached(k) # {} =>
            Cached(k)' # {} \/ k \in InHand(at'[x])
    <3> TAKE k \in registered'
    <3> HAVE k \in InHand(at[x]) \/ Cached(k) # {}
    <3>1. (\E d \in ToSet(cache') : d.key = k) \/ \E d \in at'[x].out : d.key = k
      BY <1>1, <1>5, <1>6
    <3> QED
      BY <3>1, <1>7 DEF Cached
  <2> QED
    BY <1>4, <1>5, <2>1, StaysRegistered DEF Safe
<1>9. HandsApart' /\ LeaksOnlyWhenRaced'
  <2> SUFFICES ASSUME ~ raced' PROVE HandsApart' /\ ~ leaked'
    BY DEF HandsApart, LeaksOnlyWhenRaced
  <2>1. /\ ~ raced /\ Cached(key) = {}
        /\ new.locked => key \in registered
        /\ \A e \in ToSet(cache) : e.locked => e.key \in registered
    BY <1>1, <1>4 DEF Safe, HandsApart
  <2>2. ~ leaked'
    BY <2>1 DEF Insert, Safe, LeaksOnlyWhenRaced
  <2>3. \A e \in ToSet(cache') \cup at'[x].out : e.locked => e.key \in registered'
    BY <1>1, <1>5, <2>1
  <2>4. \A y \in Threads \ {x} : \A k \in InHand(at[y]) : k # key /\ k \in Keys
    <3>1. \A y \in Threads \ {x} : InHand(at[y]) \cap {key} = {}
      BY <1>6, <2>1 DEF Safe, HandsApart
    <3>2. \A y \in Threads : InHand(at[y]) \subseteq Keys
      BY DEF InHand, LoaderTypeOK, Places, Entries
    <3> QED
      BY <3>1, <3>2
  <2>5. \A y \in Threads \ {x} : \A k \in InHand(at[y]) : Cached(k) = {} => Cached(k)' = {}
    BY <1>1, <2>4 DEF Cached
  <2>6. ASSUME NEW y \in Threads
        PROVE  /\ at'[y].pc \in {"register", "insert"} => Cached(at[y].key)' = {}
               /\ at'[y].locked => at'[y].key \in registered'
               /\ \A e \in at'[y].out :
                     Cached(e.key)' = {} /\ (e.locked => e.key \in registered')
    <3>1. CASE y = x
      <4>1. \A e \in at'[x].out : Cached(e.key)' = {}
        BY <1>1 DEF Cached
      <4> QED
        BY <1>3, <1>4, <2>3, <3>1, <4>1
    <3>2. CASE y # x
      <4>1. at'[y] = at[y]
        BY <1>4, <3>2
      <4>2. /\ at[y].pc \in {"register", "insert"} => at[y].key \in InHand(at[y])
            /\ \A e \in at[y].out : e.key \in InHand(at[y])
        BY DEF InHand, LoaderTypeOK, Places, Entries
      <4>3. /\ at[y].pc \in {"register", "insert"} => Cached(at[y].key) = {}
            /\ at[y].locked => at[y].key \in registered
            /\ \A e \in at[y].out :
                  Cached(e.key) = {} /\ (e.locked => e.key \in registered)
        BY <2>1 DEF Safe, HandsApart
      <4>4. at[y].pc \in {"register", "insert"} => Cached(at[y].key)' = {}
        <5> SUFFICES ASSUME at[y].pc \in {"register", "insert"}
                     PROVE  {e \in ToSet(cache') : e.key = at'[y].key} = {}
          BY DEF Cached
        <5>1. at[y].key # key /\ {e \in ToSet(cache) : e.key = at[y].key} = {}
          BY <2>4, <3>2, <4>2, <4>3 DEF Cached
        <5> QED
          BY <1>1, <4>1, <5>1
      <4>5. \A e \in at[y].out : Cached(e.key)' = {}
        BY <2>5, <3>2, <4>2, <4>3
      <4> QED
        BY <1>5, <4>1, <4>3, <4>4, <4>5
    <3> QED
      BY <3>1, <3>2
  <2> QED
    BY <1>4, <2>2, <2>3, <2>6 DEF HandsApart
<1> QED
  BY <1>8, <1>9 DEF Safe

(* What is unregistered is neither in the cache nor in another hand, unless *)
(* two threads had it in hand.                                              *)
LEMMA UnregisterKeepsSafe ==
  ASSUME LoaderTypeOK, Safe, NEW x \in Threads, Unregister(x)
  PROVE  Safe'
<1>1. /\ at[x].pc = "unregister" /\ at[x].key \in Keys /\ cache' = cache
      /\ registered' = registered \ Forgotten(x)
      /\ leaked' = (leaked \/ \E e \in at[x].out : e.locked /\ e.key \notin registered)
  BY DEF Unregister, LoaderTypeOK
<1>2. PICK p \in Places : Calm(p) /\ Go(x, p)
  BY <1>1, EndsCalmly DEF Unregister
<1>3. /\ at'[x] = p /\ \A y \in Threads \ {x} : at'[y] = at[y]
      /\ raced => raced'
      /\ ~ raced' => \A y, z \in Threads : y # z => InHand(at'[y]) \cap InHand(at'[z]) = {}
  BY <1>2, GoApart DEF Safe
<1>4. InHand(at[x]) = Forgotten(x)
  BY <1>1, Hands DEF Forgotten
<1>5. \A k : Cached(k)' = Cached(k)
  BY <1>1 DEF Cached
<1>6. RegisteredAreCached'
  BY <1>1, <1>3, <1>4, <1>5, StaysRegistered DEF Safe
<1>7. HandsApart' /\ LeaksOnlyWhenRaced'
  <2> SUFFICES ASSUME ~ raced' PROVE HandsApart' /\ ~ leaked'
    BY DEF HandsApart, LeaksOnlyWhenRaced
  <2>1. /\ ~ raced
        /\ \A e \in at[x].out : Cached(e.key) = {} /\ (e.locked => e.key \in registered)
        /\ \A e \in ToSet(cache) : e.locked => e.key \in registered
        /\ \A y \in Threads \ {x} : InHand(at[y]) \cap Forgotten(x) = {}
    BY <1>3, <1>4 DEF Safe, HandsApart
  <2>2. ~ leaked'
    BY <1>1, <2>1 DEF Safe, LeaksOnlyWhenRaced
  <2>3. \A e \in ToSet(cache') : e.locked => e.key \in registered'
    BY <1>1, <2>1 DEF Forgotten, Cached
  <2>4. ASSUME NEW y \in Threads
        PROVE  /\ at'[y].pc \in {"register", "insert"} => Cached(at[y].key)' = {}
               /\ at'[y].locked => at'[y].key \in registered'
               /\ \A e \in at'[y].out :
                     Cached(e.key)' = {} /\ (e.locked => e.key \in registered')
    <3>1. CASE y = x
      BY <1>2, <1>3, <3>1 DEF Calm, CalmPC
    <3>2. CASE y # x
      <4>1. at'[y] = at[y]
        BY <1>3, <3>2
      <4>2. /\ at[y].pc \in {"register", "insert"} => at[y].key \in InHand(at[y])
            /\ \A e \in at[y].out : e.key \in InHand(at[y])
            /\ at[y].locked => at[y].pc = "insert"
        BY DEF InHand, LoaderTypeOK, Places, Entries
      <4>3. /\ at[y].pc \in {"register", "insert"} => Cached(at[y].key) = {}
            /\ at[y].locked => at[y].key \in registered
            /\ \A e \in at[y].out :
                  Cached(e.key) = {} /\ (e.locked => e.key \in registered)
        BY <2>1 DEF Safe, HandsApart
      <4>4. /\ at[y].locked => at[y].key \in registered'
            /\ \A e \in at[y].out : e.locked => e.key \in registered'
        BY <1>1, <2>1, <3>2, <4>2, <4>3
      <4>5. at[y].pc \in {"register", "insert"} => Cached(at[y].key)' = {}
        BY <1>1, <4>1, <4>3 DEF Cached
      <4> QED
        BY <1>5, <4>1, <4>3, <4>4, <4>5
    <3> QED
      BY <3>1, <3>2
  <2> QED
    BY <1>3, <2>2, <2>3, <2>4 DEF HandsApart
<1> QED
  BY <1>6, <1>7 DEF Safe

-----------------------------------------------------------------------------
(* The invariant. *)

LEMMA LoaderInvInit == Init => LoaderInv
<1> SUFFICES ASSUME Init PROVE LoaderInv
  OBVIOUS
<1> USE DEF Init
<1>1. \A x \in Threads : at[x] = Idle
  OBVIOUS
<1>2. Idle \in Places /\ Idle.pc = "idle" /\ Idle.out = {} /\ ~ Idle.locked
  BY DEF Idle, At, Places
<1>3. cache = <<>> /\ ToSet(cache) = {}
  BY DEF ToSet
<1>4. LoaderTypeOK
  <2>1. at \in [Threads -> Places]
    BY <1>2
  <2>2. cache \in Seq(Entries) /\ registered \subseteq Keys
    BY <1>3
  <2> QED
    BY <1>1, <1>2, <2>1, <2>2 DEF LoaderTypeOK
<1>5. TasksInOnePlace
  <2>1. \A w \in Workers : at[w].pc = "idle"
    BY <1>1, <1>2 DEF Threads
  <2> QED
    BY <2>1 DEF TasksInOnePlace, Free
<1>6. CacheOK
  BY LoaderAssumption DEF CacheOK, LoaderAssumption
<1>7. Safe
  <2>1. \A x \in Threads : InHand(at[x]) = {}
    BY <1>1, <1>2 DEF InHand
  <2>2. HandsApart
    BY <1>1, <1>2, <1>3, <2>1 DEF HandsApart
  <2> QED
    BY <2>2 DEF Safe, RegisteredAreCached, LeaksOnlyWhenRaced
<1> QED
  BY <1>4, <1>5, <1>6, <1>7 DEF LoaderInv

(* However the loads of the threads interleave, every future is in one      *)
(* place, the cache keeps its size and holds an expert once, and what is    *)
(* page-locked is accounted for.                                            *)
THEOREM LoaderInvariant == Spec => []LoaderInv
<1>1. LoaderInv /\ [Next]_vars => LoaderInv'
  <2> SUFFICES ASSUME LoaderInv, [Next]_vars PROVE LoaderInv'
    OBVIOUS
  <2>1. LoaderTypeOK /\ TasksInOnePlace /\ CacheOK /\ Safe
    BY DEF LoaderInv
  <2>2. CASE Next
    <3>1. LoaderTypeOK' /\ CacheOK' /\ TasksInOnePlace'
      BY <2>1, <2>2, TypesStep, TasksStep
    <3>2. CASE UNCHANGED <<at, raced, host>>
      BY <2>1, <3>1, <3>2, IdleKeepsSafe DEF LoaderInv
    <3>3. ASSUME NEW x \in Threads,
                 CalmStep(x) \/ Read(x) \/ Register(x) \/ Insert(x) \/ Unregister(x)
          PROVE  Safe'
      <4>1. CASE CalmStep(x)
        BY <2>1, <4>1, CalmKeepsSafe
      <4>2. CASE Read(x)
        BY <2>1, <4>2, ReadKeepsSafe
      <4>3. CASE Register(x)
        BY <2>1, <4>3, RegisterKeepsSafe
      <4>4. CASE Insert(x)
        BY <2>1, <4>4, InsertKeepsSafe
      <4>5. CASE Unregister(x)
        BY <2>1, <4>5, UnregisterKeepsSafe
      <4> QED
        BY <3>3, <4>1, <4>2, <4>3, <4>4, <4>5
    <3> QED
      BY <2>1, <2>2, <3>1, <3>2, <3>3, StepKinds DEF LoaderInv
  <2>3. CASE UNCHANGED vars
    BY <2>1, <2>3, IdleKeepsSafe DEF vars, host, LoaderInv, LoaderTypeOK, TasksInOnePlace, CacheOK
  <2> QED
    BY <2>2, <2>3
<1> QED
  BY <1>1, LoaderInvInit, PTL DEF Spec

(* Whatever is page-locked is in the cache, or in the hands of a thread     *)
(* that is about to put it there or to unregister it, for every number of   *)
(* threads and every size of the cache.                                     *)
THEOREM RegistrationsAreTracked == Spec => []RegisteredAreCached
<1>1. LoaderInv => RegisteredAreCached
  BY DEF LoaderInv, Safe
<1> QED
  BY <1>1, LoaderInvariant, PTL

(* Page-locked memory is lost only after two threads had one expert in hand *)
(* at the same time.                                                        *)
THEOREM LeaksNeedARace == Spec => []LeaksOnlyWhenRaced
<1>1. LoaderInv => LeaksOnlyWhenRaced
  BY DEF LoaderInv, Safe
<1> QED
  BY <1>1, LoaderInvariant, PTL

(* Nothing that was prefetched is thrown away before it is taken, for every *)
(* number of threads and every bound on prefetches: what is ready and what  *)
(* is under way never exceed the bound together, so draining the finished   *)
(* ones into the cache of prefetches evicts nothing.                        *)
THEOREM NothingPrefetchedIsLost == Spec => PrefetchedStay
<1> DEFINE Held == LoaderInv /\ FuturesHeld
<1>1. Init => Held
  <2> SUFFICES ASSUME Init PROVE FuturesHeld
    BY LoaderInvInit
  <2>1. \A c \in Consumers : at[c].pc # "waits"
    BY DEF Init, Threads, Idle, At
  <2>2. /\ ready = <<>> /\ futures = <<>> /\ MaxPrefetched \in Nat
    BY LoaderAssumption DEF Init
  <2>3. ToSet(futures) = {} /\ Len(ready) + Len(futures) <= MaxPrefetched
    BY <2>2 DEF ToSet
  <2> QED
    BY <2>1, <2>2, <2>3 DEF FuturesHeld
<1>2. Held /\ LoaderInv' /\ [Next]_vars => Held' /\ [Fetched \subseteq Fetched']_vars
  <2> SUFFICES ASSUME Held, LoaderInv', [Next]_vars
               PROVE  FuturesHeld' /\ [Fetched \subseteq Fetched']_vars
    OBVIOUS
  <2>1. CASE Next
    <3>1. LoaderTypeOK /\ TasksInOnePlace
      BY DEF LoaderInv
    <3> QED
      BY <2>1, <3>1, FuturesStep
  <2>2. CASE UNCHANGED vars
    <3>1. FuturesHeld'
      BY <2>2 DEF vars, FuturesHeld
    <3> QED
      BY <2>2, <3>1
  <2> QED
    BY <2>1, <2>2
<1> QED
  BY <1>1, <1>2, LoaderInvariant, PTL DEF Spec, PrefetchedStay

=============================================================================
