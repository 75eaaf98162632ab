---------------------------- MODULE ExpertLoader ----------------------------
(***************************************************************************)
(* Host tensors of single experts: RuntimeHFExpertWeightLoader in          *)
(* layers/moe/kt_ep_wrapper.py, its pool of prefetch workers, the cache of *)
(* prefetched experts, the cache of everything that was read, and the page *)
(* locks (CUDA host registrations) of what is in that one.                 *)
(*                                                                         *)
(* Several threads take experts from it: the main thread, which also asks  *)
(* for prefetches, the thread that fills GPU slots ahead, the one that     *)
(* fills the group buffers.  Each lock of the class is held for one step   *)
(* of the model; between two steps the threads interleave.  Of the tensors *)
(* only this is kept: whether the memory of one read is page-locked.       *)
(* Modelled with SGLANG_KT_RUNTIME_REGISTER_CPU_TENSORS=1 and a cache that *)
(* holds something; otherwise nothing is ever registered.                  *)
(***************************************************************************)
EXTENDS Naturals, FiniteSets, Sequences, SequencesExt

CONSTANTS
    Keys,           \* (layer, expert)
    Consumers,      \* the threads that take experts
    Main,           \* the one of them that asks for prefetches
    Workers,        \* _prefetch_workers threads
    Tasks,          \* the futures that exist at one time
    MaxCached,      \* _cpu_tensor_cache_max_items
    MaxPrefetched,  \* _prefetch_max_items
    None

ASSUME LoaderAssumption ==
    /\ IsFiniteSet(Consumers) /\ Main \in Consumers
    /\ Consumers \cap Workers = {}
    /\ MaxCached \in Nat \ {0} /\ MaxPrefetched \in Nat \ {0}
    /\ None \notin Keys \cup Tasks

VARIABLES
    at,             \* where each thread is
    cache,          \* _cpu_tensor_cache, least recently used first:
                    \* [key, locked], locked if these tensors are registered
    registered,     \* _host_registered_keys
    registers,      \* _register_cpu_tensors
    ready,          \* _prefetch_cache
    futures,        \* _prefetch_futures
    queue,          \* what the workers have not begun
    task,           \* the state of each future
    leaked,         \* history: locked tensors were dropped without unregistering
    raced           \* history: two threads had the same expert in hand

host == <<cache, registered, registers, leaked>>
prefetches == <<ready, futures, queue>>
vars == <<at, cache, registered, registers, ready, futures, queue, task, leaked, raced>>

Threads == Consumers \cup Workers
At(pc, key, t) == [pc |-> pc, key |-> key, task |-> t, locked |-> FALSE, out |-> {}]
Idle == At("idle", None, None)
Free == [key |-> None, state |-> "free"]

Init ==
    /\ at = [x \in Threads |-> Idle]
    /\ cache = <<>> /\ registered = {} /\ registers = TRUE
    /\ ready = <<>> /\ futures = <<>> /\ queue = <<>>
    /\ task = [t \in Tasks |-> Free]
    /\ leaked = FALSE /\ raced = FALSE

(* The experts a thread has read and not yet put away, or evicted and not   *)
(* yet unregistered.                                                        *)
InHand(place) ==
    {k \in Keys : place.pc \in {"register", "insert"} /\ place.key = k}
        \cup {e.key : e \in place.out}

Go(x, place) ==
    /\ at' = [at EXCEPT ![x] = place]
    /\ raced' = (raced \/ \E y \in Threads \ {x} : InHand(place) \cap InHand(at[y]) # {})
(* The elements of seq at the positions in I, in order.                     *)
Those(seq, I) ==
    LET Nth(n) == CHOOSE i \in I : Cardinality({j \in I : j <= i}) = n
    IN  [n \in 1 .. Cardinality(I) |-> seq[Nth(n)]]
Without(seq, k) == Those(seq, {i \in DOMAIN seq : seq[i] # k})
ToEnd(seq, k) ==
    LET i == CHOOSE j \in DOMAIN seq : seq[j] = k
    IN  [j \in DOMAIN seq |-> IF j < i THEN seq[j] ELSE IF j < Len(seq) THEN seq[j + 1] ELSE k]

-----------------------------------------------------------------------------
(* _load_expert_tensors_cpu, for a worker or for a consumer by itself.      *)

Ends(x, outcome) ==
    IF x \in Workers
    THEN /\ Go(x, Idle)
         /\ task' = [task EXCEPT ![at[x].task].state = outcome]
    ELSE /\ Go(x, IF outcome = "done" THEN At("holds", at[x].key, None) ELSE Idle)
         /\ UNCHANGED task

Cached(k) == {e \in ToSet(cache) : e.key = k}

LookupHits(x) ==
    /\ at[x].pc = "lookup"
    /\ \E e \in Cached(at[x].key) : cache' = ToEnd(cache, e)
    /\ Ends(x, "done")
    /\ UNCHANGED <<registered, registers, leaked, prefetches>>

(* Reading the three tensors from their files, without the cache's lock.    *)
(* Whether they are to be registered is also asked without a lock.          *)
Misses(x) == at[x].pc = "lookup" /\ Cached(at[x].key) = {}
Read(x) ==
    /\ Misses(x)
    /\ Go(x, [at[x] EXCEPT !.pc = IF registers THEN "register" ELSE "insert"])
    /\ UNCHANGED <<host, prefetches, task>>
FailureKeptQuiet(x) == "running"
Failure(x) == "failed"
ReadFails(x) ==
    /\ Misses(x)
    /\ Ends(x, Failure(x))
    /\ UNCHANGED <<host, prefetches>>

(* _register_cpu_tensor_tuple: for a key that is registered already it does *)
(* nothing to these tensors.  After a registration that fails no other one  *)
(* is begun, but a thread that has asked before may still register.         *)
Registrable(x) == at[x].key \notin registered
Register(x) ==
    /\ at[x].pc = "register"
    /\ \E locked \in BOOLEAN :
          /\ locked => Registrable(x)
          /\ registered' = IF locked THEN registered \cup {at[x].key} ELSE registered
          /\ registers' = (registers /\ (locked \/ ~ Registrable(x)))
          /\ Go(x, [at[x] EXCEPT !.pc = "insert", !.locked = locked])
    /\ UNCHANGED <<cache, leaked, prefetches, task>>

(* A key of the cache keeps its place and loses its old tensors, a new one  *)
(* is the youngest; at most one entry has to go.                            *)
Replaced(e) ==
    IF Cached(e.key) = {} THEN Append(cache, e)
    ELSE [i \in DOMAIN cache |-> IF cache[i].key = e.key THEN e ELSE cache[i]]
Evicts(seq) == Len(seq) > MaxCached
Insert(x) ==
    LET all == Replaced([key |-> at[x].key, locked |-> at[x].locked]) IN
    /\ at[x].pc = "insert"
    /\ cache' = IF Evicts(all) THEN Tail(all) ELSE all
    /\ Go(x, [at[x] EXCEPT !.pc = "unregister", !.locked = FALSE,
                           !.out = IF Evicts(all) THEN {Head(all)} ELSE {}])
    /\ leaked' = (leaked \/ \E e \in Cached(at[x].key) : e.locked)
    /\ UNCHANGED <<registered, registers, prefetches, task>>

(* _unregister_cpu_tensor_tuple goes by the key, not by the tensors.  When  *)
(* the driver refuses to unregister them, which is only warned about, the   *)
(* key goes all the same; these tensors do not count as leaked.             *)
ForgetsNothing(x) == {}
ForgetsItsOwn(x) == {at[x].key}
Forgotten(x) == {e.key : e \in at[x].out}
Unregister(x) ==
    /\ at[x].pc = "unregister"
    /\ registered' = registered \ Forgotten(x)
    /\ leaked' = (leaked \/ \E e \in at[x].out : e.locked /\ e.key \notin registered)
    /\ Ends(x, "done")
    /\ UNCHANGED <<cache, registers, prefetches>>

Load(x) ==
    LookupHits(x) \/ Read(x) \/ ReadFails(x) \/ Register(x) \/ Insert(x) \/ Unregister(x)

-----------------------------------------------------------------------------
(* Prefetches.  Every entry point first takes in what is done: the results  *)
(* go to the cache, which then gives way, and failures are forgotten.       *)

Over(t) == task[t].state \in {"done", "failed"}
KeyOf(t) == task[t].key
OpenFutures == Those(futures, {i \in DOMAIN futures : ~ Over(futures[i])})
Results == Those(futures, {i \in DOMAIN futures : task[futures[i]].state = "done"})
AllReady == ready \o [i \in DOMAIN Results |-> KeyOf(Results[i])]
GivesWay ==
    LET surplus == Len(AllReady) + Len(OpenFutures) IN
    IF surplus <= MaxPrefetched THEN 0
    ELSE IF surplus - MaxPrefetched > Len(AllReady) THEN Len(AllReady) ELSE surplus - MaxPrefetched
ReadyNow == SubSeq(AllReady, GivesWay + 1, Len(AllReady))
Drained == [t \in Tasks |-> IF t \in ToSet(futures) /\ Over(t) THEN Free ELSE task[t]]
FutureOf(k) == {t \in Tasks : t \in ToSet(OpenFutures) /\ KeyOf(t) = k}

CountsReadyOnly == Len(ReadyNow) < MaxPrefetched
HasRoom == Len(ReadyNow) + Len(OpenFutures) < MaxPrefetched
MayPrefetch(k) == k \notin ToSet(ReadyNow) /\ FutureOf(k) = {} /\ HasRoom

(* prefetch_expert.                                                         *)
Unused == {t \in Tasks : Drained[t] = Free}
SubmitPrefetch(k) ==
    /\ at[Main] = Idle /\ MayPrefetch(k) /\ Unused # {}
    /\ LET t == CHOOSE u \in Unused : TRUE IN
          /\ task' = [Drained EXCEPT ![t] = [key |-> k, state |-> "queued"]]
          /\ futures' = Append(OpenFutures, t)
          /\ queue' = Append(queue, t)
    /\ ready' = ReadyNow
    /\ UNCHANGED <<at, raced, host>>
RefusePrefetch(k) ==
    /\ at[Main] = Idle /\ ~ MayPrefetch(k)
    /\ task' = Drained /\ futures' = OpenFutures /\ ready' = ReadyNow
    /\ UNCHANGED <<at, raced, host, queue>>

Begin(w) ==
    /\ at[w] = Idle /\ queue # <<>>
    /\ Go(w, At("lookup", KeyOf(Head(queue)), Head(queue)))
    /\ task' = [task EXCEPT ![Head(queue)].state = "running"]
    /\ queue' = Tail(queue)
    /\ UNCHANGED <<host, ready, futures>>

-----------------------------------------------------------------------------
(* _consume_prefetched_or_load: from the cache, by waiting for a prefetch   *)
(* that is under way, or directly.                                          *)

TakeReady(c, k) ==
    /\ at[c] = Idle /\ k \in ToSet(ReadyNow)
    /\ Go(c, At("holds", k, None))
    /\ ready' = ToEnd(ReadyNow, k)
    /\ task' = Drained /\ futures' = OpenFutures
    /\ UNCHANGED <<host, queue>>
TakeFuture(c, k) ==
    /\ at[c] = Idle /\ k \notin ToSet(ReadyNow)
    /\ \E t \in FutureOf(k) :
          /\ Go(c, At("waits", k, t))
          /\ futures' = Without(OpenFutures, t)
    /\ task' = Drained /\ ready' = ReadyNow
    /\ UNCHANGED <<host, queue>>
TakeDirect(c, k) ==
    /\ at[c] = Idle /\ k \notin ToSet(ReadyNow) /\ FutureOf(k) = {}
    /\ Go(c, At("lookup", k, None))
    /\ task' = Drained /\ futures' = OpenFutures /\ ready' = ReadyNow
    /\ UNCHANGED <<host, queue>>
Consume(c, k) == TakeReady(c, k) \/ TakeFuture(c, k) \/ TakeDirect(c, k)

(* future.result(): the tensors, or the exception of the read.              *)
Receive(c) ==
    /\ at[c].pc = "waits" /\ Over(at[c].task)
    /\ Go(c, IF task[at[c].task].state = "done" THEN At("holds", at[c].key, None) ELSE Idle)
    /\ task' = [task EXCEPT ![at[c].task] = Free]
    /\ UNCHANGED <<host, prefetches>>

Release(c) ==
    /\ at[c].pc = "holds"
    /\ Go(c, Idle)
    /\ UNCHANGED <<host, prefetches, task>>

Step(x) == Load(x) \/ (x \in Workers /\ Begin(x)) \/ (x \in Consumers /\ (Receive(x) \/ Release(x)))
Next ==
    \/ \E k \in Keys : SubmitPrefetch(k) \/ RefusePrefetch(k)
    \/ \E c \in Consumers, k \in Keys : Consume(c, k)
    \/ \E x \in Threads : Step(x)

(* Threads run; nothing makes a consumer ask.                               *)
Spec == Init /\ [][Next]_vars
FairSpec == Spec /\ \A x \in Threads : WF_vars(Step(x))

-----------------------------------------------------------------------------
(* Properties. *)

Handled(k) == \E x \in Threads : k \in InHand(at[x])

(* kt_ep_wrapper.py:64: "Registrations are tied to the bounded CPU tensor   *)
(* cache and removed on cache eviction."  However the loads of several      *)
(* threads interleave, what is registered is in the cache, or some thread   *)
(* is about to put it there or to unregister it.                            *)
RegisteredAreCached ==
    \A k \in registered : Cached(k) # {} \/ Handled(k)

(* The tensors themselves may escape: a second read of the same expert      *)
(* replaces the registered tensors by others, and an eviction unregisters   *)
(* by key.  Page-locked memory is dropped without being unregistered only   *)
(* after two threads had the same expert in hand at the same time.          *)
LeaksOnlyWhenRaced == leaked => raced

(* _evict_prefetch_cache_locked has nothing to do: prefetch_expert refuses  *)
(* at _prefetch_max_items, so what was prefetched is never thrown away (and *)
(* once that many experts were, no other one ever is).                      *)
Fetched == ToSet(ready) \cup {KeyOf(t) : t \in {u \in ToSet(futures) : task[u].state = "done"}}
PrefetchedStay == [][Fetched \subseteq Fetched']_vars

(* Whoever waits for a prefetch gets its tensors or its exception, even     *)
(* behind other prefetches and when reads fail.                             *)
EveryoneIsServed == \A c \in Consumers : at[c].pc = "waits" ~> at[c].pc # "waits"

=============================================================================
