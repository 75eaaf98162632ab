--------------------------- MODULE FullLayerLoad ---------------------------
(***************************************************************************)
(* Long prompts run whole MoE layers on the GPU: the full-GPU fallback of  *)
(* KTEPWrapperMethod.apply and SharedFullContext.load in                   *)
(* layers/moe/kt_ep_wrapper.py, on all tensor-parallel ranks.              *)
(*                                                                         *)
(* Before it computes, a rank gathers the experts of the layer in the one  *)
(* full layer all MoE layers share.  What is on the GPU is copied there;   *)
(* the rest comes through two pinned buffers in each rank's memory, which  *)
(* rank 0 has the CPU kernel write, expert after expert: write(e+1) ||     *)
(* copy(e).  A barrier in every iteration tells the others what is there.  *)
(* Afterwards the busiest experts of the batch may become the ones that    *)
(* stay on the GPU.  Short prompts compute with those.                     *)
(***************************************************************************)
EXTENDS Naturals, FiniteSets

CONSTANTS
    WorldSize,      \* tensor-parallel ranks
    NumLayers,
    NumExperts,
    NumGpu,         \* num_gpu_experts
    Selections,     \* the sets of experts batches may make the ones that stay
    Formats,        \* weight formats a process may be started with
    Torn            \* what a buffer holds while it is written

ASSUME LoadAssumption ==
    /\ WorldSize \in Nat \ {0} /\ NumLayers \in Nat \ {0}
    /\ NumGpu \in Nat /\ NumExperts \in Nat /\ NumGpu <= NumExperts
    /\ Formats \subseteq {"fp8", "int4"}
    /\ \A S \in Selections : S \subseteq 0 .. (NumExperts - 1) /\ Cardinality(S) = NumGpu
    /\ Torn \notin [layer : Nat, expert : Nat, ready : BOOLEAN]

Ranks   == 0 .. (WorldSize - 1)
Layers  == 0 .. (NumLayers - 1)
Experts == 0 .. (NumExperts - 1)
Slots   == 0 .. (NumGpu - 1)

VARIABLES
    format,     \* "fp8" stands for fp8, per block and per channel, and bf16
    layer,      \* the MoE layer of this forward pass
    full,       \* gpu_prefill_token_threshold is reached
    pc,         \* where each rank is
    idx,        \* the loop index of each rank: the copies it has launched
    copied,     \* how far its copy stream is: events[i] is done iff i < copied
    posted,     \* how far its postprocessing stream is
    write,      \* the write under way: position, and the ranks' buffers left
    buffers,    \* cpu_buffers of each rank
    gpu,        \* gpu_layer of each rank
    placed,     \* per rank and layer: the experts of gpu_experts_mask
    held,       \* per rank and layer: the weights in the slots of the layer
    chosen      \* selected_experts, once rank 0 has broadcast them

streams == <<copied, posted>>
tables  == <<placed, held>>
vars == <<format, layer, full, pc, idx, streams, write, buffers, gpu, tables, chosen>>

InPlace  == format = "int4"     \* postprocess_expert rewrites the copy
Shortcut == format = "fp8"      \* experts on the GPU are copied there

(* Weights, and the i-th of a set of experts, in order.                     *)
Weights(l, e, ready) == [layer |-> l, expert |-> e, ready |-> ready]
Nth(S, i) == CHOOSE e \in S : Cardinality({d \in S : d < e}) = i
SlotOf(S, e) == Cardinality({d \in S : d < e})

NoWrite == [at |-> 0, todo |-> {}, doing |-> {}]

Init ==
    /\ format \in Formats
    /\ layer = 0 /\ full \in BOOLEAN
    /\ pc = [r \in Ranks |-> "start"]
    /\ idx = [r \in Ranks |-> 0] /\ copied = idx /\ posted = idx
    /\ write = NoWrite
    /\ buffers = [r \in Ranks |-> [b \in {0, 1} |-> Torn]]
    /\ gpu = [r \in Ranks |-> [e \in Experts |-> Torn]]
    /\ \E S \in [Layers -> Selections] :
          /\ placed = [r \in Ranks |-> S]
          /\ held = [r \in Ranks |-> [l \in Layers |->
                        [s \in Slots |-> Weights(l, Nth(S[l], s), TRUE)]]]
    /\ chosen = {}

-----------------------------------------------------------------------------
(* Loading a layer: _prepare_weight_fp8 and its siblings. *)

FromCpu(r) == IF Shortcut THEN Experts \ placed[r][layer] ELSE Experts
Count(r) == Cardinality(FromCpu(r))
Position(r, i) == Nth(FromCpu(r), i)
Submit(i) == write' = [at |-> i, todo |-> Ranks, doing |-> {}]
Written == write.todo = {} /\ write.doing = {}
Goto(r, where) == pc' = [pc EXCEPT ![r] = where]
LoopFor(r) == IF r = 0 THEN "write" ELSE "barrier"

StartLoad(r) ==
    /\ pc[r] = "start" /\ full
    /\ gpu' = [gpu EXCEPT ![r] = [e \in Experts |->
                  IF e \in FromCpu(r) THEN @[e]
                  ELSE held[r][layer][SlotOf(placed[r][layer], e)]]]
    /\ idx' = [idx EXCEPT ![r] = 0]
    /\ copied' = [copied EXCEPT ![r] = 0] /\ posted' = [posted EXCEPT ![r] = 0]
    /\ IF r = 0 /\ Count(r) > 0 THEN Submit(0) ELSE UNCHANGED write
    /\ Goto(r, IF Count(r) = 0 THEN "wait" ELSE LoopFor(r))
    /\ UNCHANGED <<format, layer, full, buffers, tables, chosen>>

(* Rank 0 waits for the write of this expert and for its own copy of the    *)
(* one before, whose buffer the next write takes on all ranks.              *)
NeverWaits  == TRUE
BufferFree  == idx[0] > 0 => copied[0] >= idx[0]
More        == idx[0] + 1 < Count(0)
WriteAhead ==
    /\ pc[0] = "write" /\ Written
    /\ More => BufferFree
    /\ IF More THEN Submit(idx[0] + 1) ELSE UNCHANGED write
    /\ Goto(0, "barrier")
    /\ UNCHANGED <<format, layer, full, idx, streams, buffers, gpu, tables, chosen>>

(* dist.barrier, and the launch of the copy.                                *)
Entered(r) == IF pc[r] = "start" THEN 0 ELSE IF pc[r] = "barrier" THEN idx[r] + 1 ELSE idx[r]
NoBarrier(r)  == TRUE
AllEntered(r) == \A q \in Ranks : Entered(q) > idx[r]
LaunchCopy(r) ==
    /\ pc[r] = "barrier" /\ AllEntered(r)
    /\ idx' = [idx EXCEPT ![r] = @ + 1]
    /\ Goto(r, IF idx[r] + 1 = Count(r) THEN "wait" ELSE LoopFor(r))
    /\ UNCHANGED <<format, layer, full, streams, write, buffers, gpu, tables, chosen>>

(* The kernel's threads write one rank's buffer after or beside another's.  *)
BeginWrite(r) ==
    /\ r \in write.todo
    /\ write' = [write EXCEPT !.todo = @ \ {r}, !.doing = @ \cup {r}]
    /\ buffers' = [buffers EXCEPT ![r][write.at % 2] = Torn]
    /\ UNCHANGED <<format, layer, full, pc, idx, streams, gpu, tables, chosen>>
EndWrite(r) ==
    /\ r \in write.doing
    /\ write' = [write EXCEPT !.doing = @ \ {r}]
    /\ buffers' = [buffers EXCEPT ![r][write.at % 2] =
                      Weights(layer, Position(0, write.at), ~ InPlace)]
    /\ UNCHANGED <<format, layer, full, pc, idx, streams, gpu, tables, chosen>>

(* The copy stream, and the stream that postprocesses what was copied.      *)
Copy(r) ==
    /\ copied[r] < idx[r]
    /\ gpu' = [gpu EXCEPT ![r][Position(r, copied[r])] = buffers[r][copied[r] % 2]]
    /\ copied' = [copied EXCEPT ![r] = @ + 1]
    /\ UNCHANGED <<format, layer, full, pc, idx, posted, write, buffers, tables, chosen>>
Post(r) ==
    /\ InPlace /\ posted[r] < copied[r]
    /\ gpu' = [gpu EXCEPT ![r][Position(r, posted[r])] =
                  IF @ = Torn THEN Torn ELSE [@ EXCEPT !.ready = TRUE]]
    /\ posted' = [posted EXCEPT ![r] = @ + 1]
    /\ UNCHANGED <<format, layer, full, pc, idx, copied, write, buffers, tables, chosen>>

(* The serving stream waits for these streams, then computes.               *)
Loaded(r) ==
    /\ pc[r] = "wait" /\ copied[r] = Count(r)
    /\ InPlace => posted[r] = Count(r)
ComputeFull(r) ==
    /\ Loaded(r)
    /\ Goto(r, "update")
    /\ UNCHANGED <<format, layer, full, idx, streams, write, buffers, gpu, tables, chosen>>

-----------------------------------------------------------------------------
(* _update_gpu_experts_from_batch: rank 0 selects and broadcasts, all copy  *)
(* from the full layer and rebuild their tables.                            *)

Place(r, S) ==
    /\ placed' = [placed EXCEPT ![r][layer] = S]
    /\ held' = [held EXCEPT ![r][layer] = [s \in Slots |-> gpu[r][Nth(S, s)]]]
    /\ Goto(r, "end")
    /\ UNCHANGED <<format, layer, full, idx, streams, write, buffers, gpu>>
Select ==
    /\ pc[0] = "update"
    /\ \E S \in Selections : chosen' = {S} /\ Place(0, S)
Follow(r) ==
    /\ r # 0 /\ pc[r] = "update"
    /\ \E S \in chosen : Place(r, S)
    /\ UNCHANGED chosen

(* The hybrid path, with the experts on the GPU; the CPU has the others.    *)
ComputeHybrid(r) ==
    /\ pc[r] = "start" /\ ~ full
    /\ Goto(r, "end")
    /\ UNCHANGED <<format, layer, full, idx, streams, write, buffers, gpu, tables, chosen>>

(* The ranks reduce their results before the next MoE layer.                *)
NextLayer ==
    /\ \A r \in Ranks : pc[r] = "end"
    /\ layer' = (layer + 1) % NumLayers /\ full' \in BOOLEAN
    /\ pc' = [r \in Ranks |-> "start"]
    /\ chosen' = {}
    /\ UNCHANGED <<format, idx, streams, write, buffers, gpu, tables>>

Rank(r) ==
    \/ StartLoad(r) \/ LaunchCopy(r) \/ ComputeFull(r) \/ Follow(r) \/ ComputeHybrid(r)
    \/ (r = 0 /\ (WriteAhead \/ Select))
Device(r) == Copy(r) \/ Post(r) \/ BeginWrite(r) \/ EndWrite(r)
Next == NextLayer \/ \E r \in Ranks : Rank(r) \/ Device(r)
Spec == Init /\ [][Next]_vars

-----------------------------------------------------------------------------
(* Properties. *)

Right(e) == Weights(layer, e, TRUE)

(* Rank 0 computes with the right weights, on the whole layer and on the    *)
(* experts that stay, whatever was loaded and placed before.                *)
MainRankIsRight ==
    /\ Loaded(0) => \A e \in Experts : gpu[0][e] = Right(e)
    /\ pc[0] = "start" => \A s \in Slots :
          held[0][layer][s] = Right(Nth(placed[0][layer], s))

(* Nobody waits for the copies of the other ranks: the writes that take the *)
(* buffer may overtake one.  Then the rank gets a later expert of the same  *)
(* buffer, or half of one; never one of an earlier position or an earlier   *)
(* layer.                                                                   *)
OvertakenByLaterOnly ==
    \A r \in Ranks : Loaded(r) =>
        \A i \in 0 .. (Count(r) - 1) :
            \/ gpu[r][Position(r, i)] = Torn
            \/ \E j \in i .. (Count(r) - 1) :
                  j % 2 = i % 2 /\ gpu[r][Position(r, i)] = Right(Position(r, j))

(* "Before writing to next_slot, ensure copy from that slot is complete"    *)
(* (kt_ep_wrapper.py:2624), for every rank whose buffer is written.         *)
EveryRankIsRight == \A r \in Ranks : Loaded(r) =>
    \A e \in FromCpu(r) : gpu[r][e] = Right(e)
=============================================================================
