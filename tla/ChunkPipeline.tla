---------------------------- MODULE ChunkPipeline ----------------------------
(***************************************************************************)
(* What the prefill scheduler promises about prompt chunks, without        *)
(* queues, tickets, versions or an ownership map: at most MaxInflight      *)
(* chunks and at most one chunk of a request are in the pipeline; a chunk  *)
(* in it goes through the groups 0 .. NumGroups-1 one at a time, is held   *)
(* by a worker whenever it moves, and leaves the pipeline once, after the  *)
(* last group or by failing.                                               *)
(***************************************************************************)
EXTENDS Naturals, FiniteSets

CONSTANTS Chunks, Requests, RequestOf, NumGroups, MaxInflight

VARIABLES
    phase,   \* "out", "in", "ran", "done" or "failed"
    stage,   \* the group a chunk is at
    held     \* the chunks some worker holds

pvars == <<phase, stage, held>>

InPipeline == {c \in Chunks : phase[c] \in {"in", "ran"}}

PInit ==
    /\ phase = [c \in Chunks |-> "out"]
    /\ stage = [c \in Chunks |-> 0]
    /\ held = {}

Become(S, p) == phase' = [c \in Chunks |-> IF c \in S THEN p ELSE phase[c]]
IsIn(S) == S # {} /\ \A c \in S : phase[c] = "in"

Enter(c) ==
    /\ phase[c] = "out"
    /\ \A d \in InPipeline : RequestOf[d] # RequestOf[c]
    /\ Cardinality(InPipeline) < MaxInflight
    /\ Become({c}, "in")
    /\ UNCHANGED <<stage, held>>

Claim(S) ==
    /\ IsIn(S)
    /\ S \cap held = {}
    /\ \A c, d \in S : stage[c] = stage[d] /\ (RequestOf[c] = RequestOf[d] => c = d)
    /\ held' = held \cup S
    /\ UNCHANGED <<phase, stage>>

GiveBack(S) ==
    /\ IsIn(S)
    /\ S \subseteq held
    /\ held' = held \ S
    /\ UNCHANGED <<phase, stage>>

Advance(S, g) ==
    /\ IsIn(S)
    /\ S \subseteq held
    /\ \A c \in S : stage[c] = g
    /\ held' = held \ S
    /\ \/ /\ g < NumGroups - 1
          /\ stage' = [c \in Chunks |-> IF c \in S THEN g + 1 ELSE stage[c]]
          /\ UNCHANGED phase
       \/ /\ g = NumGroups - 1
          /\ Become(S, "ran")
          /\ UNCHANGED stage

Retire(S) ==
    /\ S # {}
    /\ \A c \in S : phase[c] = "ran"
    /\ Become(S, "done")
    /\ UNCHANGED <<stage, held>>

Abort(S) ==
    /\ S # {}
    /\ S \subseteq InPipeline
    /\ Become(S, "failed")
    /\ held' = held \ S
    /\ UNCHANGED stage

PNext ==
    \/ \E c \in Chunks : Enter(c)
    \/ \E S \in SUBSET Chunks : \/ Claim(S)
                                \/ GiveBack(S)
                                \/ \E g \in 0 .. (NumGroups - 1) : Advance(S, g)
                                \/ Retire(S)
                                \/ Abort(S)

PSpec == PInit /\ [][PNext]_pvars
=============================================================================
