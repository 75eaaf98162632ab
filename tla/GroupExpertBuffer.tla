------------------------- MODULE GroupExpertBuffer -------------------------
(***************************************************************************)
(* The two physical expert buffers of layers/moe/kt_group_expert_buffer.py *)
(* under stage actions, as forward_split_prefill of model_runner.py drives *)
(* them: the serving thread, the pipeline thread that materializes the     *)
(* next ticket ahead of its turn, the copy stream and the serving stream.  *)
(*                                                                         *)
(* The GPU lags behind the host.  An event is the position in the serving  *)
(* stream of the work it was recorded after, 0 once that work is done.     *)
(* A group is one layer here: its layers are planned, copied and committed *)
(* together.  The replacement budget is the default one, which refuses no  *)
(* plan.                                                                   *)
(***************************************************************************)
EXTENDS Naturals, Sequences, Functions

CONSTANTS
    NumGroups, Experts, Slots,
    NoExpert,
    Materialization,  \* "delta" or "full"
    MaxAhead,         \* computes the host may have queued; 1 while it waits for
                      \* the CPU experts (SGLANG_KT_SYNC_AFTER_CPU_SUBMIT)
    Plans,            \* the plans tickets come with
    Upsets            \* the values upsets may have

ASSUME BufferAssumption ==
    /\ NumGroups \in Nat \ {0}
    /\ NoExpert \notin Experts
    /\ Materialization \in {"delta", "full"}
    /\ MaxAhead \in Nat \ {0}
    /\ Plans \subseteq {p \in [Slots -> Experts] : IsInjective(p)}
    /\ Upsets \subseteq SUBSET {"fails", "differs"}

Groups   == 0 .. (NumGroups - 1)
Buffers  == {0, 1}
NoGroup  == NumGroups
NoBuffer == 2
Host     == NoBuffer
NoPlan   == [s \in Slots |-> NoExpert]

VARIABLES
    rec,            \* the two records: state, group, plan, valid, done
    newest,         \* the buffer that became READY last (content_version)
    host,           \* where the serving thread is in its action
    ticket,         \* the current action: its group and its plan
    active,         \* active_buffer_id
    last_finished,  \* _last_finished_buffer_id
    pending,        \* the lookahead, until the next action has dealt with it
    matched,        \* the action that deals with it is the one looked ahead
    future,         \* how far the pipeline thread is with it
    job,            \* the copies it has planned and not enqueued yet
    adopted,        \* the buffer being waited for by activate_group
    copies,         \* the copy stream
    serving,        \* the serving stream: the buffer and the weights read
    mem,            \* what the slots of the buffers contain
    upsets          \* why a lookahead may be in vain: reading an expert ahead
                    \* "fails", the action that comes "differs"

hostvars == <<host, ticket, active, last_finished, matched, adopted>>
gpuvars  == <<copies, serving, mem, upsets>>
vars == <<rec, newest, hostvars, pending, future, job, gpuvars>>

NoTicket  == [group |-> NoGroup, plan |-> NoPlan]
NoPending == [ticket |-> NoTicket, target |-> NoBuffer, source |-> NoBuffer, zero |-> FALSE]
NoJob     == [dst |-> NoBuffer, src |-> NoBuffer, ticket |-> NoTicket,
              from |-> [s \in Slots |-> [buf |-> Host, slot |-> s]], wait |-> 0]
NoneAdopted == [buf |-> NoBuffer, zero |-> FALSE]
EmptyRecord == [state |-> "EMPTY", group |-> NoGroup, plan |-> NoPlan,
                valid |-> FALSE, done |-> 0]

WeightsOf(t) == [s \in Slots |-> <<t.group, t.plan[s]>>]

Init ==
    /\ rec = [b \in Buffers |-> EmptyRecord]
    /\ newest = 0
    /\ host = "idle"
    /\ ticket = NoTicket
    /\ active = NoBuffer
    /\ last_finished = NoBuffer
    /\ pending = NoPending
    /\ matched = FALSE
    /\ future = "none"
    /\ job = NoJob
    /\ adopted = NoneAdopted
    /\ copies = <<>>
    /\ serving = <<>>
    /\ mem = [b \in Buffers |-> WeightsOf(NoTicket)]
    /\ upsets \in Upsets

-----------------------------------------------------------------------------
(* Which buffer serves a ticket, and which copies fill it. *)

Other(b) == 1 - b

Settled(b) == rec[b].state \in {"READY", "REUSABLE"} /\ rec[b].valid
Usable(b)    == rec[b].state \in {"ACTIVE", "READY", "REUSABLE"}
HasGroup(b, t) == rec[b].valid /\ rec[b].group = t.group
HasExact(b, t) == rec[b].valid /\ rec[b].group = t.group /\ rec[b].plan = t.plan

(* Of the records of a group, preferred if it is one of them. *)
Prefer(S, preferred) ==
    IF S = {} THEN NoBuffer
    ELSE IF preferred \in S THEN preferred
    ELSE IF newest \in S THEN newest ELSE CHOOSE b \in S : TRUE

LatestRecord(g)    == Prefer({b \in Buffers : Settled(b) /\ rec[b].group = g}, last_finished)
LatestRecordAny(g) == Prefer({b \in Buffers : Usable(b) /\ rec[b].group = g}, newest)
ExactSettled(t)    == Prefer({b \in Buffers : Settled(b) /\ HasExact(b, t)}, last_finished)
ExactUsable(t)     == Prefer({b \in Buffers : Usable(b) /\ HasExact(b, t)}, 0)

Holds(b, g) == b \in Buffers /\ rec[b].group = g /\ rec[b].valid

RetainAnywhere(dst, src, t) ==
    [s \in Slots |->
        IF Materialization = "delta" /\ Holds(dst, t.group) /\ t.plan[s] \in Range(rec[dst].plan)
        THEN [buf |-> dst, slot |-> s]
        ELSE [buf |-> Host, slot |-> s]]

(* Retain what is in its slot already, copy from the source what it has,    *)
(* and read the rest from the host.                                         *)
PlanCopies(dst, src, t) ==
    [s \in Slots |->
        IF Materialization = "delta" /\ Holds(dst, t.group) /\ rec[dst].plan[s] = t.plan[s]
        THEN [buf |-> dst, slot |-> s]
        ELSE IF /\ Materialization = "delta" /\ src # dst /\ Holds(src, t.group)
                /\ t.plan[s] \in Range(rec[src].plan)
        THEN [buf |-> src, slot |-> CHOOSE r \in Slots : rec[src].plan[r] = t.plan[s]]
        ELSE [buf |-> Host, slot |-> s]]
PlanLoad(dst, src, t) ==
    [dst |-> dst, src |-> src, ticket |-> t, from |-> PlanCopies(dst, src, t),
     wait |-> rec[dst].done]

StartLoading(r, t) ==
    [r EXCEPT !.state = "LOADING", !.group = t.group, !.plan = t.plan, !.valid = FALSE]

Later(i, j) == IF i > j THEN i ELSE j

EnqueueAtOnce(load) == copies' = Append(copies, [load EXCEPT !.wait = 0])

(* The copies wait for the computes that read the destination before, and   *)
(* for the one that reads the source.                                       *)
Enqueue(load) ==
    copies' = Append(copies,
        IF load.src = NoBuffer THEN load
        ELSE [load EXCEPT !.wait = Later(load.wait, rec[load.src].done)])

Reads(load, b) == \E s \in Slots : load.dst # b /\ load.from[s].buf = b
LeasesDrained(b) == \A i \in DOMAIN copies : ~ Reads(copies[i], b)
Landed(b)        == \A i \in DOMAIN copies : copies[i].dst # b

-----------------------------------------------------------------------------
(* The serving thread. *)

BeginAction(t) ==
    /\ host = "idle"
    /\ ticket' = t
    /\ \/ pending = NoPending /\ host' = "begun" /\ matched' = FALSE
       \/ /\ pending # NoPending /\ host' = "adopting"
          /\ \/ t = pending.ticket /\ matched' = TRUE
             \/ "differs" \in upsets /\ matched' = FALSE
    /\ UNCHANGED <<rec, newest, active, last_finished, adopted, pending, future, job, gpuvars>>

ForgetPending ==
    /\ pending' = NoPending /\ future' = "none"
    /\ host' = "begun" /\ matched' = FALSE

AdoptPending ==
    /\ host = "adopting" /\ matched
    /\ future = "done"
    /\ adopted' = [buf |-> pending.target, zero |-> pending.zero]
    /\ ForgetPending
    /\ UNCHANGED <<rec, newest, ticket, active, last_finished, job, gpuvars>>

Unwanted == future = "failed" \/ (future = "done" /\ ~ matched)
KeepRecord ==
    /\ host = "adopting" /\ Unwanted
    /\ copies = <<>>
    /\ ForgetPending
    /\ UNCHANGED <<rec, newest, ticket, active, last_finished, adopted, job, gpuvars>>

(* The copy stream is drained before the record is dropped. *)
DiscardPending ==
    /\ host = "adopting" /\ Unwanted
    /\ copies = <<>>
    /\ rec' = [rec EXCEPT ![pending.target] = EmptyRecord]
    /\ ForgetPending
    /\ UNCHANGED <<newest, ticket, active, last_finished, adopted, job, gpuvars>>
Commit(b) ==
    /\ active' = b
    /\ host' = "active"
    /\ adopted' = NoneAdopted
    /\ UNCHANGED <<ticket, last_finished, matched, pending, future, job, gpuvars>>

(* A load, adopted or of this thread, is committed once its event fired. *)
ActivateLoaded ==
    /\ host = "begun"
    /\ adopted.buf # NoBuffer /\ ~ adopted.zero
    /\ Landed(adopted.buf)
    /\ rec' = [rec EXCEPT ![adopted.buf].state = "ACTIVE", ![adopted.buf].valid = TRUE]
    /\ newest' = adopted.buf
    /\ Commit(adopted.buf)
(* What holds the plan already is committed without a copy. *)
ReusedRecord ==
    IF adopted.zero THEN adopted.buf
    ELSE IF adopted.buf = NoBuffer /\ Materialization = "delta" THEN ExactSettled(ticket)
    ELSE NoBuffer

ActivateResident ==
    /\ host = "begun"
    /\ ReusedRecord # NoBuffer
    /\ rec' = [rec EXCEPT ![ReusedRecord].state = "ACTIVE"]
    /\ UNCHANGED newest
    /\ Commit(ReusedRecord)

ForegroundSource == IF Materialization = "delta" THEN LatestRecord(ticket.group) ELSE NoBuffer
ForegroundTarget ==
    IF ForegroundSource = NoBuffer THEN ticket.group % 2 ELSE Other(ForegroundSource)

LoadForeground ==
    /\ host = "begun"
    /\ adopted.buf = NoBuffer
    /\ ReusedRecord = NoBuffer
    /\ LeasesDrained(ForegroundTarget)
    /\ Enqueue(PlanLoad(ForegroundTarget, ForegroundSource, ticket))
    /\ rec' = [rec EXCEPT ![ForegroundTarget] =
                    [StartLoading(@, ticket) EXCEPT !.done = 0]]
    /\ adopted' = [buf |-> ForegroundTarget, zero |-> FALSE]
    /\ UNCHANGED <<newest, host, ticket, active, last_finished, matched,
                   pending, future, job, serving, mem, upsets>>

(* Given the next ticket, freeze its buffer and start filling it. *)
OldestBuffer    == Other(newest)
LookaheadTarget == Other(active)

PrefetchAction(t) ==
    /\ host = "active"
    /\ pending = NoPending
    /\ LET resident == IF Materialization = "delta" THEN ExactUsable(t) ELSE NoBuffer
       IN  IF resident # NoBuffer
           THEN /\ pending' = [ticket |-> t, target |-> resident, source |-> resident, zero |-> TRUE]
                /\ future' = "done"
           ELSE /\ pending' = [ticket |-> t, target |-> LookaheadTarget, zero |-> FALSE,
                               source |-> IF Materialization = "delta"
                                          THEN LatestRecordAny(t.group) ELSE NoBuffer]
                /\ future' = "queued"
    /\ UNCHANGED <<rec, newest, hostvars, job, gpuvars>>

Forward ==
    /\ host = "active"
    /\ Len(serving) < MaxAhead
    /\ serving' = Append(serving, [buf |-> active, weights |-> WeightsOf(ticket)])
    /\ host' = "computed"
    /\ UNCHANGED <<rec, newest, ticket, active, last_finished, matched, adopted,
                   pending, future, job, copies, mem, upsets>>

FinishGroup ==
    /\ host = "computed"
    /\ rec' = [rec EXCEPT ![active].state = "REUSABLE", ![active].done = Len(serving)]
    /\ last_finished' = active
    /\ active' = NoBuffer
    /\ host' = "finished"
    /\ UNCHANGED <<newest, ticket, matched, adopted, pending, future, job, gpuvars>>

EndAction ==
    /\ host = "finished"
    /\ host' = "idle"
    /\ ticket' = NoTicket
    /\ UNCHANGED <<rec, newest, active, last_finished, matched, adopted,
                   pending, future, job, gpuvars>>

(* An action that raises drops the lookahead; the exception then leaves the *)
(* scheduler loop.                                                          *)
AbortStep ==
    /\ host \in {"begun", "active", "computed"}
    /\ future \in {"none", "done", "failed"}
    /\ copies = <<>>
    /\ rec' = [b \in Buffers |->
            IF b = pending.target /\ rec[b].state # "ACTIVE" THEN EmptyRecord
            ELSE IF rec[b].state = "EMPTY" THEN rec[b]
            ELSE [rec[b] EXCEPT !.state = "REUSABLE"]]
    /\ host' = "stopped"
    /\ ticket' = NoTicket
    /\ active' = NoBuffer
    /\ adopted' = NoneAdopted
    /\ pending' = NoPending /\ future' = "none"
    /\ UNCHANGED <<newest, last_finished, matched, job, gpuvars>>

Stopped == host = "stopped" /\ UNCHANGED vars

-----------------------------------------------------------------------------
(* The pipeline thread. *)

PipelinePlans ==
    /\ future = "queued"
    /\ LeasesDrained(pending.target)
    /\ job' = PlanLoad(pending.target, pending.source, pending.ticket)
    /\ rec' = [rec EXCEPT ![pending.target] = StartLoading(@, pending.ticket)]
    /\ future' = "preparing"
    /\ UNCHANGED <<newest, hostvars, pending, gpuvars>>

PipelineRetries ==
    /\ "fails" \in upsets
    /\ future = "preparing"
    /\ job' = NoJob
    /\ future' = "queued"
    /\ UNCHANGED <<rec, newest, hostvars, pending, gpuvars>>
PipelineFails ==
    /\ "fails" \in upsets
    /\ future = "preparing"
    /\ job' = NoJob
    /\ future' = "failed"
    /\ UNCHANGED <<rec, newest, hostvars, pending, gpuvars>>

PipelineEnqueues ==
    /\ future = "preparing"
    /\ Enqueue(job)
    /\ rec' = [rec EXCEPT ![pending.target].done = 0]
    /\ job' = NoJob
    /\ future' = "done"
    /\ UNCHANGED <<newest, hostvars, pending, serving, mem, upsets>>

-----------------------------------------------------------------------------
(* The GPU. *)

CopyStep ==
    /\ copies # <<>>
    /\ Head(copies).wait = 0
    /\ LET c == Head(copies)
       IN  mem' = [mem EXCEPT ![c.dst] = [s \in Slots |->
                        IF c.from[s].buf = Host THEN WeightsOf(c.ticket)[s]
                        ELSE mem[c.from[s].buf][c.from[s].slot]]]
    /\ copies' = Tail(copies)
    /\ UNCHANGED <<rec, newest, hostvars, pending, future, job, serving, upsets>>

Sooner(i) == IF i = 0 THEN 0 ELSE i - 1

ServeStep ==
    /\ serving # <<>>
    /\ serving' = Tail(serving)
    /\ rec' = [b \in Buffers |-> [rec[b] EXCEPT !.done = Sooner(@)]]
    /\ job' = [job EXCEPT !.wait = Sooner(@)]
    /\ copies' = [i \in DOMAIN copies |-> [copies[i] EXCEPT !.wait = Sooner(@)]]
    /\ UNCHANGED <<newest, hostvars, pending, future, mem, upsets>>

Next ==
    \/ \E g \in Groups, p \in Plans :
          LET t == [group |-> g, plan |-> p] IN BeginAction(t) \/ PrefetchAction(t)
    \/ AdoptPending \/ DiscardPending
    \/ ActivateLoaded \/ ActivateResident \/ LoadForeground
    \/ Forward \/ FinishGroup \/ EndAction
    \/ AbortStep \/ Stopped
    \/ PipelinePlans \/ PipelineFails \/ PipelineEnqueues
    \/ CopyStep \/ ServeStep

Spec == Init /\ [][Next]_vars

(* The GPU makes progress, the pipeline thread runs what it was given, and  *)
(* an action that was begun is carried on; nobody has to begin one.         *)
Fairness ==
    /\ WF_vars(CopyStep) /\ WF_vars(ServeStep)
    /\ WF_vars(PipelinePlans) /\ WF_vars(PipelineFails \/ PipelineEnqueues)
    /\ WF_vars(AdoptPending \/ DiscardPending)
    /\ WF_vars(ActivateLoaded \/ ActivateResident \/ LoadForeground)
    /\ WF_vars(Forward) /\ WF_vars(FinishGroup) /\ WF_vars(EndAction)
FairSpec == Spec /\ Fairness

-----------------------------------------------------------------------------
(* Properties. *)

(* Whatever the GPU has still to compute finds in its buffer the weights it *)
(* was launched for: no copy overtakes a reader.                            *)
ReadersKeepTheirWeights ==
    \A i \in DOMAIN serving : mem[serving[i].buf] = serving[i].weights

(* Which holds as long as no lookahead is discarded: with the record goes   *)
(* the event of its last compute, and the next load does not wait for it.   *)
OnlyDiscardsLoseReaders == upsets = {} => ReadersKeepTheirWeights

(* A record that says its slots are valid says what is in the memory, as    *)
(* long as no copy into it is on its way: deltas are built on records.      *)
ValidMeansLoaded ==
    \A b \in Buffers : rec[b].valid =>
        Landed(b) /\ mem[b] = WeightsOf([group |-> rec[b].group, plan |-> rec[b].plan])

(* What is committed is the plan of the action's own ticket, complete.      *)
TicketGetsItsPlan ==
    host \in {"active", "computed"} =>
        rec[active] = [state |-> "ACTIVE", group |-> ticket.group, plan |-> ticket.plan,
                       valid |-> TRUE, done |-> rec[active].done]

(* A buffer is LOADING only on behalf of somebody who will deal with it:    *)
(* the lookahead in progress or the activation that waits for it.  So a     *)
(* lookahead that failed or was not wanted leaves no half-filled record.    *)
LoadingHasOwner ==
    host # "stopped" =>
        \A b \in Buffers : rec[b].state = "LOADING" =>
            \/ b = adopted.buf /\ ~ adopted.zero
            \/ b = pending.target /\ ~ pending.zero

(* The lookahead is never about the buffer in use, unless it found its plan *)
(* there, and what it found is still there when its ticket's turn comes.    *)
LookaheadStaysGood ==
    pending # NoPending =>
        IF pending.zero
        THEN /\ rec[pending.target].valid
             /\ rec[pending.target].group = pending.ticket.group
             /\ rec[pending.target].plan = pending.ticket.plan
        ELSE /\ pending.target # active
             /\ future = "done" => /\ rec[pending.target].group = pending.ticket.group
                                   /\ rec[pending.target].plan = pending.ticket.plan

(* Every action that is begun gets its group on the GPU, or is aborted.     *)
ActionsGetServed == host = "adopting" ~> host \in {"active", "stopped"}
=============================================================================
