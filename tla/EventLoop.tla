----------------------------- MODULE EventLoop -----------------------------
(***************************************************************************)
(* The scheduler loop around the stage queues: event_loop_normal of        *)
(* managers/scheduler.py with --kt-stage-ready-scheduler, and the calls it *)
(* makes to choose, admit, dispatch, process and finalize a batch.         *)
(*                                                                         *)
(* The loop is one thread.  A request of several prompt chunks travels     *)
(* between the waiting queue, chunked_req, the stage queues, the list of   *)
(* pending continuations, the batch that ran last and the running (decode) *)
(* batch; client messages are handled only between two iterations.  Which  *)
(* cohort the stage scheduler picks is StageScheduler's subject: here it   *)
(* is any cohort of one group.  The stage options force one request per    *)
(* prefill batch, no mixed chunks and no overlap, so those paths of the    *)
(* loop are absent.  A result that raises ends the process (StageScheduler)*)
(* and is left out.                                                        *)
(***************************************************************************)
EXTENDS Naturals, FiniteSets, StageBatch

CONSTANTS
    Requests,
    NumChunks,      \* prompt chunks of each request
    Rows,           \* tokens of one of its chunks
    NumGroups,      \* layer groups
    CohortSize,     \* cohort_size
    MaxInflight,    \* max_inflight_states
    MaxRunning,     \* pp_max_micro_batch_size
    Returning,      \* bound: names that later requests use again
    Impatient,      \* bound: requests whose client may abort them
    MaxTokens,      \* bound: output tokens of a request
    MaxRetracts,    \* bound: how often the decode batch runs out of memory
    MaxPauses,      \* bound: how often a client pauses generation
    AnyPause,       \* pauses also fall between a cohort and its continuations
    None

ASSUME EventLoopAssumption ==
    /\ NumChunks \in [Requests -> Nat \ {0}]
    /\ Rows \in [Requests -> Nat \ {0}]
    /\ {NumGroups, CohortSize, MaxInflight, MaxRunning, MaxTokens} \subseteq Nat \ {0}
    /\ {MaxRetracts, MaxPauses} \subseteq Nat
    /\ AnyPause \in BOOLEAN /\ Returning \cup Impatient \subseteq Requests
    /\ None \notin Requests

VARIABLES
    pc,         \* where in the iteration the loop is
    paused,     \* _engine_paused
    waiting,    \* waiting_queue
    chunked,    \* chunked_req
    pending,    \* _kt_stage_pending_continuations
    inflight,   \* the chunks in the stage queues
    running,    \* the requests of running_batch
    full,       \* running_batch.batch_is_full
    batch,      \* the batch of this iteration
    last,       \* last_batch
    cur,        \* the requests of cur_batch
    done,       \* chunks of a request that were put into a batch
    tokens,     \* output tokens of a request
    fate,       \* new, live, finished or aborted
    to_finish,  \* requests marked FINISH_ABORT
    asked,      \* history: requests whose client sent an abort
    retracts, pauses

reqvars == <<done, tokens, fate, to_finish, asked>>
vars == <<pc, paused, waiting, chunked, pending, inflight, running, full, batch,
          last, cur, reqvars, retracts, pauses>>

Batch(kind, members) == [kind |-> kind, members |-> members]
NoBatch == Batch("none", <<>>)
NoLast  == [kind |-> "none", reqs |-> {}]
Members(b) == {b.members[i].req : i \in DOMAIN b.members}

Init ==
    /\ pc = "receive" /\ paused = FALSE
    /\ waiting = <<>> /\ chunked = None /\ pending = <<>> /\ inflight = {}
    /\ running = {} /\ full = FALSE
    /\ batch = NoBatch /\ last = NoLast /\ cur = {}
    /\ done = [r \in Requests |-> 0]
    /\ tokens = [r \in Requests |-> 0]
    /\ fate = [r \in Requests |-> "new"]
    /\ to_finish = {} /\ asked = {}
    /\ retracts = 0 /\ pauses = 0

Live(R)  == {r \in R : fate[r] = "live"}
InStages == {c.req : c \in inflight}

(* The elements of seq at the positions in I, in order.                     *)
Those(seq, I) ==
    LET Nth(n) == CHOOSE i \in I : Cardinality({j \in I : j <= i}) = n
    IN  [n \in 1 .. Cardinality(I) |-> seq[Nth(n)]]

-----------------------------------------------------------------------------
(* What clients ask for: handled by process_input_requests.  A name may be  *)
(* used again by a later request once nothing holds the former one.        *)

Arrive(r) ==
    /\ pc = "receive"
    /\ fate[r] = "new" \/ (r \in Returning /\ fate[r] # "live")
    /\ r \notin running \cup last.reqs \cup cur
    /\ waiting' = Append(waiting, r)
    /\ fate' = [fate EXCEPT ![r] = "live"]
    /\ done' = [done EXCEPT ![r] = 0]
    /\ tokens' = [tokens EXCEPT ![r] = 0]
    /\ to_finish' = to_finish \ {r} /\ asked' = asked \ {r}
    /\ UNCHANGED <<pc, paused, chunked, pending, inflight, running, full, batch,
                   last, cur, retracts, pauses>>

(* abort_request drops a waiting request and marks one that runs; what is   *)
(* only in the list of pending continuations is in none of its lists.       *)
RunningOrCurrent == running \cup cur
Abortable == RunningOrCurrent \cup InStages
Abort(r) ==
    /\ pc = "receive"
    /\ fate[r] = "live" /\ r \notin asked
    /\ asked' = asked \cup {r}
    /\ IF r \in ToSet(waiting)
       THEN /\ waiting' = Those(waiting, {i \in DOMAIN waiting : waiting[i] # r})
            /\ fate' = [fate EXCEPT ![r] = "aborted"]
       ELSE UNCHANGED <<waiting, fate>>
    /\ to_finish' = IF r \in Abortable THEN to_finish \cup {r} ELSE to_finish
    /\ UNCHANGED <<pc, paused, chunked, pending, inflight, running, full, batch,
                   last, cur, done, tokens, retracts, pauses>>

(* pause_generation merges the prefill batch that ran last into the running *)
(* batch; with "retract" every request of that goes back to the queue.      *)
NothingMerged(excluded) == {}
Merged(excluded) == IF last.kind = "prefill" THEN Live(last.reqs) \ excluded ELSE {}
PauseAllowed ==
    \/ AnyPause
    \/ last.kind # "prefill"
    \/ running # {} /\ last.reqs \cap ToSet(pending) = {}
Pauses ==
    /\ pc = "receive" /\ ~ paused
    /\ pauses < MaxPauses /\ PauseAllowed
    /\ paused' = TRUE /\ pauses' = pauses + 1
    /\ last' = NoLast /\ cur' = {}

PauseInPlace ==
    /\ Pauses
    /\ running' = running \cup Merged({chunked})
    /\ UNCHANGED <<pc, waiting, chunked, pending, inflight, full, batch, reqvars, retracts>>

PauseAndRetract ==
    LET back == Live(running) \cup Merged({}) IN
    /\ Pauses
    /\ running' = {} /\ full' = FALSE /\ chunked' = None
    /\ \E order \in SetToSeqs(back) : waiting' = waiting \o order
    /\ done' = [r \in Requests |-> IF r \in back THEN 0 ELSE done[r]]
    /\ UNCHANGED <<pc, pending, inflight, batch, tokens, fate, to_finish, asked, retracts>>

Continue ==
    /\ pc = "receive" /\ paused
    /\ paused' = FALSE
    /\ UNCHANGED <<pc, waiting, chunked, pending, inflight, running, full, batch,
                   last, cur, reqvars, retracts, pauses>>

(* flush_cache clears the KV pools when _is_no_request says so; running and *)
(* last_batch may still list requests that have finished.                   *)
NoBatches == running = {} /\ last.reqs = {} /\ cur = {}
IsNoRequest == NoBatches /\ inflight = {} /\ pending = <<>>

-----------------------------------------------------------------------------
(* One iteration: get_next_batch_to_run, dispatch, run, process the result. *)

HasReady == inflight # {}
HasWork == (waiting # <<>> \/ pending # <<>>) /\ chunked = None
CanAdmit == Cardinality(inflight) < MaxInflight /\ HasWork
MustMerge == last.kind = "prefill"

(* _get_next_kt_stage_batch_to_run asks the legacy path first, or not.      *)
BeginIteration ==
    /\ pc = "receive" /\ ~ paused
    /\ pc' = IF MustMerge \/ CanAdmit \/ ~ HasReady THEN "merge" ELSE "select"
    /\ UNCHANGED <<paused, waiting, chunked, pending, inflight, running, full, batch,
                   last, cur, reqvars, retracts, pauses>>

(* The legacy path first restores one continuation as chunked_req, and then *)
(* merges what is left of last_batch, without any continuation, into the    *)
(* running batch.  last_batch.chunked_req is one of the continuations.      *)
OnlyActivated == IF pending = <<>> THEN {chunked} ELSE {Head(pending)}
ContinuationsExcluded == ToSet(pending) \cup {chunked}
Activates == pending # <<>> /\ chunked = None
Merge ==
    LET left == Merged(ContinuationsExcluded) IN
    /\ pc = "merge"
    /\ pc' = "prefill"
    /\ chunked' = IF Activates THEN Head(pending) ELSE chunked
    /\ pending' = IF Activates THEN Tail(pending) ELSE pending
    /\ running' = running \cup left
    /\ full' = IF \/ Activates
                  \/ last.kind = "prefill" /\ left # last.reqs
                  \/ running = {} /\ left # {}
               THEN FALSE ELSE full
    /\ UNCHANGED <<paused, waiting, inflight, batch, last, cur, reqvars, retracts, pauses>>

(* _get_new_batch_prefill_raw.  Its first two returns; a third one, NoToken,*)
(* is the adder's when the KV pool cannot take the first waiting request,   *)
(* which is possible only while others hold part of it.                     *)
Allocatable == MaxRunning - Cardinality(running)
Rejects(r) ==
    /\ chunked = None
    /\ full' = r
    /\ pc' = "decode"
    /\ UNCHANGED <<paused, waiting, chunked, pending, inflight, running, batch,
                   last, cur, reqvars, retracts, pauses>>
NothingToAdd == pc = "prefill" /\ (full \/ waiting = <<>>) /\ Rejects(full)
BatchIsFull  == pc = "prefill" /\ ~ full /\ waiting # <<>> /\ Allocatable <= 0 /\ Rejects(TRUE)
NoToken ==
    /\ pc = "prefill" /\ ~ full /\ waiting # <<>> /\ Allocatable > 0
    /\ running \cup InStages # {}
    /\ Rejects(TRUE)

(* The batch takes the next chunk of one request; chunked_req keeps it if   *)
(* that is not the last.  A request still waiting that is looked at finds   *)
(* the batch full; none is after a request of the queue used up the budget  *)
(* of the batch, as one with chunks left has and one without them may have. *)
HasMore(r) == done[r] + 1 < NumChunks[r]
TakesChunkOf(r, rest, looks) ==
    /\ done' = [done EXCEPT ![r] = @ + 1]
    /\ chunked' = IF HasMore(r) THEN r ELSE None
    /\ batch' = Batch("prefill", <<[req |-> r]>>)
    /\ waiting' = rest
    /\ full' = (full \/ (looks /\ rest # <<>> /\ Allocatable <= 1))
    /\ pc' = "admit"
    /\ UNCHANGED <<paused, pending, inflight, running, last, cur, tokens, fate,
                   to_finish, asked, retracts, pauses>>
AddChunked == pc = "prefill" /\ chunked # None /\ TakesChunkOf(chunked, waiting, TRUE)
AlwaysRoom == TRUE
HasRoom    == Allocatable > 0
AddWaiting ==
    /\ pc = "prefill" /\ chunked = None
    /\ ~ full /\ waiting # <<>> /\ HasRoom
    /\ \E looks \in BOOLEAN :
          /\ HasMore(Head(waiting)) => ~ looks
          /\ TakesChunkOf(Head(waiting), Tail(waiting), looks)

(* update_running_batch drops what has finished, and may have to retract.   *)
StillFull(left) == full
Dropped(left) == IF left # running THEN FALSE ELSE full
NoDecode ==
    /\ pc = "decode" /\ Live(running) = {}
    /\ running' = {} /\ full' = Dropped({})
    /\ pc' = "select"
    /\ UNCHANGED <<paused, waiting, chunked, pending, inflight, batch, last, cur,
                   reqvars, retracts, pauses>>
DecodeOn(left) ==
    /\ running' = left /\ full' = Dropped(left)
    /\ batch' = Batch("decode", <<>>)
    /\ pc' = "run"
    /\ UNCHANGED <<paused, chunked, pending, inflight, last, cur, tokens, fate,
                   to_finish, asked, pauses>>
Decode ==
    /\ pc = "decode" /\ Live(running) # {}
    /\ DecodeOn(Live(running))
    /\ UNCHANGED <<waiting, done, retracts>>
RetractDecode ==
    /\ pc = "decode" /\ Cardinality(Live(running)) > 1 /\ retracts < MaxRetracts
    /\ \E r \in Live(running) :
          /\ DecodeOn(Live(running) \ {r})
          /\ waiting' = Append(waiting, r)
          /\ done' = [done EXCEPT ![r] = 0]
    /\ retracts' = retracts + 1

(* _admit_kt_stage_batch: the chunk owns the continuation from here on.     *)
Admit ==
    LET r == batch.members[1].req IN
    /\ pc = "admit"
    /\ chunked' = None
    /\ IF Cardinality(inflight) < MaxInflight
       THEN /\ inflight' = inflight \cup
                  {[req |-> r, chunk |-> done[r], group |-> 0, next |-> chunked,
                    rows |-> RowsOf(r, Rows[r], 0)]}
            /\ pc' = "select"
       ELSE inflight' = inflight /\ pc' = "raised"
    /\ UNCHANGED <<paused, waiting, pending, running, full, batch, last, cur,
                   reqvars, retracts, pauses>>

(* _select_kt_stage_batch, for a cohort that holds chunk c.                 *)
Cohorts(c) ==
    {seq \in UNION {SetToSeqs(S) : S \in
                {T \in SUBSET inflight : c \in T /\ Cardinality(T) <= CohortSize}} :
        Packable(seq, c.group)}
SelectWith(c) ==
    /\ pc = "select"
    /\ \E seq \in Cohorts(c) : batch' = Batch("stage", seq)
    /\ pc' = "run"
    /\ UNCHANGED <<paused, waiting, chunked, pending, inflight, running, full,
                   last, cur, reqvars, retracts, pauses>>
Select == \E c \in inflight : SelectWith(c)
Idle ==
    /\ pc = "select" /\ ~ HasReady
    /\ pc' = "receive" /\ last' = NoLast /\ cur' = {}
    /\ UNCHANGED <<paused, waiting, chunked, pending, inflight, running, full, batch,
                   reqvars, retracts, pauses>>

(* run_batch, and the boundary of an inner or of the final group.           *)
Executed(members) ==
    Demuxed(members, TokenSpans(members), Forwarded(Packed(members)))
RunsStage == pc = "run" /\ batch.kind = "stage"
FinalGroup == batch.members[1].group = NumGroups - 1

AdvanceInner ==
    /\ RunsStage /\ ~ FinalGroup
    /\ inflight' = (inflight \ ToSet(batch.members)) \cup ToSet(Executed(batch.members))
    /\ pc' = "receive" /\ batch' = NoBatch /\ last' = NoLast /\ cur' = Members(batch)
    /\ UNCHANGED <<paused, waiting, chunked, pending, running, full,
                   reqvars, retracts, pauses>>

(* process_batch_result: every request of R gets one more token, and stops  *)
(* at the limit, when it was aborted, or at an end token.                   *)
Emits(R) ==
    LET must == {r \in R : tokens[r] + 1 >= MaxTokens \/ r \in to_finish} IN
    /\ tokens' = [r \in Requests |-> IF r \in R THEN tokens[r] + 1 ELSE tokens[r]]
    /\ \E stop \in SUBSET (R \ must) :
          fate' = [r \in Requests |-> IF r \in must \cup stop THEN "finished" ELSE fate[r]]

(* The final group: the last chunk of a prompt yields the first token, the  *)
(* others hand their continuation to the loop when they are finalized.      *)
NoContinuations == <<>>
Continuations ==
    Those([i \in DOMAIN batch.members |-> batch.members[i].next],
          {i \in DOMAIN batch.members : batch.members[i].next # None})
AdvanceFinal ==
    /\ RunsStage /\ FinalGroup
    /\ inflight' = inflight \ ToSet(batch.members)
    /\ pending' = pending \o Continuations
    /\ Emits(Members(batch) \ ToSet(Continuations))
    /\ pc' = "receive" /\ batch' = NoBatch
    /\ last' = [kind |-> "prefill", reqs |-> Members(batch)]
    /\ cur' = Members(batch)
    /\ UNCHANGED <<paused, waiting, chunked, running, full, done, to_finish, asked,
                   retracts, pauses>>

RunDecode ==
    /\ pc = "run" /\ batch.kind = "decode"
    /\ Emits(running)
    /\ pc' = "receive" /\ batch' = NoBatch
    /\ last' = [kind |-> "decode", reqs |-> running] /\ cur' = running
    /\ UNCHANGED <<paused, waiting, chunked, pending, inflight, running, full,
                   done, to_finish, asked, retracts, pauses>>

Iteration ==
    \/ BeginIteration \/ Merge
    \/ NothingToAdd \/ BatchIsFull \/ NoToken \/ AddChunked \/ AddWaiting
    \/ NoDecode \/ Decode \/ RetractDecode
    \/ Admit \/ Idle
    \/ AdvanceInner \/ AdvanceFinal \/ RunDecode
Next ==
    \/ \E r \in Requests : Arrive(r)
    \/ \E r \in Impatient : Abort(r)
    \/ PauseInPlace \/ PauseAndRetract \/ Continue
    \/ Iteration \/ Select

Spec == Init /\ [][Next]_vars

(* The loop runs for ever and a pause is ended by its client.  The stage    *)
(* scheduler lets no chunk wait for ever while it chooses: EveryChunkLeaves *)
(* of StageScheduler is what justifies the strong fairness here.            *)
ChoosesRequest(r) == \E c \in inflight : c.req = r /\ SelectWith(c)
Fairness ==
    /\ WF_vars(Iteration) /\ WF_vars(Select) /\ WF_vars(Continue)
    /\ \A r \in Requests : SF_vars(ChoosesRequest(r))
FairSpec == Spec /\ Fairness

-----------------------------------------------------------------------------
(* Properties. *)

(* Between two iterations a live request is in exactly one place: nothing   *)
(* the loop, an abort, a pause or a retraction does loses it or doubles it. *)
Places(r) ==
    Cardinality({i \in DOMAIN waiting : waiting[i] = r})
    + Cardinality({i \in DOMAIN pending : pending[i] = r})
    + Cardinality({c \in inflight : c.req = r})
    + (IF r \in running THEN 1 ELSE 0)
    + (IF r = chunked THEN 1 ELSE 0)
    + (IF last.kind = "prefill" /\ r \in last.reqs \ ToSet(pending) THEN 1 ELSE 0)
NoneLostNoneTwice ==
    pc = "receive" => \A r \in Requests : fate[r] = "live" => Places(r) = 1

(* A request decodes only when its whole prompt went through the model:     *)
(* "Exclude every continuation from that merge".                            *)
DecodesOnlyPrefilled ==
    \A r \in Live(running) : done[r] = NumChunks[r] /\ r \notin ToSet(pending) \cup InStages

(* The requests that hold a slot of the request pool are bounded, by more   *)
(* than the running batch may hold: what is in the stages is not counted    *)
(* when a request is admitted.                                              *)
HoldsSlot(r) == fate[r] = "live" /\ done[r] > 0
SlotsBounded ==
    Cardinality({r \in Requests : HoldsSlot(r)}) <= MaxRunning + MaxInflight - 1

(* Whatever cohorts a chunk travelled with, its rows are its own tokens in  *)
(* order, each having been through the groups before the one it waits at.   *)
RowsReturnHome ==
    \A c \in inflight : c.rows = RowsOf(c.req, Rows[c.req], c.group)

(* An abort reaches a request wherever it is, but for a continuation that   *)
(* waits behind another one.                                                *)
AbortReaches ==
    [][\A r \in Requests : Abort(r) =>
          r \in to_finish' \/ fate'[r] = "aborted" \/ r \in ToSet(pending)]_vars

(* The KV pools are cleared only when no live request has anything in them. *)
FlushesOnlyUnused ==
    pc = "receive" /\ IsNoRequest => \A r \in Requests : ~ HoldsSlot(r)

(* Every request comes to an end, however the clients submit, abort and     *)
(* pause, and whatever is prefilled or decoded first.                       *)
EveryRequestEnds == \A r \in Requests : fate[r] = "live" ~> fate[r] # "live"
=============================================================================
