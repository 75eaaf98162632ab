---------------------------- MODULE ActionReplay ----------------------------
(***************************************************************************)
(* A run of the prefill scheduler recorded in an action trace, and the run *)
(* of a second process that replays it: ActionTraceWriter, ActionTrace and *)
(* ActionReplayCursor of managers/kt_stage_scheduler.py around the queues  *)
(* of StageReadyQueues, as the loop of managers/scheduler.py calls them.   *)
(*                                                                         *)
(* The recording may be cut off at any step.  The clients of the replay    *)
(* submit the same prompts, at other times and in another order.  A chunk  *)
(* is known by its identity (request_id, chunk_index, token span); its id  *)
(* is its place in the order of admission.  Plans are what replay is for,  *)
(* but not what it depends on: a ticket has been bound to one or not.      *)
(***************************************************************************)
EXTENDS StageReadyQueues, Sequences

CONSTANTS
    Prompts,        \* the prompts the clients of both runs submit
    NumChunks,      \* chunks of each prompt
    BindsPlans,     \* the recorded run materializes its tickets
    NoChunk

ASSUME ReplayAssumption ==
    /\ IsFiniteSet(StateIds) /\ StateIds = 0 .. (Cardinality(StateIds) - 1)
    /\ TicketIds = 1 .. Cardinality(TicketIds)
    /\ NumChunks \in [Prompts -> Nat \ {0}]
    /\ BindsPlans \in BOOLEAN

VARIABLES
    phase,      \* recording, replaying, refused (no cursor) or stopped
    pc,         \* where in its iteration the loop is
    chunkOf,    \* the identity of each admitted chunk
    trace,      \* the planned tickets, in order
    bound,      \* how many of them were materialized
    index,      \* the tickets the cursor has handed out
    states      \* history: what the queues held before each planned ticket

rvars == <<phase, pc, chunkOf, trace, bound, index, states>>
vars == <<qvars, rvars>>

Chunks == UNION {{<<p, k>> : k \in 1 .. NumChunks[p]} : p \in Prompts}
Snapshot == [status |-> status, group |-> group, version |-> version]

Init ==
    /\ QInit
    /\ phase = "recording" /\ pc = "admit"
    /\ chunkOf = [s \in StateIds |-> NoChunk]
    /\ trace = <<>> /\ bound = 0 /\ index = 0
    /\ states = <<>>

Running == phase \in {"recording", "replaying"}
Current == IF phase = "recording" THEN Len(trace) ELSE index
Selecting == pc \in {"select", "admitted"}

-----------------------------------------------------------------------------
(* Admission: at most one chunk in an iteration, a continuation after its   *)
(* predecessor is done.  Whether the loop finds memory for one is open.     *)

NextId == Cardinality({s \in StateIds : status[s] # "NEW"})
IsDone(c) == \E s \in StateIds : chunkOf[s] = c /\ status[s] = "DONE"
Waits(c) ==
    /\ \A s \in StateIds : chunkOf[s] # c
    /\ c[2] = 1 \/ IsDone(<<c[1], c[2] - 1>>)

AdmitChunk(c) ==
    /\ Running /\ pc = "admit"
    /\ Waits(c) /\ NextId \in StateIds
    /\ Admit(NextId)
    /\ chunkOf' = [chunkOf EXCEPT ![NextId] = c]
    /\ pc' = "admitted"
    /\ UNCHANGED <<phase, trace, bound, index, states>>

SkipAdmission ==
    /\ Running /\ pc = "admit"
    /\ pc' = "select"
    /\ UNCHANGED <<qvars, phase, chunkOf, trace, bound, index, states>>

-----------------------------------------------------------------------------
(* The recorded run: choose_next reserves some cohort and writes "planned". *)

Planned(S, t, g) ==
    [ticket |-> t, group |-> g, chunks |-> [s \in S |-> chunkOf[s]],
     versions |-> [s \in S |-> TicketVersions(S)[s]], epoch |-> queue_epoch + 1]

Plan(S, g) ==
    LET t == Len(trace) + 1 IN
    /\ phase = "recording" /\ Selecting /\ t \in TicketIds
    /\ Reserve(S, t, g)
    /\ trace' = Append(trace, Planned(S, t, g))
    /\ states' = Append(states, Snapshot)
    /\ pc' = "reserved"
    /\ UNCHANGED <<phase, chunkOf, bound, index>>

NothingReady ==
    /\ phase = "recording" /\ pc = "select"
    /\ \A g \in Groups : ready_ids[g] = {}
    /\ pc' = "admit"
    /\ UNCHANGED <<qvars, phase, chunkOf, trace, bound, index, states>>

-----------------------------------------------------------------------------
(* The second process: load the trace and make a cursor.  A trace in which  *)
(* tickets were materialized, but not all of them, is refused.              *)

Lags    == bound + 1 < Len(trace)
CutOff  == bound # Len(trace)
Refused == bound # 0 /\ CutOff

Restart ==
    /\ phase = "recording"
    /\ phase' = IF Refused THEN "refused" ELSE "replaying"
    /\ pc' = "admit" /\ index' = 0
    /\ chunkOf' = [s \in StateIds |-> NoChunk]
    /\ status' = [s \in StateIds |-> "NEW"]
    /\ group' = [s \in StateIds |-> 0]
    /\ version' = [s \in StateIds |-> 0]
    /\ reserved_ticket_id' = [s \in StateIds |-> NoTicket]
    /\ ready_ids' = [g \in Groups |-> {}]
    /\ active_request_ids' = [r \in Requests |-> NoState]
    /\ queue_epoch' = 0
    /\ tickets' = [t \in TicketIds |-> Unissued]
    /\ UNCHANGED <<trace, bound, states>>

(* reserve_next: nothing more to do, wait, go on or stop.  An iteration     *)
(* that admitted a chunk must choose a ticket; only one that did not waits. *)
Exhausted == index >= Len(trace)
Expected  == trace[index + 1]
Cohort    == DOMAIN Expected.chunks
Missing   == {s \in Cohort : status[s] = "NEW"}

Due == phase = "replaying" /\ Selecting /\ ~ Exhausted /\ Missing = {}
Await ==
    /\ phase = "replaying" /\ pc = "select"
    /\ ~ Due
    /\ pc' = "admit"
    /\ UNCHANGED <<qvars, phase, chunkOf, trace, bound, index, states>>

AsRecorded(s) ==
    /\ status[s] = "READY" /\ group[s] = Expected.group
    /\ chunkOf[s] = Expected.chunks[s]
    /\ version[s] + 1 = Expected.versions[s]

AnyEpoch  == TRUE
SameEpoch == queue_epoch + 1 = Expected.epoch
ReplayNext ==
    /\ Due
    /\ \A s \in Cohort : AsRecorded(s)
    /\ SameEpoch
    /\ Reserve(Cohort, Expected.ticket, Expected.group)
    /\ index' = index + 1 /\ pc' = "reserved"
    /\ UNCHANGED <<phase, chunkOf, trace, bound, states>>

(* What stops the replay leaves the loop: the process ends.                 *)
Stops == phase' = "stopped" /\ UNCHANGED <<pc, chunkOf, trace, bound, index, states>>
NotSchedulable ==
    /\ phase = "replaying" /\ pc = "admitted"
    /\ ~ Due
    /\ Stops /\ UNCHANGED qvars
WaitsInstead ==
    /\ Due
    /\ \E s \in Cohort : ~ AsRecorded(s)
    /\ pc' = "admit"
    /\ UNCHANGED <<qvars, phase, chunkOf, trace, bound, index, states>>
Diverged ==
    /\ Due
    /\ \E s \in Cohort : ~ AsRecorded(s)
    /\ Stops /\ UNCHANGED qvars

(* The epoch is looked at after the reservation, which is then undone.      *)
Forward(v) == v + 1
Undone(v) == v - 1
EpochDiffers ==
    /\ Due
    /\ \A s \in Cohort : AsRecorded(s)
    /\ ~ SameEpoch
    /\ status' = SetStatus(Cohort, "READY")
    /\ reserved_ticket_id' = SetTicket(Cohort, NoTicket)
    /\ version' = [s \in StateIds |-> IF s \in Cohort THEN Undone(version[s] + 1) ELSE version[s]]
    /\ ready_ids' = [g \in Groups |-> Dequeued(Cohort)[g] \cup {s \in Cohort : group[s] = g}]
    /\ queue_epoch' = Undone(queue_epoch + 1)
    /\ UNCHANGED <<group, active_request_ids, tickets>>
    /\ Stops

-----------------------------------------------------------------------------
(* The rest of the iteration, in both runs: dispatch the ticket, bind it to *)
(* the plans the forward pass made, complete its group, finalize.           *)

Dispatch ==
    /\ Running /\ pc = "reserved"
    /\ MarkRunning(Current)
    /\ pc' = IF BindsPlans THEN "materialize" ELSE "complete"
    /\ UNCHANGED <<phase, chunkOf, trace, bound, index, states>>

Materialize ==
    /\ Running /\ pc = "materialize"
    /\ bound' = IF phase = "recording" THEN bound + 1 ELSE bound
    /\ pc' = "complete"
    /\ UNCHANGED <<qvars, phase, chunkOf, trace, index, states>>

Complete ==
    /\ Running /\ pc = "complete"
    /\ CompleteGroup(Current)
    /\ pc' = IF IsFinal(tickets[Current].group) THEN "finalize" ELSE "admit"
    /\ UNCHANGED <<phase, chunkOf, trace, bound, index, states>>

FinishChunks ==
    /\ Running /\ pc = "finalize"
    /\ Finalize(Current)
    /\ pc' = "admit"
    /\ UNCHANGED <<phase, chunkOf, trace, bound, index, states>>

Loop ==
    \/ Await \/ NotSchedulable \/ ReplayNext \/ Diverged \/ EpochDiffers
    \/ Dispatch \/ Materialize \/ Complete \/ FinishChunks
Ended == ~ Running /\ UNCHANGED vars

Next ==
    \/ \E c \in Chunks : AdmitChunk(c)
    \/ SkipAdmission
    \/ \E g \in Groups : \E S \in SUBSET ready_ids[g] : Plan(S, g)
    \/ NothingReady \/ Restart
    \/ Loop \/ Ended

Spec == Init /\ [][Next]_vars

(* The replaying loop runs for ever, and a chunk that waits is admitted if  *)
(* there is room in iteration after iteration.                              *)
AdmitsSome == phase = "replaying" /\ \E c \in Chunks : AdmitChunk(c)
SkipsInReplay == phase = "replaying" /\ SkipAdmission
Fairness == WF_vars(Loop) /\ WF_vars(SkipsInReplay) /\ SF_vars(AdmitsSome)
FairSpec == Spec /\ Fairness

-----------------------------------------------------------------------------
(* Properties. *)

(* The replay hands out its next ticket exactly when the queues hold what   *)
(* they held when it was recorded and its chunks are the recorded ones: the *)
(* few fields a ticket froze and the epoch stand for all the others, and    *)
(* no replay that does follow the recording is ever turned away.            *)
SameAsRecorded ==
    /\ Snapshot = states[index + 1]
    /\ \A s \in Cohort : chunkOf[s] = Expected.chunks[s]
GoesOnExactlyAsRecorded ==
    [][Due => (index' = index + 1 <=> SameAsRecorded)]_vars

(* A replay that stops leaves the queues as they were: "Revert without      *)
(* changing the externally visible READY ordering."                         *)
RefusalRestoresQueues ==
    [][phase = "replaying" /\ phase' = "stopped" => UNCHANGED qvars]_vars

(* When the recorded run bound its tickets to plans, none is replayed       *)
(* without one, whenever the recording was cut off; the exception is a      *)
(* trace whose only ticket was never bound, which passes for an old one.    *)
ReplaysBoundTickets ==
    phase = "replaying" /\ BindsPlans => bound = Len(trace) \/ Len(trace) = 1

(* A replay that does not stop comes to its end: the cursor never waits for *)
(* ever for a chunk the loop cannot admit, and one that has no ticket left  *)
(* never idles beside a chunk the loop has room for.  Before that, a chunk  *)
(* that was admitted never finds the next ticket waiting for another one.   *)
NoneLeft == \A c \in Chunks : Waits(c) => ~ HasRoom
ReplayEnds ==
    /\ [](phase = "replaying" /\ pc = "admitted" => Due \/ Exhausted)
    /\ <>[](phase = "replaying" => Exhausted /\ NoneLeft)
=============================================================================
