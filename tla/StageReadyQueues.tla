-------------------------- MODULE StageReadyQueues --------------------------
(***************************************************************************)
(* The ready queues of the M20-B prefill scheduler: class StageReadyQueues *)
(* of managers/kt_stage_scheduler.py.                                      *)
(*                                                                         *)
(* A prompt chunk becomes a "stage state" that has to visit the layer      *)
(* groups 0 .. NumGroups-1 in order.  The queues own every stage state;    *)
(* a caller that wants to run some of them at one group reserves them      *)
(* under a ticket id, marks the ticket running, and then completes the     *)
(* group, or gives the reservation back.  Tickets are immutable and are    *)
(* held by the caller, who may present an old one again: the environment   *)
(* of this module presents any ticket ever issued, at any time.            *)
(*                                                                         *)
(* A call that raises before it changes anything is a call whose action    *)
(* is not enabled.  A ready list holds distinct ids and is sorted after    *)
(* every append, so it is determined by the set of its members: ready_ids  *)
(* holds that set, and order is derived from the ids, which the caller     *)
(* hands out in enqueue order (enqueue_seq = state_id in scheduler.py).    *)
(***************************************************************************)
EXTENDS Naturals, FiniteSets

CONSTANTS
    StateIds,       \* ids of the chunks that may ever be submitted
    Requests,       \* request identities
    RequestOf,      \* the request a chunk belongs to
    NumGroups,      \* number of layer groups
    MaxInflight,    \* max_inflight_states
    TicketIds,      \* ids of the tickets that may ever be issued
    NoTicket,       \* reserved_ticket_id is None
    NoState         \* a request without an entry in active_request_ids

ASSUME QueueAssumption ==
    /\ NumGroups \in Nat \ {0}
    /\ MaxInflight \in Nat \ {0}
    /\ RequestOf \in [StateIds -> Requests]
    /\ NoTicket \notin TicketIds
    /\ NoState \notin StateIds

Groups == 0 .. (NumGroups - 1)

Statuses == {"NEW", "READY", "RESERVED", "RUNNING", "FINALIZING", "DONE", "FAILED"}
Owned    == {"RESERVED", "RUNNING"}
Terminal == {"DONE", "FAILED"}
Active   == Statuses \ ({"NEW"} \cup Terminal)

VARIABLES
    status,              \* status of each chunk; NEW = not in self.states
    group,               \* the group each chunk is at
    version,             \* state_version
    reserved_ticket_id,  \* the ticket that owns the chunk
    ready_ids,           \* the READY chunks queued at each group
    active_request_ids,  \* the chunk each request has in flight
    queue_epoch,         \* number of completed mutations
    tickets              \* what the caller keeps: the tickets issued

qvars == <<status, group, version, reserved_ticket_id, ready_ids,
           active_request_ids, queue_epoch, tickets>>

-----------------------------------------------------------------------------

(* A ticket freezes its group, its states and the versions reserve returned. *)
Ticket == [group : Groups, states : SUBSET StateIds, versions : [StateIds -> Nat]]
Unissued == [group |-> 0, states |-> {}, versions |-> [s \in StateIds |-> 0]]
Issued == {t \in TicketIds : tickets[t].states # {}}
StatesOf(t) == tickets[t].states

QInit ==
    /\ status = [s \in StateIds |-> "NEW"]
    /\ group = [s \in StateIds |-> 0]
    /\ version = [s \in StateIds |-> 0]
    /\ reserved_ticket_id = [s \in StateIds |-> NoTicket]
    /\ ready_ids = [g \in Groups |-> {}]
    /\ active_request_ids = [r \in Requests |-> NoState]
    /\ queue_epoch = 0
    /\ tickets = [t \in TicketIds |-> Unissued]

(* What the operations do to a set S of chunks, field by field. *)
SetStatus(S, new) == [s \in StateIds |-> IF s \in S THEN new ELSE status[s]]
BumpVersions(S)   == [s \in StateIds |-> IF s \in S THEN version[s] + 1 ELSE version[s]]
SetTicket(S, t)   == [s \in StateIds |-> IF s \in S THEN t ELSE reserved_ticket_id[s]]
Moved(S)          == [s \in StateIds |-> IF s \in S THEN group[s] + 1 ELSE group[s]]

KeepTicket(S)  == reserved_ticket_id
ClearTicket(S) == SetTicket(S, NoTicket)

KeepQueued(S) == ready_ids
Dequeued(S)   == [g \in Groups |-> ready_ids[g] \ {s \in S : group[s] = g}]
Enqueued(S, place) == [g \in Groups |-> ready_ids[g] \cup {s \in S : place[s] = g}]

KeepActive(S) == active_request_ids
Released(S)   == [r \in Requests |->
                    IF \E s \in S : RequestOf[s] = r THEN NoState ELSE active_request_ids[r]]

(* The versions reserve returns: those of the chunks it reserved.           *)
StaleVersions(S)  == [s \in StateIds |-> IF s \in S THEN version[s] ELSE 0]
TicketVersions(S) == [s \in StateIds |-> IF s \in S THEN version[s] + 1 ELSE 0]

Bump == queue_epoch' = queue_epoch + 1

-----------------------------------------------------------------------------
(* The guards of the operations. *)

AnyRequest(s)  == TRUE
RequestIdle(s) == active_request_ids[RequestOf[s]] = NoState

Inflight  == {r \in Requests : active_request_ids[r] # NoState}
RoomForOneMore == Cardinality(Inflight) <= MaxInflight
HasRoom   == Cardinality(Inflight) < MaxInflight

(* The chunks of ticket t are all in status st and all reserved for t. *)
InStatus(t, st) ==
    /\ t \in Issued
    /\ \A s \in StatesOf(t) : status[s] = st
Owns(t, st) ==
    /\ t \in Issued
    /\ \A s \in StatesOf(t) : status[s] = st /\ reserved_ticket_id[s] = t

PastLast(g) == g = NumGroups
IsFinal(g)  == g = NumGroups - 1

-----------------------------------------------------------------------------
(* The operations. *)

Admit(s) ==
    /\ status[s] = "NEW"
    /\ RequestIdle(s)
    /\ HasRoom
    /\ status' = SetStatus({s}, "READY")
    /\ version' = BumpVersions({s})
    /\ active_request_ids' = [active_request_ids EXCEPT ![RequestOf[s]] = s]
    /\ ready_ids' = Enqueued({s}, group)
    /\ Bump
    /\ UNCHANGED <<group, reserved_ticket_id, tickets>>

Reserve(S, t, g) ==
    /\ S # {}
    /\ t \notin Issued
    /\ \A s \in S : status[s] = "READY" /\ group[s] = g
    /\ \A s, u \in S : RequestOf[s] = RequestOf[u] => s = u
    /\ ready_ids' = Dequeued(S)
    /\ status' = SetStatus(S, "RESERVED")
    /\ reserved_ticket_id' = SetTicket(S, t)
    /\ version' = BumpVersions(S)
    /\ tickets' = [tickets EXCEPT ![t] =
                      [group |-> g, states |-> S, versions |-> TicketVersions(S)]]
    /\ Bump
    /\ UNCHANGED <<group, active_request_ids>>

MarkRunning(t) ==
    LET S == StatesOf(t) IN
    /\ Owns(t, "RESERVED")
    /\ \A s \in S : version[s] = tickets[t].versions[s]
    /\ status' = SetStatus(S, "RUNNING")
    /\ version' = BumpVersions(S)
    /\ Bump
    /\ UNCHANGED <<group, reserved_ticket_id, ready_ids, active_request_ids, tickets>>

Unreserve(t) ==
    LET S == StatesOf(t) IN
    /\ Owns(t, "RESERVED")
    /\ status' = SetStatus(S, "READY")
    /\ reserved_ticket_id' = ClearTicket(S)
    /\ version' = BumpVersions(S)
    /\ ready_ids' = Enqueued(S, group)
    /\ Bump
    /\ UNCHANGED <<group, active_request_ids, tickets>>

(* complete_group returns final: the two outcomes are two actions. *)
CompletesGroup(t) ==
    /\ Owns(t, "RUNNING")
    /\ \A s \in StatesOf(t) : group[s] = tickets[t].group
    /\ version' = BumpVersions(StatesOf(t))
    /\ reserved_ticket_id' = ClearTicket(StatesOf(t))
    /\ Bump

CompleteFinalGroup(t) ==
    /\ IsFinal(tickets[t].group)
    /\ CompletesGroup(t)
    /\ status' = SetStatus(StatesOf(t), "FINALIZING")
    /\ UNCHANGED <<group, ready_ids, active_request_ids, tickets>>

CompleteInnerGroup(t) ==
    /\ ~ IsFinal(tickets[t].group)
    /\ CompletesGroup(t)
    /\ status' = SetStatus(StatesOf(t), "READY")
    /\ group' = Moved(StatesOf(t))
    /\ ready_ids' = Enqueued(StatesOf(t), Moved(StatesOf(t)))
    /\ UNCHANGED <<active_request_ids, tickets>>

CompleteGroup(t) == CompleteFinalGroup(t) \/ CompleteInnerGroup(t)

Finalize(t) ==
    LET S == StatesOf(t) IN
    /\ t \in Issued
    /\ \A s \in S : status[s] = "FINALIZING"
    /\ status' = SetStatus(S, "DONE")
    /\ version' = BumpVersions(S)
    /\ active_request_ids' = Released(S)
    /\ Bump
    /\ UNCHANGED <<group, reserved_ticket_id, ready_ids, tickets>>

(* _fail_kt_stage_batch passes the chunks of its ticket that are not yet    *)
(* terminal, so the loop of fail never raises half way.                     *)
Unfinished(t) == {s \in StatesOf(t) : status[s] \notin Terminal}
Fail(t) ==
    LET S == Unfinished(t) IN
    /\ S # {}
    /\ ready_ids' = Dequeued({s \in S : status[s] = "READY"})
    /\ status' = SetStatus(S, "FAILED")
    /\ reserved_ticket_id' = ClearTicket(S)
    /\ version' = BumpVersions(S)
    /\ active_request_ids' = Released(S)
    /\ Bump
    /\ UNCHANGED <<group, tickets>>

QNext ==
    \/ \E s \in StateIds : Admit(s)
    \/ \E g \in Groups, t \in TicketIds : \E S \in SUBSET ready_ids[g] : Reserve(S, t, g)
    \/ \E t \in TicketIds : \/ MarkRunning(t)
                            \/ Unreserve(t)
                            \/ CompleteGroup(t)
                            \/ Finalize(t)
                            \/ Fail(t)

QSpec == QInit /\ [][QNext]_qvars

-----------------------------------------------------------------------------
(* Properties. *)

(* Every field holds a value of its type (ChunkStageState, StageReadyQueues). *)
TypeOK ==
    /\ status \in [StateIds -> Statuses]
    /\ group \in [StateIds -> Groups]
    /\ version \in [StateIds -> Nat]
    /\ reserved_ticket_id \in [StateIds -> TicketIds \cup {NoTicket}]
    /\ ready_ids \in [Groups -> SUBSET StateIds]
    /\ active_request_ids \in [Requests -> StateIds \cup {NoState}]
    /\ queue_epoch \in Nat
    /\ tickets \in [TicketIds -> Ticket]

(* A chunk is queued exactly while it is READY, under its own group and     *)
(* under no other: assert_invariants, "READY membership/status mismatch".   *)
ReadyMembership ==
    \A g \in Groups : \A s \in StateIds :
        s \in ready_ids[g] <=> (status[s] = "READY" /\ group[s] = g)

(* A chunk has an owner exactly while it is RESERVED or RUNNING, and the    *)
(* owner is a ticket that froze it at the group it is still at: "owned      *)
(* state has no ticket", "unowned state retains a ticket".                  *)
TicketOwnership ==
    \A s \in StateIds :
        /\ status[s] \in Owned <=> reserved_ticket_id[s] # NoTicket
        /\ status[s] \in Owned =>
              /\ s \in StatesOf(reserved_ticket_id[s])
              /\ group[s] = tickets[reserved_ticket_id[s]].group

(* The in-flight map names, for every request, the one chunk of it that is  *)
(* neither new nor terminal: "active request ownership map is inconsistent".*)
ActiveMapExact ==
    \A r \in Requests : \A s \in StateIds :
        active_request_ids[r] = s <=> (RequestOf[s] = r /\ status[s] \in Active)

(* What the queues assert of themselves after every change holds whatever   *)
(* tickets a caller presents: assert_invariants never raises.               *)
AssertInvariants == ReadyMembership /\ TicketOwnership /\ ActiveMapExact

(* The stale-reservation test of mark_running can never reject the ticket   *)
(* that does own the chunk: the versions a ticket froze are still current   *)
(* until it is marked running.                                              *)
ReservationFresh ==
    \A s \in StateIds :
        status[s] = "RESERVED" => version[s] = tickets[reserved_ticket_id[s]].versions[s]

(* A cohort moves as one: if a ticket owns one of its chunks it owns them   *)
(* all, in the same status, except those that failed meanwhile.  So no      *)
(* operation on a whole ticket can be blocked by a chunk that ran ahead.    *)
CohortMovesTogether ==
    \A s \in StateIds : status[s] \in Owned =>
        \A u \in StatesOf(reserved_ticket_id[s]) :
            \/ status[u] = "FAILED"
            \/ reserved_ticket_id[u] = reserved_ticket_id[s] /\ status[u] = status[s]

(* Never more chunks in flight than max_inflight_states allows.             *)
InflightBound == Cardinality(Inflight) <= MaxInflight

(* A chunk changes group only one step forward, only while the ticket that  *)
(* owns it is running, and only together with every other chunk of that     *)
(* ticket: presenting a ticket that was released, completed or superseded   *)
(* moves nothing.                                                           *)
AdvancesWithCohort(s) ==
    /\ status[s] = "RUNNING"
    /\ \A u \in StatesOf(reserved_ticket_id[s]) :
          group[u] = group[s] /\ group'[u] = group[s] + 1 /\ reserved_ticket_id'[u] = NoTicket
CohortAdvancesTogether ==
    [][\A s \in StateIds : group'[s] # group[s] =>
          group'[s] = group[s] + 1 /\ AdvancesWithCohort(s)]_qvars

(* The queues keep the promise of ChunkPipeline: an admitted chunk is in    *)
(* the pipeline until its last group ran, and held while a ticket owns it.  *)
PhaseOf(st) ==
    IF st = "NEW" THEN "out"
    ELSE IF st \in {"READY", "RESERVED", "RUNNING"} THEN "in"
    ELSE IF st = "FINALIZING" THEN "ran"
    ELSE IF st = "DONE" THEN "done" ELSE "failed"
PhaseMap == [s \in StateIds |-> PhaseOf(status[s])]
HeldMap  == {s \in StateIds : status[s] \in Owned}

Pipeline == INSTANCE ChunkPipeline WITH
    Chunks <- StateIds, phase <- PhaseMap, stage <- group, held <- HeldMap

ImplementsPipeline == Pipeline!PSpec
=============================================================================
