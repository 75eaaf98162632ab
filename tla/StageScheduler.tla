--------------------------- MODULE StageScheduler ---------------------------
(***************************************************************************)
(* Which chunks run next: StageScheduler.choose_next and its helpers in    *)
(* managers/kt_stage_scheduler.py, driven by the scheduler loop of         *)
(* managers/scheduler.py.                                                  *)
(*                                                                         *)
(* The chunks are the max_inflight_states places of the pipeline: when a   *)
(* chunk leaves, its place is taken by a later one, so a behaviour admits  *)
(* chunks for ever.  Age is kept as a relation instead of the growing      *)
(* enqueue_seq, and the versions, epochs and ticket ids that only grow are *)
(* left to StageReadyQueues, whose operations the actions here call.       *)
(*                                                                         *)
(* What a policy prefers depends on routing demand and costs: the module   *)
(* lets it prefer any of the candidates the code builds.  The plans of a   *)
(* ticket are the subject of WorkingSet.                                   *)
(***************************************************************************)
EXTENDS Naturals, FiniteSets

CONSTANTS
    Chunks,           \* the max_inflight_states places
    NumGroups,
    CohortSize,       \* C
    CandidateWindow,  \* W
    MaxConsecutive,   \* Q
    Policies,         \* some of "fifo", "min_delta" and "cost_oracle"
    HasDeadline       \* kt_stage_max_wait_ms is not 0

ASSUME SchedulerAssumption ==
    /\ IsFiniteSet(Chunks) /\ Chunks # {}
    /\ NumGroups \in Nat \ {0}
    /\ CohortSize \in Nat \ {0}
    /\ CandidateWindow \in Nat /\ CandidateWindow >= CohortSize
    /\ MaxConsecutive \in Nat \ {0}
    /\ Policies \subseteq {"fifo", "min_delta", "cost_oracle"}
    /\ HasDeadline \in BOOLEAN

Groups == 0 .. (NumGroups - 1)
Statuses == {"OUT", "READY", "RESERVED", "RUNNING", "FINALIZING", "FAILED"}

VARIABLES
    policy,             \* kt_stage_policy of this process
    status,             \* "OUT": the place is free
    group,              \* the group each chunk is at; 0 in a free place
    older,              \* <<c, d>>: c was admitted before d, both in flight
    expired,            \* the chunks in flight whose deadline has passed
    ticket,             \* the one outstanding ticket: its group and its chunks
    last_group_id,      \* group of the last dispatched ticket, NumGroups = None
    same_stage_streak,  \* dispatches of that group in a row, up to MaxConsecutive
    alive,              \* the scheduler process has not raised
    bypassed            \* history: dispatches since the oldest chunk last ran,
                        \* counted up to one more than PassedOverBound

svars == <<policy, status, group, older, expired, ticket, last_group_id, same_stage_streak, alive>>
vars  == <<svars, bypassed>>

NoTicket == [group |-> 0, states |-> {}]
NoGroup  == NumGroups

Init ==
    /\ policy \in Policies
    /\ status = [c \in Chunks |-> "OUT"]
    /\ group = [c \in Chunks |-> 0]
    /\ older = {}
    /\ expired = {}
    /\ ticket = NoTicket
    /\ last_group_id = NoGroup
    /\ same_stage_streak = 0
    /\ alive = TRUE
    /\ bypassed = 0

-----------------------------------------------------------------------------
(* The ready queues, oldest first. *)

InFlight == {c \in Chunks : status[c] # "OUT"}
Ready(g) == {c \in Chunks : status[c] = "READY" /\ group[c] = g}
ReadyGroups == {g \in Groups : Ready(g) # {}}

OlderIn(S, c) == {d \in S : <<d, c>> \in older}
IsOldestOf(c, S)  == c \in S /\ OlderIn(S, c) = {}
FirstOf(S, n)     == {c \in S : Cardinality(OlderIn(S, c)) < n}
Window(g)         == FirstOf(Ready(g), CandidateWindow)

(* deadline_at is admission time plus a constant: deadlines pass in order.  *)
AnyExpired(c)    == c \in expired /\ status[c] = "READY"
OldestExpired(c) == IsOldestOf(c, {d \in expired : status[d] = "READY"})

(* A group that has run max_consecutive times gives way if any other is ready. *)
AllReadyGroups == ReadyGroups
EligibleGroups ==
    IF /\ last_group_id \in ReadyGroups
       /\ same_stage_streak >= MaxConsecutive
       /\ Cardinality(ReadyGroups) > 1
    THEN ReadyGroups \ {last_group_id}
    ELSE ReadyGroups

(* The FIFO anchor stays with the last group while its streak lasts.        *)
AnchorGroups ==
    IF last_group_id \in EligibleGroups /\ same_stage_streak < MaxConsecutive
    THEN {last_group_id}
    ELSE EligibleGroups
ReadyAnchor(c) == c \in UNION {Ready(g) : g \in AnchorGroups}
FifoAnchor(c)  == IsOldestOf(c, UNION {Ready(g) : g \in AnchorGroups})

CohortWithAnchor(a) ==
    {a} \cup FirstOf(Window(group[a]) \ {a}, CohortSize - 1)

(* The cohorts a scoring policy compares at group g: the oldest chunk with  *)
(* partners from the window; min_delta only builds the largest cohorts.     *)
CohortSizes(g) ==
    LET limit == IF Cardinality(Window(g)) < CohortSize
                 THEN Cardinality(Window(g)) ELSE CohortSize
    IN  IF policy = "min_delta" THEN {limit} ELSE 1 .. limit
WindowCohorts(g) ==
    {S \in SUBSET Window(g) : Cardinality(S) \in CohortSizes(g)}
PolicyCohorts(g) ==
    {S \in SUBSET Window(g) : /\ Cardinality(S) \in CohortSizes(g)
                              /\ \E a \in S : IsOldestOf(a, Ready(g))}

-----------------------------------------------------------------------------
(* The steps of the scheduler loop. *)

Idle == alive /\ ticket = NoTicket

Admit(c) ==
    /\ Idle
    /\ status[c] = "OUT"
    /\ status' = [status EXCEPT ![c] = "READY"]
    /\ older' = older \cup {<<d, c>> : d \in InFlight}
    /\ UNCHANGED <<policy, group, expired, ticket, last_group_id, same_stage_streak, alive, bypassed>>

DeadlinePasses(c) ==
    /\ HasDeadline /\ alive
    /\ c \in InFlight \ expired
    /\ OlderIn(InFlight, c) \subseteq expired
    /\ expired' = expired \cup {c}
    /\ UNCHANGED <<policy, status, group, older, ticket, last_group_id, same_stage_streak, alive, bypassed>>

ReserveQueue(g, S) ==
    /\ ticket' = [group |-> g, states |-> S]
    /\ status' = [c \in Chunks |-> IF c \in Ready(g) THEN "RESERVED" ELSE status[c]]
    /\ UNCHANGED <<policy, group, older, expired, last_group_id, same_stage_streak, alive, bypassed>>
ReserveCandidate(g, S) ==
    /\ ticket' = [group |-> g, states |-> S]
    /\ status' = [c \in Chunks |-> IF c \in S THEN "RESERVED" ELSE status[c]]
    /\ UNCHANGED <<policy, group, older, expired, last_group_id, same_stage_streak, alive, bypassed>>

ChooseExpired ==
    /\ Idle
    /\ \E a \in Chunks : /\ OldestExpired(a)
                         /\ ReserveCandidate(group[a], CohortWithAnchor(a))

NoneExpired == \A c \in expired : status[c] # "READY"

(* The fifo policy, and cost_oracle when no candidate gains anything.       *)
ChooseFifo ==
    /\ Idle /\ NoneExpired
    /\ policy \in {"fifo", "cost_oracle"}
    /\ \E a \in Chunks : /\ FifoAnchor(a)
                         /\ ReserveCandidate(group[a], CohortWithAnchor(a))

ChooseScored ==
    /\ Idle /\ NoneExpired
    /\ policy # "fifo"
    /\ \E g \in EligibleGroups : \E S \in PolicyCohorts(g) : ReserveCandidate(g, S)

ChooseNext == ChooseExpired \/ ChooseFifo \/ ChooseScored

TicketIs(st) == alive /\ ticket.states # {} /\ \A c \in ticket.states : status[c] = st

Become(st) == status' = [c \in Chunks |-> IF c \in ticket.states THEN st ELSE status[c]]

(* Another chunk can pass the oldest one only at the groups the oldest one  *)
(* is not at, and then has to queue up behind it.                           *)
PassedOverBound == (Cardinality(Chunks) - 1) * (NumGroups - 1)

MarkRunning ==
    /\ TicketIs("RESERVED")
    /\ Become("RUNNING")
    /\ last_group_id' = ticket.group
    /\ same_stage_streak' =
          IF ticket.group # last_group_id THEN 1
          ELSE IF same_stage_streak < MaxConsecutive THEN same_stage_streak + 1
          ELSE same_stage_streak
    /\ bypassed' = IF \E a \in ticket.states : IsOldestOf(a, InFlight) THEN 0
                   ELSE IF bypassed <= PassedOverBound THEN bypassed + 1
                   ELSE bypassed
    /\ UNCHANGED <<policy, group, older, expired, ticket, alive>>

PastLast(g) == g = NumGroups
IsFinal(g)  == g = NumGroups - 1
CompleteInnerGroup ==
    /\ TicketIs("RUNNING")
    /\ ~ IsFinal(ticket.group)
    /\ Become("READY")
    /\ group' = [c \in Chunks |-> IF c \in ticket.states THEN group[c] + 1 ELSE group[c]]
    /\ ticket' = NoTicket
    /\ UNCHANGED <<policy, older, expired, last_group_id, same_stage_streak, alive, bypassed>>

CompleteFinalGroup ==
    /\ TicketIs("RUNNING")
    /\ IsFinal(ticket.group)
    /\ Become("FINALIZING")
    /\ UNCHANGED <<policy, group, older, expired, ticket, last_group_id, same_stage_streak, alive, bypassed>>

(* The loop processes the result of a finished cohort before anything else. *)
Finalize ==
    /\ TicketIs("FINALIZING")
    /\ Become("OUT")
    /\ group' = [c \in Chunks |-> IF c \in ticket.states THEN 0 ELSE group[c]]
    /\ older' = {p \in older : p[1] \notin ticket.states /\ p[2] \notin ticket.states}
    /\ expired' = expired \ ticket.states
    /\ ticket' = NoTicket
    /\ bypassed' = IF \E a \in ticket.states : IsOldestOf(a, InFlight)
                   THEN 0 ELSE bypassed
    /\ UNCHANGED <<policy, last_group_id, same_stage_streak, alive>>

PackFailsReserved ==
    /\ TicketIs("RESERVED")
    /\ alive' = FALSE
    /\ UNCHANGED <<policy, status, group, older, expired, ticket, last_group_id, same_stage_streak, bypassed>>

(* Packing fails: the reservation is given back and the exception leaves    *)
(* the loop.  A run that fails, before or after its group was completed,    *)
(* marks its chunks FAILED and the exception leaves the loop as well.       *)
PackFails ==
    /\ TicketIs("RESERVED")
    /\ Become("READY")
    /\ ticket' = NoTicket
    /\ alive' = FALSE
    /\ UNCHANGED <<policy, group, older, expired, last_group_id, same_stage_streak, bypassed>>

RunFails ==
    /\ TicketIs("RUNNING") \/ TicketIs("FINALIZING")
    /\ Become("FAILED")
    /\ alive' = FALSE
    /\ UNCHANGED <<policy, group, older, expired, ticket, last_group_id, same_stage_streak, bypassed>>

Stopped == ~ alive /\ UNCHANGED vars

Next ==
    \/ \E c \in Chunks : Admit(c) \/ DeadlinePasses(c)
    \/ ChooseNext
    \/ MarkRunning
    \/ CompleteInnerGroup
    \/ CompleteFinalGroup
    \/ Finalize
    \/ PackFails
    \/ RunFails
    \/ Stopped

Spec == Init /\ [][Next]_vars

(* The loop keeps choosing, dispatching, completing and finalizing; nothing *)
(* obliges a client to submit a chunk or a deadline to pass.                *)
Fairness ==
    /\ WF_vars(ChooseNext)
    /\ WF_vars(MarkRunning)
    /\ WF_vars(CompleteInnerGroup \/ CompleteFinalGroup)
    /\ WF_vars(Finalize)
FairSpec == Spec /\ Fairness

-----------------------------------------------------------------------------
(* Properties. *)

(* Every variable holds a value of its type, and age orders what is in      *)
(* flight totally: two chunks in a ready queue never tie.                   *)
TypeOK ==
    /\ policy \in Policies
    /\ status \in [Chunks -> Statuses]
    /\ group \in [Chunks -> Groups]
    /\ older \in SUBSET (Chunks \X Chunks)
    /\ expired \in SUBSET Chunks
    /\ ticket \in [group : Groups, states : SUBSET Chunks]
    /\ last_group_id \in Groups \cup {NoGroup}
    /\ same_stage_streak \in 0 .. MaxConsecutive
    /\ alive \in BOOLEAN
    /\ bypassed \in Nat

(* The outstanding ticket holds exactly the chunks that are out of the      *)
(* queues, all at its group and all in the same status.  That is so after   *)
(* an exception too, when either the cohort is back in its queue (packing   *)
(* failed) or all of it has failed: no chunk stays reserved.                *)
TicketOwnsWhatIsOut ==
    /\ ticket.states = {c \in Chunks : status[c] \in {"RESERVED", "RUNNING", "FINALIZING", "FAILED"}}
    /\ \A c, d \in ticket.states : group[c] = ticket.group /\ status[c] = status[d]
    /\ ~ alive => \A c \in Chunks : status[c] # "RESERVED"

(* Whatever the policy prefers, a ticket takes the oldest chunk of its      *)
(* group: no chunk is left waiting behind younger ones in its own queue.    *)
AnchorIsOldest ==
    alive /\ ticket.states # {} =>
        \E a \in ticket.states : \A c \in Ready(ticket.group) : <<a, c>> \in older

(* The fifo policy keeps arrival order through the whole model: a younger   *)
(* chunk is never ahead of an older one.                                    *)
FifoNeverOvertakes ==
    policy = "fifo" => \A c, d \in InFlight : <<c, d>> \in older => group[c] >= group[d]

(* However a policy weighs its candidates, the oldest chunk in flight runs  *)
(* again after at most PassedOverBound other cohorts.                      *)
OldestPassedOverBoundedly == bypassed <= PassedOverBound

(* A group never runs more than max_consecutive times in a row while        *)
(* another group is waiting, unless a deadline forces it.                   *)
StreakYields ==
    [][MarkRunning /\ ticket.group = last_group_id /\ same_stage_streak = MaxConsecutive =>
          \/ \E c \in ticket.states : c \in expired
          \/ \A g \in ReadyGroups : g = ticket.group]_vars

(* A chunk whose deadline has passed is not made to wait for one that was   *)
(* admitted later, at whatever group the two are.                           *)
ExpiredGoFirst ==
    [][ChooseNext => \A c \in Chunks \ ticket'.states :
          status[c] = "READY" /\ c \in expired =>
              \E a \in ticket'.states : a \in expired /\ <<a, c>> \in older]_vars

(* Every chunk that is admitted leaves the pipeline, though clients submit  *)
(* without end and the policy prefers what it likes.                        *)
EveryChunkLeaves ==
    \A c \in Chunks : status[c] = "READY" ~> (status[c] = "OUT" \/ ~ alive)
=============================================================================
