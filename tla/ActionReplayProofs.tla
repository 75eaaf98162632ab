------------------------- MODULE ActionReplayProofs -------------------------
(***************************************************************************)
(* Proofs about StageReadyQueues for every set of chunks, requests and     *)
(* tickets, every number of groups and every in-flight bound, and, resting *)
(* on them, about ActionReplay, which drives those queues, for every set   *)
(* of prompts and every point at which a recording is cut off.             *)
(***************************************************************************)
EXTENDS ActionReplay, FiniteSetTheorems, TLAPS

-----------------------------------------------------------------------------
(* Part one: the queues.                                                    *)

(* A ticket only ever names chunks that were admitted.                      *)
TicketsNameAdmitted ==
    \A t \in TicketIds, s \in StateIds : s \in StatesOf(t) => status[s] # "NEW"

(* The inductive invariant.  No conjunct is inductive alone: ReadyMembership*)
(* needs TicketOwnership to know that what a ticket gives back was queued   *)
(* nowhere, ActiveMapExact needs TicketsNameAdmitted to know that failing a *)
(* ticket releases a request, and ReservationFresh needs TicketOwnership to *)
(* know that a fresh ticket id owns nothing.                                *)
QInv ==
    /\ TypeOK
    /\ ReadyMembership
    /\ TicketOwnership
    /\ ActiveMapExact
    /\ ReservationFresh
    /\ CohortMovesTogether
    /\ TicketsNameAdmitted

(* The initial state satisfies the invariant.                               *)
LEMMA InitEstablishesQInv == QInit => QInv
<1> SUFFICES ASSUME QInit PROVE QInv
  OBVIOUS
<1> USE QueueAssumption DEF QInit
<1>1. TypeOK
  BY DEF TypeOK, Ticket, Unissued, Groups, Statuses
<1>2. ReadyMembership
  BY DEF ReadyMembership
<1>3. TicketOwnership
  BY DEF TicketOwnership, Owned
<1>4. ActiveMapExact
  BY DEF ActiveMapExact, Active, Statuses
<1>5. ReservationFresh
  BY DEF ReservationFresh
<1>6. CohortMovesTogether
  BY DEF CohortMovesTogether, Owned
<1>7. TicketsNameAdmitted
  BY DEF TicketsNameAdmitted, StatesOf, Unissued
<1> QED
  BY <1>1, <1>2, <1>3, <1>4, <1>5, <1>6, <1>7 DEF QInv

(* After any group but the last there is another one.                       *)
LEMMA NextGroup ==
  ASSUME NEW g \in Groups, ~ IsFinal(g)
  PROVE  g + 1 \in Groups
BY QueueAssumption, SMT DEF Groups, IsFinal

(* A ticket names known chunks and a real group.                            *)
LEMMA TicketFields ==
  ASSUME TypeOK, NEW t \in TicketIds
  PROVE  /\ StatesOf(t) \in SUBSET StateIds
         /\ tickets[t].group \in Groups
         /\ tickets[t].versions \in [StateIds -> Nat]
BY DEF TypeOK, Ticket, StatesOf

(* Every operation keeps every field within its type.                       *)
LEMMA TypePreserved == ASSUME QInv, QNext PROVE TypeOK'
<1> USE QueueAssumption DEF QInv, TypeOK, Statuses, Groups, Bump
<1>1. ASSUME NEW s \in StateIds, Admit(s) PROVE TypeOK'
  BY <1>1 DEF Admit, SetStatus, BumpVersions, Enqueued
<1>2. ASSUME NEW g \in Groups, NEW t \in TicketIds,
             NEW S \in SUBSET ready_ids[g], Reserve(S, t, g)
      PROVE  TypeOK'
  <2>1. S \in SUBSET StateIds
    OBVIOUS
  <2>2. TicketVersions(S) \in [StateIds -> Nat]
    BY <2>1 DEF TicketVersions
  <2>3. [group |-> g, states |-> S, versions |-> TicketVersions(S)] \in Ticket
    BY <2>1, <2>2 DEF Ticket
  <2>4. tickets' \in [TicketIds -> Ticket]
    BY <1>2, <2>3 DEF Reserve
  <2> QED
    BY <1>2, <2>1, <2>4 DEF Reserve, SetStatus, BumpVersions, SetTicket, Dequeued
<1>3. ASSUME NEW t \in TicketIds, MarkRunning(t) PROVE TypeOK'
  BY <1>3 DEF MarkRunning, SetStatus, BumpVersions
<1>4. ASSUME NEW t \in TicketIds, Unreserve(t) PROVE TypeOK'
  BY <1>4, TicketFields DEF Unreserve, SetStatus, BumpVersions, ClearTicket, SetTicket, Enqueued
<1>5. ASSUME NEW t \in TicketIds, CompleteFinalGroup(t) PROVE TypeOK'
  BY <1>5 DEF CompleteFinalGroup, CompletesGroup, SetStatus, BumpVersions, ClearTicket, SetTicket
<1>6. ASSUME NEW t \in TicketIds, CompleteInnerGroup(t) PROVE TypeOK'
  <2>0. \A s \in StatesOf(t) : group[s] + 1 \in Groups
    <3>1. \A s \in StatesOf(t) : group[s] = tickets[t].group
      BY <1>6 DEF CompleteInnerGroup, CompletesGroup
    <3>2. tickets[t].group + 1 \in Groups
      BY <1>6, TicketFields, NextGroup DEF CompleteInnerGroup
    <3> QED
      BY ONLY <3>1, <3>2
  <2>1. group' \in [StateIds -> Groups]
    BY <1>6, <2>0 DEF CompleteInnerGroup, Moved
  <2>2. ready_ids' \in [Groups -> SUBSET StateIds]
    BY <1>6, TicketFields DEF CompleteInnerGroup, Enqueued
  <2> QED
    BY <1>6, <2>1, <2>2 DEF CompleteInnerGroup, CompletesGroup, SetStatus, BumpVersions,
                            ClearTicket, SetTicket
<1>7. ASSUME NEW t \in TicketIds, Finalize(t) PROVE TypeOK'
  BY <1>7 DEF Finalize, SetStatus, BumpVersions, Released
<1>8. ASSUME NEW t \in TicketIds, Fail(t) PROVE TypeOK'
  BY <1>8 DEF Fail, SetStatus, BumpVersions, ClearTicket, SetTicket, Dequeued, Released
<1> QED
  BY <1>1, <1>2, <1>3, <1>4, <1>5, <1>6, <1>7, <1>8 DEF QNext, CompleteGroup

LEMMA AdmitPreserves ==
  ASSUME QInv, NEW s \in StateIds, Admit(s)
  PROVE  (ReadyMembership /\ TicketOwnership /\ ActiveMapExact /\ ReservationFresh
            /\ CohortMovesTogether /\ TicketsNameAdmitted)'
<1> USE QueueAssumption DEF QInv, TypeOK, Admit, SetStatus, BumpVersions, Enqueued, RequestIdle
<1>1. ReadyMembership'
  BY DEF ReadyMembership
<1>2. TicketOwnership'
  BY DEF TicketOwnership, Owned, StatesOf
<1>3. ActiveMapExact'
  BY DEF ActiveMapExact, Active, Statuses, Terminal
<1>4. ReservationFresh'
  BY DEF ReservationFresh, TicketOwnership, Owned, StatesOf
<1>5. CohortMovesTogether'
  <2> SUFFICES ASSUME NEW x \in StateIds, status'[x] \in Owned,
                      NEW u \in StatesOf(reserved_ticket_id[x])'
               PROVE  \/ status'[u] = "FAILED"
                      \/ /\ reserved_ticket_id'[u] = reserved_ticket_id'[x]
                         /\ status'[u] = status'[x]
    BY DEF CohortMovesTogether
  <2> QED
    BY DEF CohortMovesTogether, TicketOwnership, Owned, StatesOf, Ticket
<1>6. TicketsNameAdmitted'
  BY DEF TicketsNameAdmitted, StatesOf
<1> QED
  BY <1>1, <1>2, <1>3, <1>4, <1>5, <1>6

LEMMA ReservePreserves ==
  ASSUME QInv, NEW g \in Groups, NEW t \in TicketIds, NEW S \in SUBSET ready_ids[g],
         Reserve(S, t, g)
  PROVE  (ReadyMembership /\ TicketOwnership /\ ActiveMapExact /\ ReservationFresh
            /\ CohortMovesTogether /\ TicketsNameAdmitted)'
<1> USE QueueAssumption DEF QInv, TypeOK, Reserve, SetStatus, BumpVersions, SetTicket, Dequeued, TicketVersions, Issued
<1>1. ReadyMembership'
  BY DEF ReadyMembership
<1>2. TicketOwnership'
  BY DEF TicketOwnership, Owned, StatesOf
<1>3. ActiveMapExact'
  BY DEF ActiveMapExact, Active, Statuses, Terminal
<1>4. ReservationFresh'
  BY DEF ReservationFresh, TicketOwnership, Owned, StatesOf
<1>5. CohortMovesTogether'
  <2> SUFFICES ASSUME NEW x \in StateIds, status'[x] \in Owned,
                      NEW u \in StatesOf(reserved_ticket_id[x])'
               PROVE  \/ status'[u] = "FAILED"
                      \/ /\ reserved_ticket_id'[u] = reserved_ticket_id'[x]
                         /\ status'[u] = status'[x]
    BY DEF CohortMovesTogether
  <2> QED
    BY DEF CohortMovesTogether, TicketOwnership, Owned, StatesOf, Ticket
<1>6. TicketsNameAdmitted'
  BY DEF TicketsNameAdmitted, StatesOf
<1> QED
  BY <1>1, <1>2, <1>3, <1>4, <1>5, <1>6

LEMMA MarkRunningPreserves ==
  ASSUME QInv, NEW t \in TicketIds, MarkRunning(t)
  PROVE  (ReadyMembership /\ TicketOwnership /\ ActiveMapExact /\ ReservationFresh
            /\ CohortMovesTogether /\ TicketsNameAdmitted)'
<1> USE QueueAssumption DEF QInv, TypeOK, MarkRunning, Owns, SetStatus, BumpVersions
<1>0. StatesOf(t) \in SUBSET StateIds
  BY TicketFields
<1>1. ReadyMembership'
  BY <1>0 DEF ReadyMembership
<1>2. TicketOwnership'
  BY <1>0 DEF TicketOwnership, Owned, StatesOf
<1>3. ActiveMapExact'
  BY <1>0 DEF ActiveMapExact, Active, Statuses, Terminal
<1>4. ReservationFresh'
  BY <1>0 DEF ReservationFresh, TicketOwnership, Owned, StatesOf
<1>5. CohortMovesTogether'
  <2> SUFFICES ASSUME NEW x \in StateIds, status'[x] \in Owned,
                      NEW u \in StatesOf(reserved_ticket_id[x])'
               PROVE  \/ status'[u] = "FAILED"
                      \/ /\ reserved_ticket_id'[u] = reserved_ticket_id'[x]
                         /\ status'[u] = status'[x]
    BY DEF CohortMovesTogether
  <2> QED
    BY <1>0 DEF CohortMovesTogether, TicketOwnership, Owned, StatesOf, Ticket
<1>6. TicketsNameAdmitted'
  BY <1>0 DEF TicketsNameAdmitted, StatesOf
<1> QED
  BY <1>1, <1>2, <1>3, <1>4, <1>5, <1>6

LEMMA UnreservePreserves ==
  ASSUME QInv, NEW t \in TicketIds, Unreserve(t)
  PROVE  (ReadyMembership /\ TicketOwnership /\ ActiveMapExact /\ ReservationFresh
            /\ CohortMovesTogether /\ TicketsNameAdmitted)'
<1> USE QueueAssumption DEF QInv, TypeOK, Unreserve, Owns, SetStatus, BumpVersions, ClearTicket, SetTicket, Enqueued
<1>0. StatesOf(t) \in SUBSET StateIds
  BY TicketFields
<1>1. ReadyMembership'
  BY <1>0 DEF ReadyMembership
<1>2. TicketOwnership'
  BY <1>0 DEF TicketOwnership, Owned, StatesOf
<1>3. ActiveMapExact'
  BY <1>0 DEF ActiveMapExact, Active, Statuses, Terminal
<1>4. ReservationFresh'
  BY <1>0 DEF ReservationFresh, TicketOwnership, Owned, StatesOf
<1>5. CohortMovesTogether'
  <2> SUFFICES ASSUME NEW x \in StateIds, status'[x] \in Owned,
                      NEW u \in StatesOf(reserved_ticket_id[x])'
               PROVE  \/ status'[u] = "FAILED"
                      \/ /\ reserved_ticket_id'[u] = reserved_ticket_id'[x]
                         /\ status'[u] = status'[x]
    BY DEF CohortMovesTogether
  <2> QED
    BY <1>0 DEF CohortMovesTogether, TicketOwnership, Owned, StatesOf, Ticket
<1>6. TicketsNameAdmitted'
  BY <1>0 DEF TicketsNameAdmitted, StatesOf
<1> QED
  BY <1>1, <1>2, <1>3, <1>4, <1>5, <1>6

LEMMA CompleteFinalPreserves ==
  ASSUME QInv, NEW t \in TicketIds, CompleteFinalGroup(t)
  PROVE  (ReadyMembership /\ TicketOwnership /\ ActiveMapExact /\ ReservationFresh
            /\ CohortMovesTogether /\ TicketsNameAdmitted)'
<1> USE QueueAssumption DEF QInv, TypeOK, CompleteFinalGroup, CompletesGroup, Owns, SetStatus, BumpVersions, ClearTicket, SetTicket
<1>0. StatesOf(t) \in SUBSET StateIds
  BY TicketFields
<1>1. ReadyMembership'
  BY <1>0 DEF ReadyMembership
<1>2. TicketOwnership'
  BY <1>0 DEF TicketOwnership, Owned, StatesOf
<1>3. ActiveMapExact'
  BY <1>0 DEF ActiveMapExact, Active, Statuses, Terminal
<1>4. ReservationFresh'
  BY <1>0 DEF ReservationFresh, TicketOwnership, Owned, StatesOf
<1>5. CohortMovesTogether'
  <2> SUFFICES ASSUME NEW x \in StateIds, status'[x] \in Owned,
                      NEW u \in StatesOf(reserved_ticket_id[x])'
               PROVE  \/ status'[u] = "FAILED"
                      \/ /\ reserved_ticket_id'[u] = reserved_ticket_id'[x]
                         /\ status'[u] = status'[x]
    BY DEF CohortMovesTogether
  <2> QED
    BY <1>0 DEF CohortMovesTogether, TicketOwnership, Owned, StatesOf, Ticket
<1>6. TicketsNameAdmitted'
  BY <1>0 DEF TicketsNameAdmitted, StatesOf
<1> QED
  BY <1>1, <1>2, <1>3, <1>4, <1>5, <1>6

LEMMA CompleteInnerPreserves ==
  ASSUME QInv, NEW t \in TicketIds, CompleteInnerGroup(t)
  PROVE  (ReadyMembership /\ TicketOwnership /\ ActiveMapExact /\ ReservationFresh
            /\ CohortMovesTogether /\ TicketsNameAdmitted)'
<1> USE QueueAssumption DEF QInv, TypeOK, CompleteInnerGroup, CompletesGroup, Owns, SetStatus, BumpVersions, ClearTicket,
         SetTicket, Moved, Enqueued
<1>0. StatesOf(t) \in SUBSET StateIds
  BY TicketFields
<1>1. ReadyMembership'
  BY <1>0 DEF ReadyMembership
<1>2. TicketOwnership'
  BY <1>0 DEF TicketOwnership, Owned, StatesOf
<1>3. ActiveMapExact'
  BY <1>0 DEF ActiveMapExact, Active, Statuses, Terminal
<1>4. ReservationFresh'
  BY <1>0 DEF ReservationFresh, TicketOwnership, Owned, StatesOf
<1>5. CohortMovesTogether'
  <2> SUFFICES ASSUME NEW x \in StateIds, status'[x] \in Owned,
                      NEW u \in StatesOf(reserved_ticket_id[x])'
               PROVE  \/ status'[u] = "FAILED"
                      \/ /\ reserved_ticket_id'[u] = reserved_ticket_id'[x]
                         /\ status'[u] = status'[x]
    BY DEF CohortMovesTogether
  <2> QED
    BY <1>0 DEF CohortMovesTogether, TicketOwnership, Owned, StatesOf, Ticket
<1>6. TicketsNameAdmitted'
  BY <1>0 DEF TicketsNameAdmitted, StatesOf
<1> QED
  BY <1>1, <1>2, <1>3, <1>4, <1>5, <1>6

LEMMA FinalizePreserves ==
  ASSUME QInv, NEW t \in TicketIds, Finalize(t)
  PROVE  (ReadyMembership /\ TicketOwnership /\ ActiveMapExact /\ ReservationFresh
            /\ CohortMovesTogether /\ TicketsNameAdmitted)'
<1> USE QueueAssumption DEF QInv, TypeOK, Finalize, SetStatus, BumpVersions, Released
<1>0. StatesOf(t) \in SUBSET StateIds
  BY TicketFields
<1>1. ReadyMembership'
  BY <1>0 DEF ReadyMembership
<1>2. TicketOwnership'
  BY <1>0 DEF TicketOwnership, Owned, StatesOf
<1>3. ActiveMapExact'
  BY <1>0 DEF ActiveMapExact, Active, Statuses, Terminal
<1>4. ReservationFresh'
  BY <1>0 DEF ReservationFresh, TicketOwnership, Owned, StatesOf
<1>5. CohortMovesTogether'
  <2> SUFFICES ASSUME NEW x \in StateIds, status'[x] \in Owned,
                      NEW u \in StatesOf(reserved_ticket_id[x])'
               PROVE  \/ status'[u] = "FAILED"
                      \/ /\ reserved_ticket_id'[u] = reserved_ticket_id'[x]
                         /\ status'[u] = status'[x]
    BY DEF CohortMovesTogether
  <2> QED
    BY <1>0 DEF CohortMovesTogether, TicketOwnership, Owned, StatesOf, Ticket
<1>6. TicketsNameAdmitted'
  BY <1>0 DEF TicketsNameAdmitted, StatesOf
<1> QED
  BY <1>1, <1>2, <1>3, <1>4, <1>5, <1>6

LEMMA FailPreserves ==
  ASSUME QInv, NEW t \in TicketIds, Fail(t)
  PROVE  (ReadyMembership /\ TicketOwnership /\ ActiveMapExact /\ ReservationFresh
            /\ CohortMovesTogether /\ TicketsNameAdmitted)'
<1> USE QueueAssumption DEF QInv, TypeOK, Fail, Unfinished, SetStatus, BumpVersions, ClearTicket, SetTicket,
         Dequeued, Released
<1>0. StatesOf(t) \in SUBSET StateIds
  BY TicketFields
<1>1. ReadyMembership'
  BY <1>0 DEF ReadyMembership
<1>2. TicketOwnership'
  BY <1>0 DEF TicketOwnership, Owned, StatesOf
<1>3. ActiveMapExact'
  <2>1. \A x \in Unfinished(t) : x \in StateIds /\ active_request_ids[RequestOf[x]] = x
    BY <1>0 DEF ActiveMapExact, TicketsNameAdmitted, Active, Terminal
  <2>2. ASSUME NEW r \in Requests, NEW x \in StateIds
        PROVE  (active_request_ids[r] = x <=> (RequestOf[x] = r /\ status[x] \in Active))'
    <3>1. CASE \E y \in Unfinished(t) : RequestOf[y] = r
      <4>1. PICK y \in Unfinished(t) : RequestOf[y] = r
        BY <3>1
      <4>2. active_request_ids'[r] = NoState
        BY <4>1
      <4>3. RequestOf[x] = r /\ status[x] \in Active => x = y
        BY <2>1, <4>1 DEF ActiveMapExact
      <4>4. status'[y] \notin Active
        BY <2>1, <4>1 DEF Active, Terminal
      <4> QED
        BY <4>2, <4>3, <4>4 DEF Active, Terminal
    <3>2. CASE \A y \in Unfinished(t) : RequestOf[y] # r
      BY <3>2 DEF ActiveMapExact, Active
    <3> QED
      BY <3>1, <3>2
  <2> QED
    BY <2>2 DEF ActiveMapExact
<1>4. ReservationFresh'
  BY <1>0 DEF ReservationFresh, TicketOwnership, Owned, StatesOf
<1>5. CohortMovesTogether'
  <2> SUFFICES ASSUME NEW x \in StateIds, status'[x] \in Owned,
                      NEW u \in StatesOf(reserved_ticket_id[x])'
               PROVE  \/ status'[u] = "FAILED"
                      \/ /\ reserved_ticket_id'[u] = reserved_ticket_id'[x]
                         /\ status'[u] = status'[x]
    BY DEF CohortMovesTogether
  <2> QED
    BY <1>0 DEF CohortMovesTogether, TicketOwnership, Owned, StatesOf, Ticket
<1>6. TicketsNameAdmitted'
  BY <1>0 DEF TicketsNameAdmitted, StatesOf
<1> QED
  BY <1>1, <1>2, <1>3, <1>4, <1>5, <1>6

-----------------------------------------------------------------------------

(* Every step of the queues, and every stuttering step, keeps the invariant.*)
LEMMA NextPreservesQInv == QInv /\ [QNext]_qvars => QInv'
<1> SUFFICES ASSUME QInv, [QNext]_qvars PROVE QInv'
  OBVIOUS
<1>1. CASE UNCHANGED qvars
  BY <1>1 DEF qvars, QInv, TypeOK, ReadyMembership, TicketOwnership, ActiveMapExact,
              ReservationFresh, CohortMovesTogether, TicketsNameAdmitted, StatesOf, Ticket
<1>2. CASE QNext
  <2>1. TypeOK'
    BY <1>2, TypePreserved
  <2>2. ready_ids \in [Groups -> SUBSET StateIds]
    BY DEF QInv, TypeOK
  <2>3. (ReadyMembership /\ TicketOwnership /\ ActiveMapExact /\ ReservationFresh
            /\ CohortMovesTogether /\ TicketsNameAdmitted)'
    BY <1>2, AdmitPreserves, ReservePreserves, MarkRunningPreserves, UnreservePreserves,
       CompleteFinalPreserves, CompleteInnerPreserves, FinalizePreserves, FailPreserves
       DEF QNext, CompleteGroup
  <2> QED
    BY <2>1, <2>3 DEF QInv
<1> QED
  BY <1>1, <1>2

(* The inductive invariant holds in every reachable state.                  *)
THEOREM QueueInvariant == QSpec => []QInv
BY InitEstablishesQInv, NextPreservesQInv, PTL DEF QSpec

(* assert_invariants of the code can never raise: at every moment the ready *)
(* lists, the statuses, the owning tickets and the in-flight map agree.     *)
THEOREM QueueConsistency == QSpec => [](TypeOK /\ AssertInvariants)
BY QueueInvariant, PTL DEF QInv, AssertInvariants

(* mark_running never rejects the ticket that owns a reservation.           *)
THEOREM OwnerIsNeverStale == QSpec => []ReservationFresh
BY QueueInvariant, PTL DEF QInv

(* The chunks a ticket owns are always in the same status.                  *)
THEOREM CohortsMoveTogether == QSpec => []CohortMovesTogether
BY QueueInvariant, PTL DEF QInv

(* Chunks change group only as whole cohorts of a running ticket.           *)
THEOREM CohortsAdvanceTogether == QSpec => CohortAdvancesTogether
<1>1. ASSUME QInv, QNext, NEW s \in StateIds, group'[s] # group[s]
      PROVE  group'[s] = group[s] + 1 /\ AdvancesWithCohort(s)
  <2>1. PICK t \in TicketIds : CompleteInnerGroup(t)
    BY <1>1 DEF QNext, Admit, Reserve, MarkRunning, Unreserve, CompleteGroup,
                CompleteFinalGroup, Finalize, Fail
  <2>2. StatesOf(t) \in SUBSET StateIds
    BY <1>1, TicketFields DEF QInv
  <2>3. group' = Moved(StatesOf(t)) /\ reserved_ticket_id' = ClearTicket(StatesOf(t))
    BY <2>1 DEF CompleteInnerGroup, CompletesGroup
  <2>4. s \in StatesOf(t)
    BY <1>1, <2>3 DEF Moved
  <2>5. reserved_ticket_id[s] = t /\ status[s] = "RUNNING"
        /\ \A u \in StatesOf(t) : group[u] = tickets[t].group
    BY <2>1, <2>4 DEF CompleteInnerGroup, CompletesGroup, Owns
  <2> QED
    BY <2>2, <2>3, <2>4, <2>5 DEF AdvancesWithCohort, Moved, ClearTicket, SetTicket
<1>2. QInv /\ [QNext]_qvars =>
        [\A s \in StateIds : group'[s] # group[s] =>
            group'[s] = group[s] + 1 /\ AdvancesWithCohort(s)]_qvars
  BY <1>1
<1> QED
  BY <1>2, QueueInvariant, PTL DEF QSpec, CohortAdvancesTogether

-----------------------------------------------------------------------------
(* The bound on chunks in flight.  Finiteness of the set in flight is part  *)
(* of the induction: nothing is assumed about the set of all requests.      *)
InflightInv == IsFiniteSet(Inflight) /\ Cardinality(Inflight) <= MaxInflight

(* What only releases requests keeps the bound.                             *)
LEMMA ShrinkingInflight ==
  ASSUME InflightInv, Inflight' \subseteq Inflight PROVE InflightInv'
<1>1. IsFiniteSet(Inflight') /\ Cardinality(Inflight') <= Cardinality(Inflight)
  BY FS_Subset DEF InflightInv
<1>2. Cardinality(Inflight) \in Nat /\ Cardinality(Inflight') \in Nat
  BY <1>1, FS_CardinalityType DEF InflightInv
<1> QED
  BY <1>1, <1>2, QueueAssumption DEF InflightInv

(* Only an admission adds a request, and it needs room.                     *)
LEMMA InflightInvariant == QSpec => []InflightInv
<1>1. QInit => InflightInv
  <2> SUFFICES ASSUME QInit PROVE InflightInv
    OBVIOUS
  <2>1. Inflight = {}
    BY DEF QInit, Inflight
  <2> QED
    BY <2>1, FS_EmptySet, QueueAssumption DEF InflightInv
<1>2. InflightInv /\ QInv /\ [QNext]_qvars => InflightInv'
  <2> SUFFICES ASSUME InflightInv, QInv, [QNext]_qvars PROVE InflightInv'
    OBVIOUS
  <2>1. ASSUME NEW s \in StateIds, Admit(s) PROVE InflightInv'
    <3>1. Inflight' = Inflight \cup {RequestOf[s]}
      BY <2>1, QueueAssumption DEF Admit, Inflight, QInv, TypeOK
    <3>2. /\ IsFiniteSet(Inflight')
          /\ \/ Cardinality(Inflight') = Cardinality(Inflight)
             \/ Cardinality(Inflight') = Cardinality(Inflight) + 1
      BY <3>1, FS_AddElement DEF InflightInv
    <3>3. Cardinality(Inflight) \in Nat /\ Cardinality(Inflight) < MaxInflight
      BY <2>1, FS_CardinalityType DEF InflightInv, Admit, HasRoom
    <3> QED
      BY <3>2, <3>3, QueueAssumption DEF InflightInv
  <2>2. ASSUME NEW g \in Groups, NEW t \in TicketIds, NEW S \in SUBSET ready_ids[g],
               Reserve(S, t, g)
        PROVE  InflightInv'
    BY <2>2, ShrinkingInflight DEF Reserve, Inflight
  <2>3. ASSUME NEW t \in TicketIds, MarkRunning(t) \/ Unreserve(t) \/ CompleteGroup(t)
        PROVE  InflightInv'
    BY <2>3, ShrinkingInflight DEF MarkRunning, Unreserve, CompleteGroup, CompleteFinalGroup,
       CompleteInnerGroup, Inflight
  <2>4. ASSUME NEW t \in TicketIds, Finalize(t) \/ Fail(t) PROVE InflightInv'
    BY <2>4, ShrinkingInflight DEF Finalize, Fail, Released, Inflight
  <2>5. CASE UNCHANGED qvars
    BY <2>5, ShrinkingInflight DEF qvars, Inflight
  <2> QED
    BY <2>1, <2>2, <2>3, <2>4, <2>5 DEF QNext
<1> QED
  BY <1>1, <1>2, QueueInvariant, PTL DEF QSpec

(* Never more than max_inflight_states chunks are in flight.                *)
THEOREM BoundedInflight == QSpec => []InflightBound
<1>1. InflightInv => InflightBound
  BY DEF InflightInv, InflightBound
<1> QED
  BY <1>1, InflightInvariant, PTL

-----------------------------------------------------------------------------
(* The refinement.  InFlightChunks is InPipeline seen through the mapping.  *)
InFlightChunks == {s \in StateIds : status[s] \in Active}

(* No two chunks in flight share a request, so there are at most as many    *)
(* chunks in flight as requests.                                            *)
LEMMA ChunksWithinInflight ==
  ASSUME QInv, HasRoom, IsFiniteSet(Inflight)
  PROVE  Cardinality(InFlightChunks) < MaxInflight
<1> DEFINE f == [s \in InFlightChunks |-> RequestOf[s]]
<1>1. f \in Injection(InFlightChunks, Inflight)
  BY QueueAssumption DEF InFlightChunks, Inflight, QInv, TypeOK, ActiveMapExact, Injection,
                         IsInjective
<1>2. IsFiniteSet(InFlightChunks) /\ Cardinality(InFlightChunks) <= Cardinality(Inflight)
  BY <1>1, FS_Injection
<1>3. Cardinality(InFlightChunks) \in Nat /\ Cardinality(Inflight) \in Nat
  BY <1>2, FS_CardinalityType
<1> QED
  BY <1>2, <1>3, QueueAssumption DEF HasRoom

(* Setting the status of some chunks moves their image and no other.        *)
LEMMA StatusMaps ==
  ASSUME TypeOK, NEW S \in SUBSET StateIds, NEW new \in Statuses, status' = SetStatus(S, new)
  PROVE  /\ PhaseMap' = [c \in StateIds |-> IF c \in S THEN PhaseOf(new) ELSE PhaseMap[c]]
         /\ HeldMap' = IF new \in Owned THEN HeldMap \cup S ELSE HeldMap \ S
BY DEF TypeOK, SetStatus, PhaseMap, HeldMap

(* The image of a chunk's status.                                           *)
LEMMA PhaseFacts ==
  ASSUME TypeOK, NEW s \in StateIds
  PROVE  /\ PhaseMap[s] = "out" <=> status[s] = "NEW"
         /\ PhaseMap[s] = "in" <=> status[s] \in {"READY", "RESERVED", "RUNNING"}
         /\ PhaseMap[s] = "ran" <=> status[s] = "FINALIZING"
         /\ PhaseMap[s] \in {"in", "ran"} <=> status[s] \in Active
         /\ s \in HeldMap <=> status[s] \in Owned
<1>1. status[s] \in Statuses
  BY DEF TypeOK
<1> QED
  BY <1>1 DEF PhaseMap, PhaseOf, HeldMap, Statuses, Active, Terminal

(* The initial state of the queues is the empty pipeline.                   *)
LEMMA InitImplementsPipeline == QInit => Pipeline!PInit
BY DEF QInit, Pipeline!PInit, PhaseMap, PhaseOf, HeldMap, Owned

(* Every step of the queues is a step of the pipeline, or leaves it alone.  *)
LEMMA StepsImplementPipeline ==
  ASSUME QInv, InflightInv, QNext
  PROVE  Pipeline!PNext \/ UNCHANGED Pipeline!pvars
<1> USE QueueAssumption
<1>a. TypeOK
  BY DEF QInv
<1>b. /\ PhaseOf("READY") = "in" /\ PhaseOf("RESERVED") = "in" /\ PhaseOf("RUNNING") = "in"
      /\ PhaseOf("FINALIZING") = "ran" /\ PhaseOf("DONE") = "done" /\ PhaseOf("FAILED") = "failed"
  BY DEF PhaseOf
<1>c. Pipeline!InPipeline = InFlightChunks
  BY <1>a, PhaseFacts DEF Pipeline!InPipeline, InFlightChunks
<1>1. ASSUME NEW s \in StateIds, Admit(s) PROVE Pipeline!Enter(s)
  <2>1. Pipeline!Cardinality(Pipeline!InPipeline) < MaxInflight
    <3>1. Cardinality(InFlightChunks) < MaxInflight
      BY <1>1, ChunksWithinInflight DEF Admit, InflightInv
    <3>2. Pipeline!Cardinality(InFlightChunks) = Cardinality(InFlightChunks)
      BY Zenon DEF Pipeline!Cardinality, Cardinality
    <3> QED
      BY <1>c, <3>1, <3>2
  <2>2. \A d \in Pipeline!InPipeline : RequestOf[d] # RequestOf[s]
    BY <1>a, <1>c, <1>1 DEF Admit, RequestIdle, QInv, ActiveMapExact, InFlightChunks
  <2>3. PhaseMap[s] = "out" /\ s \notin HeldMap
    BY <1>a, <1>1, PhaseFacts DEF Admit, Owned
  <2>4. /\ PhaseMap' = [c \in StateIds |-> IF c \in {s} THEN "in" ELSE PhaseMap[c]]
        /\ HeldMap' = HeldMap
    BY <1>a, <1>b, <1>1, <2>3, StatusMaps DEF Admit, Statuses, Owned
  <2> QED
    <3>1. UNCHANGED <<group, HeldMap>>
      BY <1>1, <2>4 DEF Admit
    <3>2. Pipeline!Become({s}, "in")
      BY <2>4, Zenon DEF Pipeline!Become
    <3> QED
      BY <2>1, <2>2, <2>3, <3>1, <3>2, Zenon DEF Pipeline!Enter
<1>2. ASSUME NEW g \in Groups, NEW t \in TicketIds, NEW S \in SUBSET ready_ids[g],
             Reserve(S, t, g)
      PROVE  S \in SUBSET StateIds /\ Pipeline!Claim(S)
  <2>1. S \in SUBSET StateIds
    BY <1>a DEF TypeOK
  <2>2. Pipeline!IsIn(S) /\ S \cap HeldMap = {}
    BY <1>a, <1>2, <2>1, PhaseFacts DEF Reserve, Pipeline!IsIn, Owned
  <2>3. PhaseMap' = [c \in StateIds |-> IF c \in S THEN "in" ELSE PhaseMap[c]]
        /\ HeldMap' = HeldMap \cup S
    BY <1>a, <1>b, <1>2, <2>1, StatusMaps DEF Reserve, Statuses, Owned
  <2>4. PhaseMap' = PhaseMap
    BY <2>1, <2>2, <2>3 DEF Pipeline!IsIn, PhaseMap
  <2> QED
    BY <1>2, <2>1, <2>2, <2>3, <2>4 DEF Reserve, Pipeline!Claim
<1>3. ASSUME NEW t \in TicketIds, MarkRunning(t) PROVE UNCHANGED Pipeline!pvars
  <2>1. StatesOf(t) \in SUBSET StateIds
    BY <1>a, TicketFields
  <2>2. \A s \in StatesOf(t) : PhaseMap[s] = "in" /\ s \in HeldMap
    BY <1>a, <1>3, <2>1, PhaseFacts DEF MarkRunning, Owns, Owned
  <2>3. PhaseMap' = [c \in StateIds |-> IF c \in StatesOf(t) THEN "in" ELSE PhaseMap[c]]
        /\ HeldMap' = HeldMap \cup StatesOf(t)
    BY <1>a, <1>b, <1>3, <2>1, StatusMaps DEF MarkRunning, Statuses, Owned
  <2>4. PhaseMap' = PhaseMap /\ HeldMap' = HeldMap
    BY <2>2, <2>3 DEF PhaseMap
  <2> QED
    BY <1>3, <2>4 DEF MarkRunning, Pipeline!pvars
<1>4. ASSUME NEW t \in TicketIds, Unreserve(t) PROVE Pipeline!GiveBack(StatesOf(t))
  <2>1. StatesOf(t) \in SUBSET StateIds /\ StatesOf(t) # {}
    BY <1>a, <1>4, TicketFields DEF Unreserve, Owns, Issued, StatesOf
  <2>2. \A s \in StatesOf(t) : PhaseMap[s] = "in" /\ s \in HeldMap
    BY <1>a, <1>4, <2>1, PhaseFacts DEF Unreserve, Owns, Owned
  <2>3. PhaseMap' = [c \in StateIds |-> IF c \in StatesOf(t) THEN "in" ELSE PhaseMap[c]]
        /\ HeldMap' = HeldMap \ StatesOf(t)
    BY <1>a, <1>b, <1>4, <2>1, StatusMaps DEF Unreserve, Statuses, Owned
  <2>4. PhaseMap' = PhaseMap
    BY <2>2, <2>3 DEF PhaseMap
  <2> QED
    BY <1>4, <2>1, <2>2, <2>3, <2>4 DEF Unreserve, Pipeline!GiveBack, Pipeline!IsIn
<1>5. ASSUME NEW t \in TicketIds, CompletesGroup(t)
      PROVE  /\ StatesOf(t) \in SUBSET StateIds
             /\ tickets[t].group \in Groups
             /\ Pipeline!IsIn(StatesOf(t))
             /\ StatesOf(t) \subseteq HeldMap
             /\ \A s \in StatesOf(t) : PhaseMap[s] = "in" /\ group[s] = tickets[t].group
  <2>1. StatesOf(t) \in SUBSET StateIds /\ StatesOf(t) # {}
    BY <1>a, <1>5, TicketFields DEF CompletesGroup, Owns, Issued, StatesOf
  <2>2. \A s \in StatesOf(t) : PhaseMap[s] = "in" /\ s \in HeldMap
    BY <1>a, <1>5, <2>1, PhaseFacts DEF CompletesGroup, Owns, Owned
  <2> QED
    BY <1>a, <1>5, <2>1, <2>2, TicketFields DEF CompletesGroup, Pipeline!IsIn
<1>6. ASSUME NEW t \in TicketIds, CompleteGroup(t)
      PROVE  Pipeline!Advance(StatesOf(t), tickets[t].group)
  <2>0. CompletesGroup(t)
    BY <1>6 DEF CompleteGroup, CompleteFinalGroup, CompleteInnerGroup
  <2>1. CASE CompleteFinalGroup(t)
    <3>1. PhaseMap' = [c \in StateIds |-> IF c \in StatesOf(t) THEN "ran" ELSE PhaseMap[c]]
          /\ HeldMap' = HeldMap \ StatesOf(t)
      BY <1>a, <1>b, <1>5, <2>0, <2>1, StatusMaps DEF CompleteFinalGroup, Statuses, Owned
    <3> QED
      BY <1>5, <2>0, <2>1, <3>1
         DEF CompleteFinalGroup, IsFinal, Pipeline!Advance, Pipeline!Become
  <2>2. CASE CompleteInnerGroup(t)
    <3>1. PhaseMap' = [c \in StateIds |-> IF c \in StatesOf(t) THEN "in" ELSE PhaseMap[c]]
          /\ HeldMap' = HeldMap \ StatesOf(t)
      BY <1>a, <1>b, <1>5, <2>0, <2>2, StatusMaps DEF CompleteInnerGroup, Statuses, Owned
    <3>2. PhaseMap' = PhaseMap
      BY <1>5, <2>0, <3>1 DEF PhaseMap
    <3>3. tickets[t].group < NumGroups - 1
      BY <1>5, <2>0, <2>2, SMT DEF CompleteInnerGroup, IsFinal, Groups
    <3>4. group' = [c \in StateIds |-> IF c \in StatesOf(t) THEN tickets[t].group + 1
                                                            ELSE group[c]]
      BY <1>5, <2>0, <2>2 DEF CompleteInnerGroup, Moved
    <3> QED
      BY <1>5, <2>0, <3>1, <3>2, <3>3, <3>4 DEF Pipeline!Advance
  <2> QED
    BY <1>6, <2>1, <2>2 DEF CompleteGroup
<1>7. ASSUME NEW t \in TicketIds, Finalize(t) PROVE Pipeline!Retire(StatesOf(t))
  <2>1. StatesOf(t) \in SUBSET StateIds /\ StatesOf(t) # {}
    BY <1>a, <1>7, TicketFields DEF Finalize, Issued, StatesOf
  <2>2. \A s \in StatesOf(t) : PhaseMap[s] = "ran" /\ s \notin HeldMap
    BY <1>a, <1>7, <2>1, PhaseFacts DEF Finalize, Owned
  <2>3. PhaseMap' = [c \in StateIds |-> IF c \in StatesOf(t) THEN "done" ELSE PhaseMap[c]]
        /\ HeldMap' = HeldMap \ StatesOf(t)
    BY <1>a, <1>b, <1>7, <2>1, StatusMaps DEF Finalize, Statuses, Owned
  <2> QED
    BY <1>7, <2>1, <2>2, <2>3 DEF Finalize, Pipeline!Retire, Pipeline!Become
<1>8. ASSUME NEW t \in TicketIds, Fail(t) PROVE Pipeline!Abort(Unfinished(t))
  <2>1. Unfinished(t) \in SUBSET StateIds
    BY <1>a, TicketFields DEF Unfinished
  <2>2. Unfinished(t) \subseteq InFlightChunks
    BY <1>a, <2>1 DEF QInv, Unfinished, TicketsNameAdmitted, InFlightChunks, Active, Statuses,
                      TypeOK
  <2>3. PhaseMap' = [c \in StateIds |-> IF c \in Unfinished(t) THEN "failed" ELSE PhaseMap[c]]
        /\ HeldMap' = HeldMap \ Unfinished(t)
    BY <1>a, <1>b, <1>8, <2>1, StatusMaps DEF Fail, Statuses, Owned
  <2> QED
    BY <1>c, <1>8, <2>2, <2>3 DEF Fail, Pipeline!Abort, Pipeline!Become
<1> QED
  <2>1. \A t \in TicketIds : StatesOf(t) \in SUBSET StateIds
                             /\ Unfinished(t) \in SUBSET StateIds
                             /\ tickets[t].group \in 0 .. (NumGroups - 1)
    BY <1>a, TicketFields DEF Groups, Unfinished
  <2> QED
    BY <1>1, <1>2, <1>3, <1>4, <1>6, <1>7, <1>8, <2>1 DEF QNext, Pipeline!PNext

(* The queues, tickets, versions and in-flight map together implement the   *)
(* abstract pipeline.                                                       *)
THEOREM QueuesImplementPipeline == QSpec => ImplementsPipeline
<1>1. QInv /\ InflightInv /\ [QNext]_qvars => [Pipeline!PNext]_(Pipeline!pvars)
  <2> SUFFICES ASSUME QInv, InflightInv, [QNext]_qvars
               PROVE  Pipeline!PNext \/ UNCHANGED Pipeline!pvars
    OBVIOUS
  <2>1. CASE UNCHANGED qvars
    BY <2>1 DEF qvars, Pipeline!pvars, PhaseMap, HeldMap
  <2> QED
    BY <2>1, StepsImplementPipeline
<1> QED
  BY <1>1, InitImplementsPipeline, QueueInvariant, InflightInvariant, PTL
     DEF QSpec, ImplementsPipeline, Pipeline!PSpec

-----------------------------------------------------------------------------
(* Part two: recording and replaying.                                       *)

(* Every variable of the replay holds a value of its type.                  *)
PlannedTicket ==
    [ticket : TicketIds, group : Groups, epoch : Nat,
     chunks : UNION {[S -> Chunks \cup {NoChunk}] : S \in SUBSET StateIds},
     versions : UNION {[S -> Nat] : S \in SUBSET StateIds}]
ReplayTypeOK ==
    /\ phase \in {"recording", "replaying", "refused", "stopped"}
    /\ pc \in {"admit", "select", "admitted", "reserved", "materialize", "complete", "finalize"}
    /\ chunkOf \in [StateIds -> Chunks \cup {NoChunk}]
    /\ trace \in Seq(PlannedTicket)
    /\ bound \in Nat
    /\ index \in Nat

(* While a run that binds plans is recorded, only the ticket that is out    *)
(* can be without a plan.                                                   *)
Unbound == IF pc \in {"reserved", "materialize"} THEN 1 ELSE 0
LastMayBeUnbound == phase = "recording" /\ BindsPlans => bound + Unbound = Len(trace)

(* The inductive invariant: the queues' own, the types, and how far the     *)
(* recording has bound its tickets.                                         *)
RInv == QInv /\ ReplayTypeOK /\ LastMayBeUnbound /\ ReplaysBoundTickets

(* The next ticket of a replay that is due names a real group and chunks.   *)
LEMMA ExpectedType ==
  ASSUME ReplayTypeOK, ~ Exhausted
  PROVE  /\ Expected \in PlannedTicket
         /\ Cohort \in SUBSET StateIds
<1>1. index + 1 \in 1 .. Len(trace)
  BY DEF ReplayTypeOK, Exhausted
<1>2. Expected \in PlannedTicket
  BY <1>1 DEF ReplayTypeOK, Expected
<1>3. PICK S \in SUBSET StateIds : Expected.chunks \in [S -> Chunks \cup {NoChunk}]
  BY <1>2 DEF PlannedTicket
<1> QED
  BY <1>2, <1>3 DEF Cohort

(* A refused epoch: taking the reservation back leaves nothing behind.      *)
LEMMA UndoRestores ==
  ASSUME QInv, ReplayTypeOK, EpochDiffers
  PROVE  UNCHANGED qvars
<1> USE DEF QInv
<1>1. /\ Cohort \in SUBSET StateIds
      /\ \A s \in Cohort : status[s] = "READY" /\ group[s] = Expected.group
  BY ExpectedType DEF EpochDiffers, Due, AsRecorded
<1>2. status' = status
  BY <1>1 DEF EpochDiffers, SetStatus, TypeOK
<1>3. reserved_ticket_id' = reserved_ticket_id
  <2>1. \A s \in Cohort : reserved_ticket_id[s] = NoTicket
    BY <1>1 DEF TicketOwnership, Owned
  <2> QED
    BY <1>1, <2>1 DEF EpochDiffers, SetTicket, TypeOK
<1>4. version' = version
  <2>1. \A s \in StateIds : version[s] \in Nat
    BY DEF TypeOK
  <2>2. \A s \in StateIds : Undone(version[s] + 1) = version[s]
    BY <2>1 DEF Undone
  <2>3. version' = [s \in StateIds |-> version[s]]
    BY <2>2 DEF EpochDiffers
  <2> QED
    BY <2>3 DEF TypeOK
<1>5. ready_ids' = ready_ids
  <2>1. \A g \in Groups :
           Dequeued(Cohort)[g] \cup {s \in Cohort : group[s] = g} = ready_ids[g]
    <3>1. ASSUME NEW g \in Groups, NEW s \in Cohort, group[s] = g PROVE s \in ready_ids[g]
      BY <1>1, <3>1 DEF ReadyMembership
    <3> QED
      BY <3>1 DEF Dequeued
  <2>2. ready_ids' = [g \in Groups |-> ready_ids[g]]
    BY <2>1 DEF EpochDiffers
  <2> QED
    BY <2>2 DEF TypeOK
<1>6. queue_epoch' = queue_epoch
  BY DEF EpochDiffers, Undone, TypeOK
<1> QED
  BY <1>2, <1>3, <1>4, <1>5, <1>6 DEF EpochDiffers, qvars

(* Recording, restarting and replaying keep the invariant of the queues:    *)
(* each step is a step of StageReadyQueues, a fresh start or no step at all.*)
LEMMA StepPreservesQInv == ASSUME QInv, ReplayTypeOK, Next PROVE QInv'
<1>1. ASSUME NEW c \in Chunks, AdmitChunk(c) PROVE QInv'
  BY <1>1, NextPreservesQInv DEF AdmitChunk, QNext
<1>2. ASSUME NEW g \in Groups, NEW S \in SUBSET ready_ids[g], Plan(S, g) PROVE QInv'
  BY <1>2, NextPreservesQInv DEF Plan, QNext
<1>3. CASE Restart
  <2>1. QInit'
    BY <1>3 DEF Restart, QInit, Unissued
  <2> QED
    BY <2>1, InitEstablishesQInv, PTL
<1>4. CASE ReplayNext
  <2>1. /\ Expected.ticket \in TicketIds /\ Expected.group \in Groups
        /\ Cohort \in SUBSET ready_ids[Expected.group]
    <3>1. /\ Expected \in PlannedTicket /\ Cohort \in SUBSET StateIds
      BY <1>4, ExpectedType DEF ReplayNext, Due
    <3>2. \A s \in Cohort : status[s] = "READY" /\ group[s] = Expected.group
      BY <1>4 DEF ReplayNext, AsRecorded
    <3> QED
      BY <3>1, <3>2 DEF PlannedTicket, QInv, ReadyMembership
  <2> QED
    BY <1>4, <2>1, NextPreservesQInv DEF ReplayNext, QNext
<1>5. CASE EpochDiffers
  BY <1>5, UndoRestores, NextPreservesQInv
<1>6. CASE Dispatch \/ Complete \/ FinishChunks
  <2>1. QNext
    BY <1>6 DEF Dispatch, Complete, FinishChunks, MarkRunning, CompleteGroup, CompleteFinalGroup,
       CompleteInnerGroup, CompletesGroup, Finalize, Owns, Issued, QNext
  <2> QED
    BY <2>1, NextPreservesQInv
<1>7. CASE SkipAdmission \/ NothingReady \/ Await \/ NotSchedulable \/ Diverged \/ Materialize \/ Ended
  BY <1>7, NextPreservesQInv DEF SkipAdmission, NothingReady, Await, NotSchedulable, Diverged,
     Materialize, Ended, vars
<1> QED
  BY <1>1, <1>2, <1>3, <1>4, <1>5, <1>6, <1>7 DEF Next, Loop

-----------------------------------------------------------------------------

(* What is recorded of a ticket has the type of a planned ticket.           *)
LEMMA PlannedType ==
  ASSUME QInv, ReplayTypeOK, NEW g \in Groups, NEW S \in SUBSET ready_ids[g],
         NEW t \in TicketIds
  PROVE  Planned(S, t, g) \in PlannedTicket
<1>1. S \in SUBSET StateIds
  BY DEF QInv, TypeOK
<1>2. [s \in S |-> chunkOf[s]] \in [S -> Chunks \cup {NoChunk}]
  BY <1>1 DEF ReplayTypeOK
<1>3. [s \in S |-> TicketVersions(S)[s]] \in [S -> Nat]
  BY <1>1 DEF TicketVersions, QInv, TypeOK
<1>4. queue_epoch + 1 \in Nat
  BY DEF QInv, TypeOK
<1> QED
  BY <1>1, <1>2, <1>3, <1>4 DEF Planned, PlannedTicket

(* Every step of either run keeps the types.                                *)
LEMMA StepPreservesTypes == ASSUME QInv, ReplayTypeOK, Next PROVE ReplayTypeOK'
<1> USE DEF ReplayTypeOK
<1>1. ASSUME NEW c \in Chunks, AdmitChunk(c) PROVE ReplayTypeOK'
  BY <1>1 DEF AdmitChunk
<1>2. ASSUME NEW g \in Groups, NEW S \in SUBSET ready_ids[g], Plan(S, g) PROVE ReplayTypeOK'
  <2>1. Planned(S, Len(trace) + 1, g) \in PlannedTicket
    BY <1>2, PlannedType DEF Plan
  <2> QED
    BY <1>2, <2>1 DEF Plan
<1>3. CASE Restart
  BY <1>3 DEF Restart
<1>4. CASE ReplayNext
  BY <1>4 DEF ReplayNext
<1>5. CASE EpochDiffers \/ Diverged \/ NotSchedulable
  BY <1>5 DEF EpochDiffers, Diverged, NotSchedulable, Stops
<1>6. CASE Dispatch \/ Materialize \/ Complete \/ FinishChunks
  BY <1>6 DEF Dispatch, Materialize, Complete, FinishChunks
<1>7. CASE SkipAdmission \/ NothingReady \/ Await \/ Ended
  BY <1>7 DEF SkipAdmission, NothingReady, Await, Ended, vars, rvars
<1> QED
  BY <1>1, <1>2, <1>3, <1>4, <1>5, <1>6, <1>7 DEF Next, Loop

(* Recording plans a ticket and binds it before the next one; only a        *)
(* restart leaves the recording, and it looks at how far the binding came.  *)
LEMMA StepPreservesBinding ==
  ASSUME QInv, ReplayTypeOK, LastMayBeUnbound, ReplaysBoundTickets, Next
  PROVE  LastMayBeUnbound' /\ ReplaysBoundTickets'
<1> USE ReplayAssumption DEF ReplayTypeOK, LastMayBeUnbound, ReplaysBoundTickets, Unbound
<1>1. ASSUME NEW c \in Chunks, AdmitChunk(c) PROVE LastMayBeUnbound' /\ ReplaysBoundTickets'
  BY <1>1 DEF AdmitChunk
<1>2. ASSUME NEW g \in Groups, NEW S \in SUBSET ready_ids[g], Plan(S, g)
      PROVE  LastMayBeUnbound' /\ ReplaysBoundTickets'
  <2>1. Planned(S, Len(trace) + 1, g) \in PlannedTicket
    BY <1>2, PlannedType DEF Plan
  <2>2. Len(trace') = Len(trace) + 1
    BY <1>2, <2>1 DEF Plan
  <2> QED
    BY <1>2, <2>2 DEF Plan, Selecting
<1>3. CASE Restart
  <2>1. phase = "recording" /\ phase' \in {"refused", "replaying"}
        /\ UNCHANGED <<trace, bound>>
    BY <1>3 DEF Restart
  <2>2. phase' = "replaying" => bound = 0 \/ bound = Len(trace)
    BY <1>3 DEF Restart, Refused, CutOff
  <2>3. BindsPlans => bound = Len(trace) \/ bound + 1 = Len(trace)
    BY <2>1
  <2>4. BindsPlans /\ bound = 0 => Len(trace) \in {0, 1}
    BY <2>3
  <2> QED
    BY <2>1, <2>2, <2>4
<1>4. CASE ReplayNext
  BY <1>4 DEF ReplayNext, Due
<1>5. CASE EpochDiffers \/ Diverged \/ NotSchedulable
  BY <1>5 DEF EpochDiffers, Diverged, NotSchedulable, Stops
<1>6. CASE Dispatch \/ Materialize \/ Complete \/ FinishChunks
  BY <1>6 DEF Dispatch, Materialize, Complete, FinishChunks
<1>7. CASE SkipAdmission \/ NothingReady \/ Await \/ Ended
  BY <1>7 DEF SkipAdmission, NothingReady, Await, Ended, vars, rvars
<1> QED
  BY <1>1, <1>2, <1>3, <1>4, <1>5, <1>6, <1>7 DEF Next, Loop

(* The invariant holds at the start of the recording.                       *)
LEMMA InitEstablishesRInv == Init => RInv
<1> SUFFICES ASSUME Init PROVE RInv
  OBVIOUS
<1>1. QInv
  BY InitEstablishesQInv DEF Init
<1>2. ReplayTypeOK /\ LastMayBeUnbound /\ ReplaysBoundTickets
  BY DEF Init, ReplayTypeOK, LastMayBeUnbound, ReplaysBoundTickets, Unbound
<1> QED
  BY <1>1, <1>2 DEF RInv

(* Every step keeps it, and so does a stuttering step.                      *)
LEMMA NextPreservesRInv == RInv /\ [Next]_vars => RInv'
<1> SUFFICES ASSUME RInv, [Next]_vars PROVE RInv'
  OBVIOUS
<1>1. CASE Next
  BY <1>1, StepPreservesQInv, StepPreservesTypes, StepPreservesBinding DEF RInv
<1>2. CASE UNCHANGED vars
  <2>1. QInv'
    BY <1>2, NextPreservesQInv DEF RInv, vars
  <2>2. (ReplayTypeOK /\ LastMayBeUnbound /\ ReplaysBoundTickets)'
    BY <1>2 DEF RInv, vars, rvars, ReplayTypeOK, LastMayBeUnbound, ReplaysBoundTickets, Unbound
  <2> QED
    BY <2>1, <2>2 DEF RInv
<1> QED
  BY <1>1, <1>2

(* The invariant holds throughout recording, restart and replay.            *)
THEOREM ReplayInvariant == Spec => []RInv
BY InitEstablishesRInv, NextPreservesRInv, PTL DEF Spec

(* assert_invariants of the code holds in the recording process and in the  *)
(* replaying one, refused epochs and their undone reservations included.    *)
THEOREM QueuesStayConsistent == Spec => []AssertInvariants
<1>1. RInv => AssertInvariants
  BY DEF RInv, QInv, AssertInvariants
<1> QED
  BY <1>1, ReplayInvariant, PTL

(* No trace is replayed with only some of its tickets bound to plans, and   *)
(* one that bound none has a single ticket.                                 *)
THEOREM NoTicketLosesItsPlan == Spec => []ReplaysBoundTickets
<1>1. RInv => ReplaysBoundTickets
  BY DEF RInv
<1> QED
  BY <1>1, ReplayInvariant, PTL

(* A replay that stops, for whatever reason, leaves the queues untouched.   *)
THEOREM StoppingLeavesNoTrace == Spec => RefusalRestoresQueues
<1>1. RInv /\ [Next]_vars => [phase = "replaying" /\ phase' = "stopped" => UNCHANGED qvars]_vars
  <2> SUFFICES ASSUME RInv, Next, phase = "replaying", phase' = "stopped"
               PROVE  UNCHANGED qvars
    OBVIOUS
  <2>1. CASE EpochDiffers
    BY <2>1, UndoRestores DEF RInv
  <2>2. CASE Diverged \/ NotSchedulable
    BY <2>2 DEF Diverged, NotSchedulable
  <2>3. CASE Ended
    BY <2>3 DEF Ended, Running
  <2> QED
    BY <2>1, <2>2, <2>3 DEF Next, Loop, AdmitChunk, SkipAdmission, Plan, NothingReady, Restart,
       Await, ReplayNext, Dispatch, Materialize, Complete, FinishChunks
<1> QED
  BY <1>1, ReplayInvariant, PTL DEF Spec, RefusalRestoresQueues
-----------------------------------------------------------------------------
(* A replay follows the recording. *)

(* What the queues held before the k-th ticket, and its chunks; "the ticket *)
(* before the first one" had none.                                          *)
AllNew ==
    [status |-> [s \in StateIds |-> "NEW"], group |-> [s \in StateIds |-> 0],
     version |-> [s \in StateIds |-> 0]]
Before(k)      == IF k = 0 THEN AllNew ELSE states[k]
EpochBefore(k) == IF k = 0 THEN 0 ELSE trace[k].epoch - 1
CohortOf(k)    == IF k = 0 THEN {} ELSE DOMAIN trace[k].chunks

(* What has happened to the chunks of a ticket when the loop is at place p, *)
(* "admit" for after the whole iteration, and how many mutations that took. *)
Between == {"admit", "select", "admitted"}
StatusAt(k, p) ==
    IF p = "reserved" THEN "RESERVED"
    ELSE IF p \in {"materialize", "complete"} THEN "RUNNING"
    ELSE IF p = "finalize" THEN "FINALIZING"
    ELSE IF IsFinal(trace[k].group) THEN "DONE" ELSE "READY"
GroupAt(k, p) ==
    IF p \in Between /\ ~ IsFinal(trace[k].group) THEN trace[k].group + 1
    ELSE trace[k].group
MutationsAt(k, p) ==
    IF p = "reserved" THEN 1
    ELSE IF p \in {"materialize", "complete"} THEN 2
    ELSE IF p = "finalize" THEN 3
    ELSE IF k = 0 THEN 0 ELSE IF IsFinal(trace[k].group) THEN 4 ELSE 3

(* A snapshot S that ticket k leaves at place p: its chunks have moved, the *)
(* others have not, but some may have been admitted.                        *)
ByTicket(S, k, p, s) ==
    /\ S.status[s] = StatusAt(k, p)
    /\ S.group[s] = GroupAt(k, p)
    /\ S.version[s] = Before(k).version[s] + MutationsAt(k, p)
Untouched(S, k, s) ==
    /\ S.status[s] = Before(k).status[s]
    /\ S.group[s] = Before(k).group[s]
    /\ S.version[s] = Before(k).version[s]
JustAdmitted(S, k, s) ==
    /\ Before(k).status[s] = "NEW"
    /\ S.status[s] = "READY" /\ S.group[s] = 0 /\ S.version[s] = 1
Follows(S, k, p) ==
    /\ \A s \in CohortOf(k) : ByTicket(S, k, p, s)
    /\ \A s \in StateIds \ CohortOf(k) : Untouched(S, k, s) \/ JustAdmitted(S, k, s)

(* Chunks get their ids in order; the epoch counts admissions and mutations.*)
Admitted(S) == {s \in StateIds : S.status[s] # "NEW"}
InOrder(S)  == Admitted(S) = 0 .. (Cardinality(Admitted(S)) - 1)
Counts(e, S, k, p) ==
    e + Cardinality(Admitted(Before(k)))
        = EpochBefore(k) + MutationsAt(k, p) + Cardinality(Admitted(S))

(* Every ticket of the trace says what the queues held, and the next one    *)
(* was planned in a state it left.                                          *)
Snapshots == [status : [StateIds -> Statuses], group : [StateIds -> Groups], version : [StateIds -> Nat]]
TellsQueues(k) ==
    /\ trace[k].ticket = k /\ trace[k].epoch > 0
    /\ InOrder(states[k])
    /\ \A s \in CohortOf(k) :
          /\ states[k].status[s] = "READY" /\ states[k].group[s] = trace[k].group
          /\ trace[k].versions[s] = states[k].version[s] + 1
Chains(k) ==
    /\ Follows(states[k + 1], k, "admit")
    /\ Counts(EpochBefore(k + 1), states[k + 1], k, "admit")
TraceTells ==
    /\ states \in Seq(Snapshots) /\ Len(states) = Len(trace)
    /\ \A k \in 1 .. Len(trace) : TellsQueues(k)
    /\ \A k \in 0 .. (Len(trace) - 1) : Chains(k)

(* So does the state of either run, with the ticket it is at.               *)
Fits(k, p) ==
    /\ Follows(Snapshot, k, p)
    /\ Counts(queue_epoch, Snapshot, k, p)
    /\ InOrder(Snapshot)
    /\ \A s \in StateIds : status[s] = "NEW" => group[s] = 0 /\ version[s] = 0
HasTicket(k, p) ==
    /\ k > 0
    /\ tickets[k].states = CohortOf(k) /\ tickets[k].group = trace[k].group
    /\ p = "finalize" => IsFinal(trace[k].group)
RunFollows ==
    Running =>
      /\ Current \in 0 .. Len(trace)
      /\ pc \notin Between => HasTicket(Current, pc)
      /\ Fits(Current, pc)

FollowInv == TraceTells /\ RunFollows


-----------------------------------------------------------------------------
(* Types of what is recorded, and the chunks that are admitted.             *)

LEMMA SnapshotType ==
  ASSUME TypeOK
  PROVE  /\ Snapshot \in Snapshots
         /\ Snapshot.status = status /\ Snapshot.group = group /\ Snapshot.version = version
  BY DEF TypeOK, Snapshot, Snapshots

(* A ticket of the trace names chunks and a group.                          *)
LEMMA TraceFields ==
  ASSUME ReplayTypeOK, NEW k \in 1 .. Len(trace)
  PROVE  /\ trace[k] \in PlannedTicket /\ k \in Nat /\ k > 0
         /\ CohortOf(k) \in SUBSET StateIds /\ CohortOf(k) = DOMAIN trace[k].chunks
         /\ trace[k].group \in Groups /\ trace[k].epoch \in Nat
<1>1. trace[k] \in PlannedTicket /\ k \in Nat /\ k > 0
  BY DEF ReplayTypeOK
<1>2. PICK S \in SUBSET StateIds : trace[k].chunks \in [S -> Chunks \cup {NoChunk}]
  BY <1>1 DEF PlannedTicket
<1> QED
  BY <1>1, <1>2 DEF CohortOf, PlannedTicket

(* So does what was recorded before it.                                     *)
LEMMA BeforeType ==
  ASSUME ReplayTypeOK, TraceTells, NEW k \in 0 .. Len(trace)
  PROVE  /\ Before(k) \in Snapshots /\ CohortOf(k) \in SUBSET StateIds
         /\ EpochBefore(k) \in Nat
<1>1. CASE k = 0
  BY <1>1, QueueAssumption DEF Before, AllNew, Snapshots, CohortOf, EpochBefore, Statuses, Groups
<1>2. CASE k # 0
  <2>1. k \in 1 .. Len(trace) /\ k \in 1 .. Len(states)
    BY <1>2 DEF TraceTells
  <2>2. states[k] \in Snapshots /\ trace[k].epoch > 0
    BY <2>1 DEF TraceTells, TellsQueues
  <2> QED
    BY <1>2, <2>1, <2>2, TraceFields DEF Before, EpochBefore
<1> QED
  BY <1>1, <1>2

(* The chunks of a snapshot are counted.                                    *)
LEMMA AdmittedCounted ==
  ASSUME NEW S
  PROVE  /\ Admitted(S) \in SUBSET StateIds
         /\ IsFiniteSet(Admitted(S)) /\ Cardinality(Admitted(S)) \in Nat
<1>1. Admitted(S) \in SUBSET StateIds
  BY DEF Admitted
<1> QED
  BY <1>1, ReplayAssumption, FS_Subset, FS_CardinalityType

LEMMA MutationsCounted ==
  ASSUME NEW k, NEW p
  PROVE  MutationsAt(k, p) \in Nat
  BY DEF MutationsAt

(* One more in the epoch is one more mutation or one more admission.        *)
LEMMA OneMore ==
  ASSUME NEW e \in Nat, NEW a \in Nat, NEW b \in Nat, NEW d \in Nat, NEW m \in Nat,
         e + a = d + m + b
  PROVE  (e + 1) + a = d + (m + 1) + b /\ (e + 1) + a = d + m + (b + 1)
OBVIOUS

(* Two snapshots that one ticket has left, with as many chunks admitted,    *)
(* are the same: ids are given out in order.                                *)
LEMMA SameSnapshot ==
  ASSUME ReplayTypeOK, TraceTells, NEW k \in 0 .. Len(trace),
         NEW S \in Snapshots, NEW T \in Snapshots,
         Follows(S, k, "admit"), Follows(T, k, "admit"), InOrder(S), InOrder(T),
         Cardinality(Admitted(S)) = Cardinality(Admitted(T))
  PROVE  S = T
<1>1. Admitted(S) = Admitted(T)
  BY DEF InOrder
<1>2. \A s \in StateIds : S.status[s] = "NEW" <=> T.status[s] = "NEW"
  BY <1>1 DEF Admitted
<1>3. ASSUME NEW s \in StateIds
      PROVE  S.status[s] = T.status[s] /\ S.group[s] = T.group[s] /\ S.version[s] = T.version[s]
  <2>1. CASE s \in CohortOf(k)
    BY <2>1 DEF Follows, ByTicket
  <2>2. CASE s \notin CohortOf(k)
    BY <1>2, <2>2 DEF Follows, Untouched, JustAdmitted
  <2> QED
    BY <2>1, <2>2
<1>4. S.status = T.status /\ S.group = T.group /\ S.version = T.version
  BY <1>3 DEF Snapshots
<1> QED
  BY <1>4 DEF Snapshots

(* What a step leaves alone when it writes neither trace nor history.       *)
LEMMA TraceFrame ==
  ASSUME UNCHANGED <<trace, states>>
  PROVE  /\ TraceTells <=> TraceTells'
         /\ \A k :
               /\ Before(k)' = Before(k) /\ EpochBefore(k)' = EpochBefore(k)
               /\ CohortOf(k)' = CohortOf(k)
         /\ \A k, p : StatusAt(k, p)' = StatusAt(k, p) /\ GroupAt(k, p)' = GroupAt(k, p)
                      /\ MutationsAt(k, p)' = MutationsAt(k, p)
         /\ \A S, k, p : Follows(S, k, p)' <=> Follows(S, k, p)
         /\ \A e, S, k, p : Counts(e, S, k, p)' <=> Counts(e, S, k, p)
<1>1. \A k :
         /\ Before(k)' = Before(k) /\ EpochBefore(k)' = EpochBefore(k)
         /\ CohortOf(k)' = CohortOf(k)
  BY DEF Before, EpochBefore, CohortOf
<1>2. \A k, p : StatusAt(k, p)' = StatusAt(k, p) /\ GroupAt(k, p)' = GroupAt(k, p)
                /\ MutationsAt(k, p)' = MutationsAt(k, p)
  BY DEF StatusAt, GroupAt, MutationsAt, Between
<1>3. \A S, k, p : Follows(S, k, p)' <=> Follows(S, k, p)
  BY <1>1, <1>2 DEF Follows, ByTicket, Untouched, JustAdmitted
<1>4. \A e, S, k, p : Counts(e, S, k, p)' <=> Counts(e, S, k, p)
  BY <1>1, <1>2 DEF Counts
<1>5. TraceTells <=> TraceTells'
  <2>1. \A k : TellsQueues(k)' <=> TellsQueues(k)
    BY <1>1 DEF TellsQueues, InOrder, Admitted
  <2>2. \A k : Follows(states[k + 1], k, "admit")' <=> Follows(states[k + 1], k, "admit")
    BY <1>1, <1>2 DEF Follows, ByTicket, Untouched, JustAdmitted
  <2>3. \A k : Counts(EpochBefore(k + 1), states[k + 1], k, "admit")'
               <=> Counts(EpochBefore(k + 1), states[k + 1], k, "admit")
    BY <1>1, <1>2 DEF Counts, Admitted
  <2>4. \A k : Chains(k)' <=> Chains(k)
    BY <2>2, <2>3 DEF Chains
  <2> QED
    BY <2>1, <2>4 DEF TraceTells
<1> QED
  BY <1>1, <1>2, <1>3, <1>4, <1>5

(* Being between two iterations is one place to a ticket, and so is its run.*)
LEMMA SamePlace ==
  ASSUME NEW p, NEW q,
         p = q \/ {p, q} \subseteq Between \/ {p, q} \subseteq {"materialize", "complete"}
  PROVE  /\ \A k : StatusAt(k, p) = StatusAt(k, q) /\ GroupAt(k, p) = GroupAt(k, q)
                   /\ MutationsAt(k, p) = MutationsAt(k, q)
         /\ \A S, k : Follows(S, k, p) <=> Follows(S, k, q)
         /\ \A e, S, k : Counts(e, S, k, p) <=> Counts(e, S, k, q)
         /\ \A k : Fits(k, p) <=> Fits(k, q)
<1>1. \A k : StatusAt(k, p) = StatusAt(k, q) /\ GroupAt(k, p) = GroupAt(k, q)
             /\ MutationsAt(k, p) = MutationsAt(k, q)
  BY DEF StatusAt, GroupAt, MutationsAt, Between
<1>2. \A S, k : Follows(S, k, p) <=> Follows(S, k, q)
  BY <1>1 DEF Follows, ByTicket, Untouched, JustAdmitted
<1>3. \A e, S, k : Counts(e, S, k, p) <=> Counts(e, S, k, q)
  BY <1>1 DEF Counts
<1>4. \A k : Fits(k, p) <=> Fits(k, q)
  BY <1>2, <1>3 DEF Fits
<1> QED
  BY <1>1, <1>2, <1>3, <1>4

-----------------------------------------------------------------------------
(* The steps of the two runs. *)

(* The loop goes to another place and the queues stay as they are.          *)
LEMMA PassKeepsFollow ==
  ASSUME FollowInv, Running, UNCHANGED <<qvars, phase, trace, states, index>>,
         \/ pc = pc' \/ {pc, pc'} \subseteq Between
         \/ {pc, pc'} \subseteq {"materialize", "complete"}
  PROVE  FollowInv'
<1>1. PICK k : k = Current
  OBVIOUS
<1>2. Current' = k /\ Running'
  BY <1>1 DEF Current, Running
<1>3. PICK p, q : p = pc /\ q = pc'
  OBVIOUS
<1>4. Snapshot' = Snapshot /\ InOrder(Snapshot)' = InOrder(Snapshot)
  BY DEF Snapshot, qvars, InOrder, Admitted
<1>5. /\ Follows(Snapshot, k, p) <=> Follows(Snapshot, k, q)
      /\ Counts(queue_epoch, Snapshot, k, p) <=> Counts(queue_epoch, Snapshot, k, q)
  BY <1>3, SamePlace DEF Between
<1>6. PICK S, e : S = Snapshot /\ e = queue_epoch
  OBVIOUS
<1>7. Follows(S, k, q)' /\ Counts(e, S, k, q)' /\ TraceTells'
  BY <1>1, <1>3, <1>5, <1>6, TraceFrame DEF FollowInv, RunFollows, Fits, Between
<1>8. Follows(Snapshot, k, q)' /\ Counts(queue_epoch, Snapshot, k, q)'
  BY <1>4, <1>6, <1>7 DEF qvars
<1>9. /\ CohortOf(k)' = CohortOf(k) /\ tickets' = tickets
      /\ status' = status /\ group' = group /\ version' = version
  BY TraceFrame DEF qvars
<1>10. Fits(k, q)'
  BY <1>1, <1>4, <1>8, <1>9 DEF FollowInv, RunFollows, Fits, Between
<1>11. q \notin Between => HasTicket(k, q)'
  BY <1>1, <1>3, <1>9 DEF FollowInv, RunFollows, HasTicket, IsFinal, Between
<1> QED
  BY <1>1, <1>2, <1>3, <1>7, <1>10, <1>11 DEF FollowInv, RunFollows, Between

(* Admission gives the next id to a chunk that no ticket has named yet.     *)
LEMMA AdmitKeepsFollow ==
  ASSUME TypeOK, ReplayTypeOK, FollowInv, NEW c, AdmitChunk(c)
  PROVE  FollowInv'
<1>1. PICK k, n : k = Current /\ n = NextId
  OBVIOUS
<1>2. Running' /\ Current' = k /\ pc = "admit" /\ pc' = "admitted" /\ Running
  BY <1>1 DEF AdmitChunk, Running, Current
<1>3. /\ k \in 0 .. Len(trace) /\ TraceTells /\ Fits(k, "admit")
      /\ Follows(Snapshot, k, "admit") /\ Counts(queue_epoch, Snapshot, k, "admit")
      /\ InOrder(Snapshot)
  BY <1>1, <1>2 DEF FollowInv, RunFollows, Fits, Between
<1>4. PICK S, e : S = Snapshot /\ e = queue_epoch
  OBVIOUS
<1>5. PICK T : T = Snapshot'
  OBVIOUS
<1>6. /\ S.status = status /\ S.group = group /\ S.version = version /\ S \in Snapshots
      /\ T.status = status' /\ T.group = group' /\ T.version = version'
  BY <1>4, <1>5, SnapshotType DEF Snapshot
<1>7. /\ n \in StateIds /\ status[n] = "NEW" /\ group[n] = 0 /\ version[n] = 0
      /\ n = Cardinality(Admitted(S)) /\ e \in Nat
  BY <1>1, <1>3, <1>4, <1>6 DEF AdmitChunk, Admit, NextId, Admitted, Fits, TypeOK
<1>8. /\ status' = SetStatus({n}, "READY") /\ group' = group /\ version' = BumpVersions({n})
      /\ queue_epoch' = e + 1 /\ tickets' = tickets /\ UNCHANGED <<trace, states>>
  BY <1>1, <1>4 DEF AdmitChunk, Admit, Bump
<1>9. \A s \in StateIds :
         /\ s # n => T.status[s] = S.status[s] /\ T.group[s] = S.group[s] /\ T.version[s] = S.version[s]
         /\ s = n => T.status[s] = "READY" /\ T.group[s] = 0 /\ T.version[s] = 1
  BY <1>6, <1>7, <1>8 DEF SetStatus, BumpVersions
<1>10. /\ Admitted(T) = Admitted(S) \cup {n} /\ n \notin Admitted(S)
       /\ Cardinality(Admitted(T)) = Cardinality(Admitted(S)) + 1
  <2>1. Admitted(T) = Admitted(S) \cup {n} /\ n \notin Admitted(S)
    BY <1>6, <1>7, <1>9 DEF Admitted
  <2> QED
    BY <2>1, AdmittedCounted, FS_AddElement
<1>11. InOrder(T)
  <2>1. Admitted(S) = 0 .. (n - 1) /\ n \in Nat /\ Cardinality(Admitted(T)) = n + 1
    BY <1>3, <1>4, <1>7, <1>10, AdmittedCounted DEF InOrder
  <2>2. Admitted(T) = 0 .. n
    BY <1>10, <2>1
  <2> QED
    BY <2>1, <2>2 DEF InOrder
<1>12. CohortOf(k) \in SUBSET StateIds /\ Before(k) \in Snapshots /\ EpochBefore(k) \in Nat
  BY <1>3, BeforeType
<1>13. Follows(T, k, "admit")
  <2>1. n \notin CohortOf(k)
    BY <1>3, <1>4, <1>6, <1>7 DEF Follows, ByTicket, StatusAt
  <2>2. \A s \in CohortOf(k) : ByTicket(T, k, "admit", s)
    BY <1>3, <1>4, <1>9, <1>12, <2>1 DEF Follows, ByTicket
  <2>3. ASSUME NEW s \in StateIds \ CohortOf(k) PROVE Untouched(T, k, s) \/ JustAdmitted(T, k, s)
    <3>1. Untouched(S, k, s) \/ JustAdmitted(S, k, s)
      BY <1>3, <1>4 DEF Follows
    <3> QED
      BY <1>6, <1>7, <1>9, <3>1 DEF Untouched, JustAdmitted
  <2> QED
    BY <2>2, <2>3 DEF Follows
<1>14. Counts(e + 1, T, k, "admit")
  <2>1. PICK a \in Nat, b \in Nat, d \in Nat, m \in Nat :
           /\ a = Cardinality(Admitted(Before(k))) /\ b = Cardinality(Admitted(S))
           /\ d = EpochBefore(k) /\ m = MutationsAt(k, "admit")
    BY <1>12, AdmittedCounted, MutationsCounted
  <2>2. e + a = d + m + b
    <3>1. e + Cardinality(Admitted(Before(k)))
             = EpochBefore(k) + MutationsAt(k, "admit") + Cardinality(Admitted(S))
      BY <1>3, <1>4 DEF Counts
    <3> QED
      BY <2>1, <3>1
  <2>3. (e + 1) + a = d + m + (b + 1)
    BY <1>7, <2>2, OneMore
  <2> QED
    BY <1>10, <2>1, <2>3 DEF Counts
<1>15. Follows(T, k, "admitted")' /\ Counts(e + 1, T, k, "admitted")' /\ TraceTells'
  BY <1>3, <1>8, <1>13, <1>14, SamePlace, TraceFrame DEF Between
<1>16. Fits(k, "admitted")'
  <2>1. InOrder(Snapshot)'
    BY <1>5, <1>11 DEF InOrder, Admitted
  <2>2. \A s \in StateIds : status'[s] = "NEW" => group'[s] = 0 /\ version'[s] = 0
    BY <1>3, <1>6, <1>9 DEF Fits
  <2> QED
    BY <1>5, <1>8, <1>15, <2>1, <2>2 DEF Fits
<1> QED
  BY <1>2, <1>3, <1>8, <1>15, <1>16 DEF FollowInv, RunFollows, Between

(* One more mutation moves the chunks of the ticket that is out, and those  *)
(* alone.                                                                   *)
LEMMA TicketMoves ==
  ASSUME TypeOK, ReplayTypeOK, TraceTells, UNCHANGED <<trace, states>>,
         NEW k \in 1 .. Len(trace), NEW p, NEW q, Fits(k, p),
         MutationsAt(k, q) = MutationsAt(k, p) + 1,
         status' = SetStatus(CohortOf(k), StatusAt(k, q)),
         \A s \in CohortOf(k) : group'[s] = GroupAt(k, q),
         \A s \in StateIds \ CohortOf(k) : group'[s] = group[s],
         version' = BumpVersions(CohortOf(k)), queue_epoch' = queue_epoch + 1
  PROVE  TraceTells' /\ Fits(k, q)'
<1>1. PICK S, e : S = Snapshot /\ e = queue_epoch
  OBVIOUS
<1>2. PICK T : T = Snapshot'
  OBVIOUS
<1>3. /\ S.status = status /\ S.group = group /\ S.version = version /\ S \in Snapshots
      /\ T.status = status' /\ T.group = group' /\ T.version = version' /\ e \in Nat
  BY <1>1, <1>2, SnapshotType DEF Snapshot, TypeOK
<1>4. Follows(S, k, p) /\ Counts(e, S, k, p) /\ InOrder(S)
  BY <1>1 DEF Fits
<1>5. CohortOf(k) \in SUBSET StateIds /\ Before(k) \in Snapshots /\ EpochBefore(k) \in Nat
  BY BeforeType
<1>6. \A s \in StateIds :
         /\ s \notin CohortOf(k) =>
              T.status[s] = S.status[s] /\ T.group[s] = S.group[s] /\ T.version[s] = S.version[s]
         /\ s \in CohortOf(k) =>
              /\ T.status[s] = StatusAt(k, q) /\ T.group[s] = GroupAt(k, q)
              /\ T.version[s] = S.version[s] + 1
  BY <1>3 DEF SetStatus, BumpVersions
<1>7. Follows(T, k, q)
  <2>1. ASSUME NEW s \in CohortOf(k) PROVE ByTicket(T, k, q, s)
    <3>1. S.version[s] = Before(k).version[s] + MutationsAt(k, p)
      BY <1>4 DEF Follows, ByTicket
    <3>2. PICK v \in Nat, m \in Nat : v = Before(k).version[s] /\ m = MutationsAt(k, p)
      BY <1>5, MutationsCounted DEF Snapshots
    <3>3. (v + m) + 1 = v + (m + 1)
      OBVIOUS
    <3>4. T.version[s] = Before(k).version[s] + MutationsAt(k, q)
      BY <1>5, <1>6, <3>1, <3>2, <3>3
    <3> QED
      BY <1>5, <1>6, <3>4 DEF ByTicket
  <2>2. ASSUME NEW s \in StateIds \ CohortOf(k) PROVE Untouched(T, k, s) \/ JustAdmitted(T, k, s)
    BY <1>4, <1>6 DEF Follows, Untouched, JustAdmitted
  <2> QED
    BY <2>1, <2>2 DEF Follows
<1>8. \A s \in CohortOf(k) : S.status[s] # "NEW" /\ T.status[s] # "NEW"
  BY <1>4, <1>5, <1>6 DEF Follows, ByTicket, StatusAt
<1>9. Admitted(T) = Admitted(S)
  BY <1>6, <1>8 DEF Admitted
<1>10. Counts(e + 1, T, k, q)
  <2>1. PICK a \in Nat, b \in Nat, d \in Nat, m \in Nat :
           /\ a = Cardinality(Admitted(Before(k))) /\ b = Cardinality(Admitted(S))
           /\ d = EpochBefore(k) /\ m = MutationsAt(k, p)
    BY <1>5, AdmittedCounted, MutationsCounted
  <2>2. e + a = d + m + b
    <3>1. e + Cardinality(Admitted(Before(k)))
             = EpochBefore(k) + MutationsAt(k, p) + Cardinality(Admitted(S))
      BY <1>4 DEF Counts
    <3> QED
      BY <2>1, <3>1
  <2>3. (e + 1) + a = d + (m + 1) + b
    BY <1>3, <2>2, OneMore
  <2> QED
    BY <1>9, <2>1, <2>3 DEF Counts
<1>11. Follows(T, k, q)' /\ Counts(e + 1, T, k, q)' /\ TraceTells'
  BY <1>7, <1>10, TraceFrame
<1>12. InOrder(Snapshot)'
  BY <1>2, <1>4, <1>9 DEF InOrder, Admitted
<1>13. \A s \in StateIds : status'[s] = "NEW" => group'[s] = 0 /\ version'[s] = 0
  BY <1>3, <1>6, <1>8 DEF Fits
<1> QED
  BY <1>1, <1>2, <1>11, <1>12, <1>13 DEF Fits

(* A reservation, made from what the trace says the queues held.            *)
LEMMA ReservationFits ==
  ASSUME TypeOK, NEW S \in SUBSET StateIds, NEW t, NEW g, Reserve(S, t, g),
         InOrder(Snapshot), \A s \in StateIds : status[s] = "NEW" => group[s] = 0 /\ version[s] = 0,
         NEW k, k # 0, Before(k)' = Snapshot, CohortOf(k)' = S, trace'[k].group = g,
         EpochBefore(k)' = queue_epoch
  PROVE  Fits(k, "reserved")'
<1>1. PICK B, e : B = Snapshot /\ e = queue_epoch
  OBVIOUS
<1>2. PICK T : T = Snapshot'
  OBVIOUS
<1>3. /\ B.status = status /\ B.group = group /\ B.version = version /\ B \in Snapshots
      /\ T.status = status' /\ T.group = group' /\ T.version = version' /\ e \in Nat
  BY <1>1, <1>2, SnapshotType DEF Snapshot, TypeOK
<1>4. \A s \in StateIds :
         /\ s \notin S =>
              T.status[s] = B.status[s] /\ T.group[s] = B.group[s] /\ T.version[s] = B.version[s]
         /\ s \in S =>
              /\ B.status[s] = "READY" /\ T.status[s] = "RESERVED" /\ T.group[s] = g
              /\ T.version[s] = B.version[s] + 1
  BY <1>3 DEF Reserve, SetStatus, BumpVersions
<1>5. Follows(T, k, "reserved")'
  <2>1. \A s \in S : ByTicket(T, k, "reserved", s)'
    BY <1>1, <1>4 DEF ByTicket, StatusAt, GroupAt, MutationsAt, Between
  <2>2. \A s \in StateIds \ S : Untouched(T, k, s)'
    BY <1>1, <1>4 DEF Untouched
  <2> QED
    BY <2>1, <2>2 DEF Follows
<1>6. Admitted(T) = Admitted(B)
  BY <1>4 DEF Admitted
<1>7. Counts(queue_epoch, T, k, "reserved")'
  <2>1. queue_epoch' = e + 1 /\ MutationsAt(k, "reserved")' = 1
    BY <1>1 DEF Reserve, Bump, MutationsAt
  <2>2. Admitted(Before(k))' = Admitted(B) /\ Admitted(T)' = Admitted(T)
    BY <1>1 DEF Admitted
  <2> QED
    BY <1>1, <1>3, <1>6, <2>1, <2>2, AdmittedCounted DEF Counts
<1>8. InOrder(Snapshot)'
  BY <1>1, <1>2, <1>6 DEF InOrder, Admitted
<1>9. \A s \in StateIds : status'[s] = "NEW" => group'[s] = 0 /\ version'[s] = 0
  BY <1>3, <1>4
<1> QED
  BY <1>2, <1>5, <1>7, <1>8, <1>9 DEF Fits

(* The steps of an iteration that change the queues move the ticket on.     *)
LEMMA IterationKeepsFollow ==
  ASSUME TypeOK, ReplayTypeOK, FollowInv, Dispatch \/ Complete \/ FinishChunks
  PROVE  FollowInv'
<1>1. PICK k, p, q : k = Current /\ p = pc /\ q = pc'
  OBVIOUS
<1>2. /\ Running /\ Running' /\ Current' = k /\ UNCHANGED <<trace, states, tickets>>
      /\ p \in {"reserved", "complete", "finalize"}
  BY <1>1 DEF Dispatch, Complete, FinishChunks, Running, Current, MarkRunning, CompleteGroup,
     CompleteFinalGroup, CompleteInnerGroup, Finalize
<1>3. k \in 1 .. Len(trace) /\ HasTicket(k, p) /\ Fits(k, p) /\ TraceTells
  BY <1>1, <1>2 DEF FollowInv, RunFollows, HasTicket, Between
<1>4. /\ StatesOf(k) = CohortOf(k) /\ tickets[k].group = trace[k].group
      /\ CohortOf(k) \in SUBSET StateIds
  BY <1>3, TraceFields DEF HasTicket, StatesOf
<1>5. \A s \in CohortOf(k) : group[s] = trace[k].group
  BY <1>2, <1>3, SnapshotType DEF Fits, Follows, ByTicket, GroupAt, Between
<1>6. /\ MutationsAt(k, q) = MutationsAt(k, p) + 1
      /\ status' = SetStatus(CohortOf(k), StatusAt(k, q))
      /\ \A s \in CohortOf(k) : group'[s] = GroupAt(k, q)
      /\ \A s \in StateIds \ CohortOf(k) : group'[s] = group[s]
      /\ version' = BumpVersions(CohortOf(k)) /\ queue_epoch' = queue_epoch + 1
      /\ q = "finalize" => IsFinal(trace[k].group)
  <2>1. CASE Dispatch
    <3>1. p = "reserved" /\ q \in {"materialize", "complete"} /\ MarkRunning(k)
      BY <1>1, <2>1 DEF Dispatch
    <3> QED
      BY <1>4, <1>5, <3>1 DEF MarkRunning, Bump, MutationsAt, StatusAt, GroupAt, Between
  <2>2. CASE Complete /\ IsFinal(tickets[Current].group)
    <3>1. p = "complete" /\ q = "finalize" /\ CompleteFinalGroup(k) /\ IsFinal(trace[k].group)
      BY <1>1, <1>4, <2>2 DEF Complete, CompleteGroup, CompleteInnerGroup
    <3> QED
      BY <1>4, <1>5, <3>1 DEF CompleteFinalGroup, CompletesGroup, Bump, MutationsAt, StatusAt, GroupAt, Between
  <2>3. CASE Complete /\ ~ IsFinal(tickets[Current].group)
    <3>1. p = "complete" /\ q = "admit" /\ CompleteInnerGroup(k) /\ ~ IsFinal(trace[k].group)
      BY <1>1, <1>4, <2>3 DEF Complete, CompleteGroup, CompleteFinalGroup
    <3>2. k # 0 /\ MutationsAt(k, q) = 3 /\ MutationsAt(k, p) = 2
      BY <1>3, <3>1 DEF MutationsAt
    <3> QED
      BY <1>4, <1>5, <3>1, <3>2 DEF CompleteInnerGroup, CompletesGroup, Bump, Moved, StatusAt, GroupAt, Between
  <2>4. CASE FinishChunks
    <3>1. p = "finalize" /\ q = "admit" /\ Finalize(k) /\ IsFinal(trace[k].group)
      BY <1>1, <1>3, <2>4 DEF FinishChunks, HasTicket
    <3>2. k # 0 /\ MutationsAt(k, q) = 4 /\ MutationsAt(k, p) = 3
      BY <1>3, <3>1 DEF MutationsAt
    <3> QED
      BY <1>4, <1>5, <3>1, <3>2 DEF Finalize, Bump, StatusAt, GroupAt, Between
  <2> QED
    BY <2>1, <2>2, <2>3, <2>4
<1>7. TraceTells' /\ Fits(k, q)'
  BY <1>2, <1>3, <1>6, TicketMoves
<1>8. HasTicket(k, q)'
  BY <1>2, <1>3, <1>6 DEF HasTicket, CohortOf, IsFinal
<1> QED
  BY <1>1, <1>2, <1>3, <1>7, <1>8 DEF FollowInv, RunFollows, Between

(* Whether a chunk was admitted or not makes no difference to the ticket.   *)
LEMMA SelectingFits == ASSUME NEW k, Fits(k, pc), Selecting PROVE Fits(k, "select")
<1>1. {pc, "select"} \subseteq Between
  BY DEF Selecting, Between
<1> QED
  BY <1>1, SamePlace DEF Between

(* A recorded ticket adds what it finds in the queues to the trace.         *)
LEMMA PlanKeepsFollow ==
  ASSUME QInv, ReplayTypeOK, FollowInv, NEW g \in Groups, NEW S \in SUBSET ready_ids[g], Plan(S, g)
  PROVE  FollowInv'
<1>0. TypeOK
  BY DEF QInv
<1>1. PICK m, k, d, e, B :
         m = Len(trace) /\ k = Len(trace) + 1 /\ d = Planned(S, k, g) /\ e = queue_epoch /\ B = Snapshot
  OBVIOUS
<1>2. /\ phase = "recording" /\ phase' = "recording" /\ Selecting /\ pc' = "reserved"
      /\ Reserve(S, k, g) /\ k \in TicketIds
      /\ trace' = Append(trace, d) /\ states' = Append(states, B)
  BY <1>1 DEF Plan
<1>3. /\ Len(trace) \in Nat /\ k = Len(trace) + 1 /\ Current = Len(trace)
      /\ TraceTells /\ Fits(Len(trace), "select")
  BY <1>1, <1>2, SelectingFits DEF ReplayTypeOK, FollowInv, RunFollows, Current, Running, Between
<1>4. d \in PlannedTicket /\ B \in Snapshots /\ e \in Nat /\ S \in SUBSET StateIds
  BY <1>0, <1>1, <1>2, PlannedType, SnapshotType DEF TypeOK
<1>5. /\ Len(trace') = k /\ trace'[k] = d /\ \A j \in 1 .. Len(trace) : trace'[j] = trace[j]
  BY <1>2, <1>3, <1>4 DEF ReplayTypeOK
<1>6. /\ states' \in Seq(Snapshots) /\ Len(states') = k /\ states'[k] = B
      /\ \A j \in 1 .. Len(trace) : states'[j] = states[j]
  BY <1>2, <1>3, <1>4 DEF TraceTells
<1>7. /\ d.ticket = k /\ d.group = g /\ d.epoch = e + 1 /\ DOMAIN d.chunks = S
      /\ \A s \in S : d.versions[s] = version[s] + 1
  BY <1>1, <1>4 DEF Planned, TicketVersions
<1>8. Before(k)' = B /\ CohortOf(k)' = S /\ EpochBefore(k)' = e /\ k # 0
  BY <1>3, <1>4, <1>5, <1>6, <1>7 DEF Before, CohortOf, EpochBefore
<1>9. Fits(k, "reserved")'
  <2>1. /\ InOrder(Snapshot)
        /\ \A s \in StateIds : status[s] = "NEW" => group[s] = 0 /\ version[s] = 0
    BY <1>3 DEF Fits
  <2>2. Before(k)' = Snapshot /\ EpochBefore(k)' = queue_epoch /\ trace'[k].group = g
    BY <1>1, <1>5, <1>7, <1>8
  <2> QED
    BY <1>0, <1>2, <1>4, <1>8, <2>1, <2>2, ReservationFits
<1>10. \A j \in 0 .. Len(trace) :
          Before(j)' = Before(j) /\ CohortOf(j)' = CohortOf(j) /\ EpochBefore(j)' = EpochBefore(j)
  BY <1>3, <1>5, <1>6 DEF Before, CohortOf, EpochBefore
<1>11. ASSUME NEW j \in 1 .. Len(trace) PROVE TellsQueues(j)'
  <2>1. TellsQueues(j) /\ j \in 0 .. Len(trace)
    BY <1>3 DEF TraceTells
  <2>2. trace'[j] = trace[j] /\ states'[j] = states[j] /\ CohortOf(j)' = CohortOf(j)
    BY <1>5, <1>6, <1>10, <2>1
  <2> QED
    BY <2>1, <2>2 DEF TellsQueues, InOrder, Admitted
<1>12. TellsQueues(k)'
  <2>1. InOrder(B)' /\ e + 1 > 0
    BY <1>1, <1>3, <1>4 DEF Fits, InOrder, Admitted
  <2>2. \A s \in S : B.status[s] = "READY" /\ B.group[s] = g /\ B.version[s] = version[s]
    BY <1>0, <1>1, <1>2, <1>4, SnapshotType DEF Reserve
  <2> QED
    BY <1>5, <1>6, <1>7, <1>8, <2>1, <2>2 DEF TellsQueues, InOrder, Admitted
<1>13. ASSUME NEW j \in 0 .. (Len(trace) - 1) PROVE Chains(j)'
  <2>1. Chains(j) /\ j \in 0 .. Len(trace) /\ j + 1 \in 1 .. Len(trace) /\ j + 1 \in 0 .. Len(trace)
    BY <1>3 DEF TraceTells
  <2>2. j # 0 => trace'[j] = trace[j]
    BY <1>5, <2>1
  <2>3. /\ MutationsAt(j, "admit")' = MutationsAt(j, "admit")
        /\ j # 0 => /\ StatusAt(j, "admit")' = StatusAt(j, "admit")
                    /\ GroupAt(j, "admit")' = GroupAt(j, "admit")
        /\ j = 0 => CohortOf(j) = {}
    BY <2>2 DEF StatusAt, GroupAt, MutationsAt, CohortOf, Between
  <2>4. states'[j + 1] = states[j + 1] /\ Before(j)' = Before(j) /\ CohortOf(j)' = CohortOf(j)
        /\ EpochBefore(j)' = EpochBefore(j) /\ EpochBefore(j + 1)' = EpochBefore(j + 1)
    BY <1>6, <1>10, <2>1
  <2>5. Follows(states[j + 1], j, "admit")'
    BY <2>1, <2>3, <2>4 DEF Chains, Follows, ByTicket, Untouched, JustAdmitted
  <2>6. Counts(EpochBefore(j + 1), states[j + 1], j, "admit")'
    BY <2>1, <2>3, <2>4 DEF Chains, Counts, Admitted
  <2> QED
    BY <2>5, <2>6 DEF Chains
<1>14. Chains(m)'
  <2>1. m + 1 = k /\ m \in 0 .. Len(trace) /\ Follows(B, m, "admit") /\ Counts(e, B, m, "admit")
    BY <1>1, <1>3, SamePlace DEF Fits, Between
  <2>2. m # 0 => trace'[m] = trace[m]
    BY <1>1, <1>3, <1>5
  <2>3. /\ MutationsAt(m, "admit")' = MutationsAt(m, "admit")
        /\ m # 0 => /\ StatusAt(m, "admit")' = StatusAt(m, "admit")
                    /\ GroupAt(m, "admit")' = GroupAt(m, "admit")
        /\ m = 0 => CohortOf(m) = {}
    BY <2>2 DEF StatusAt, GroupAt, MutationsAt, CohortOf, Between
  <2>4. states'[m + 1] = B /\ Before(m)' = Before(m) /\ CohortOf(m)' = CohortOf(m)
        /\ EpochBefore(m)' = EpochBefore(m) /\ EpochBefore(m + 1)' = e
    BY <1>6, <1>8, <1>10, <2>1
  <2>5. Follows(states[m + 1], m, "admit")'
    BY <2>1, <2>3, <2>4 DEF Follows, ByTicket, Untouched, JustAdmitted
  <2>6. Counts(EpochBefore(m + 1), states[m + 1], m, "admit")'
    BY <2>1, <2>3, <2>4 DEF Counts, Admitted
  <2> QED
    BY <2>5, <2>6 DEF Chains
<1>15. TraceTells'
  <2>1. \A j \in 1 .. k : j \in 1 .. Len(trace) \/ j = k
    BY <1>3
  <2>2. \A j \in 0 .. (k - 1) : j \in 0 .. (Len(trace) - 1) \/ j = m
    BY <1>1, <1>3
  <2>3. \A j \in 1 .. k : TellsQueues(j)'
    BY <1>11, <1>12, <2>1
  <2>4. \A j \in 0 .. (k - 1) : Chains(j)'
    BY <1>13, <1>14, <2>2
  <2> QED
    BY <1>5, <1>6, <2>3, <2>4 DEF TraceTells
<1>16. HasTicket(k, "reserved")'
  <2>1. tickets'[k] = [group |-> g, states |-> S, versions |-> TicketVersions(S)]
    BY <1>0, <1>2 DEF Reserve, TypeOK
  <2> QED
    BY <1>3, <1>5, <1>7, <1>8, <2>1 DEF HasTicket
<1>17. Current' = k /\ k \in 0 .. k
  BY <1>2, <1>3, <1>5 DEF Current
<1> QED
  BY <1>2, <1>5, <1>9, <1>15, <1>16, <1>17 DEF FollowInv, RunFollows, Between

(* Nothing has happened at the start of either run.                         *)
LEMMA NothingYet == QInit => Fits(0, "admit")
<1> SUFFICES ASSUME QInit PROVE Fits(0, "admit")
  OBVIOUS
<1>1. Snapshot = AllNew
  BY DEF QInit, Snapshot, AllNew
<1>2. PICK B : B = AllNew
  OBVIOUS
<1>3. Admitted(B) = {} /\ Cardinality({}) = 0
  BY <1>2, FS_EmptySet DEF Admitted, AllNew
<1>4. InOrder(B)
  BY <1>3 DEF InOrder
<1>5. Before(0) = B /\ CohortOf(0) = {} /\ EpochBefore(0) = 0 /\ MutationsAt(0, "admit") = 0
  BY <1>2 DEF Before, CohortOf, EpochBefore, MutationsAt
<1>6. Follows(B, 0, "admit") /\ Counts(0, B, 0, "admit")
  BY <1>3, <1>5 DEF Follows, Untouched, Counts
<1> QED
  BY <1>1, <1>2, <1>4, <1>6 DEF Fits, QInit

(* The second process starts where the first did, with the trace it left.   *)
LEMMA RestartKeepsFollow == ASSUME ReplayTypeOK, FollowInv, Restart PROVE FollowInv'
<1>1. QInit'
  BY DEF Restart, QInit, Unissued
<1>2. Fits(0, "admit")'
  BY <1>1, NothingYet, PTL
<1>3. TraceTells' /\ Len(trace') \in Nat /\ pc' = "admit"
  BY TraceFrame DEF FollowInv, Restart, ReplayTypeOK
<1>4. Running' => Current' = 0
  BY DEF Restart, Running, Current
<1> QED
  BY <1>2, <1>3, <1>4 DEF FollowInv, RunFollows, Between

(* What is frozen of a ticket and the epoch decide: the replay goes on just *)
(* when everything is as it was.                                            *)
LEMMA FrozenDecides ==
  ASSUME TypeOK, ReplayTypeOK, FollowInv, Due
  PROVE  (\A s \in Cohort : AsRecorded(s)) /\ SameEpoch <=> SameAsRecorded
<1>1. PICK k, S, T, e : k = index /\ S = Snapshot /\ T = states[index + 1] /\ e = queue_epoch
  OBVIOUS
<1>2. /\ k \in 0 .. (Len(trace) - 1) /\ k \in 0 .. Len(trace) /\ k + 1 \in 1 .. Len(trace)
      /\ k + 1 # 0 /\ TraceTells /\ Fits(k, "select")
  BY <1>1, SelectingFits DEF FollowInv, RunFollows, Due, Running, Current, Exhausted, ReplayTypeOK, Between
<1>3. Chains(k) /\ TellsQueues(k + 1)
  BY <1>2 DEF TraceTells
<1>4. /\ S \in Snapshots /\ S.status = status /\ S.group = group /\ S.version = version /\ e \in Nat
      /\ T \in Snapshots
  <2>1. Before(k + 1) = T /\ k + 1 \in 0 .. Len(trace)
    BY <1>1, <1>2 DEF Before
  <2> QED
    BY <1>1, <1>2, <2>1, SnapshotType, BeforeType DEF TypeOK
<1>5. /\ Follows(S, k, "admit") /\ Counts(e, S, k, "admit") /\ InOrder(S)
      /\ Follows(T, k, "admit") /\ Counts(EpochBefore(k + 1), T, k, "admit") /\ InOrder(T)
  BY <1>1, <1>2, <1>3, SamePlace DEF Fits, Chains, TellsQueues, Between
<1>6. /\ EpochBefore(k + 1) = Expected.epoch - 1 /\ Expected.epoch \in Nat /\ EpochBefore(k) \in Nat
      /\ Cohort = CohortOf(k + 1) /\ Expected = trace[k + 1] /\ Cohort \in SUBSET StateIds
  BY <1>1, <1>2, TraceFields, BeforeType DEF EpochBefore, Expected, Cohort
<1>7. SameEpoch <=> Cardinality(Admitted(S)) = Cardinality(Admitted(T))
  <2>1. PICK a \in Nat, b \in Nat, c \in Nat, d \in Nat, m \in Nat, x \in Nat :
           /\ a = Cardinality(Admitted(S)) /\ b = Cardinality(Admitted(T))
           /\ c = Cardinality(Admitted(Before(k))) /\ d = EpochBefore(k)
           /\ m = MutationsAt(k, "admit") /\ x = Expected.epoch
    BY <1>6, AdmittedCounted, MutationsCounted
  <2>2. e + c = d + m + a /\ (x - 1) + c = d + m + b
    BY <1>5, <1>6, <2>1 DEF Counts
  <2>3. e + 1 = x <=> a = b
    BY <1>4, <2>1, <2>2
  <2> QED
    BY <1>1, <2>1, <2>3 DEF SameEpoch
<1>8. Snapshot = states[index + 1] <=> SameEpoch
  BY <1>1, <1>2, <1>4, <1>5, <1>7, SameSnapshot
<1>9. ASSUME S = T, NEW s \in Cohort, chunkOf[s] = Expected.chunks[s] PROVE AsRecorded(s)
  <2>1. /\ T.status[s] = "READY" /\ T.group[s] = Expected.group
        /\ Expected.versions[s] = T.version[s] + 1
    BY <1>1, <1>3, <1>6 DEF TellsQueues
  <2> QED
    BY <1>4, <1>9, <2>1 DEF AsRecorded
<1>10. \A s \in Cohort : AsRecorded(s) => chunkOf[s] = Expected.chunks[s]
  BY DEF AsRecorded
<1> QED
  BY <1>1, <1>8, <1>9, <1>10 DEF SameAsRecorded

(* A replayed ticket is the recorded one, reserved from the same queues.    *)
LEMMA ReplayNextKeepsFollow ==
  ASSUME TypeOK, ReplayTypeOK, FollowInv, ReplayNext
  PROVE  FollowInv'
<1>1. PICK k, S : k = index + 1 /\ S = Cohort
  OBVIOUS
<1>2. /\ phase = "replaying" /\ phase' = "replaying" /\ index' = k /\ pc' = "reserved"
      /\ UNCHANGED <<trace, states>>
      /\ Reserve(S, Expected.ticket, Expected.group) /\ Expected = trace[k] /\ SameEpoch /\ Due
  BY <1>1 DEF ReplayNext, Due, Expected
<1>3. k \in 1 .. Len(trace) /\ k # 0 /\ TraceTells /\ Fits(index, "select")
  BY <1>1, <1>2, SelectingFits DEF FollowInv, RunFollows, Due, Running, Current, Exhausted, ReplayTypeOK, Between
<1>4. Snapshot = states[k]
  BY <1>1, <1>2, FrozenDecides DEF ReplayNext, SameAsRecorded
<1>5. /\ CohortOf(k) = S /\ S \in SUBSET StateIds /\ trace[k].epoch \in Nat
      /\ trace[k].ticket = k /\ k \in TicketIds
  BY <1>1, <1>2, <1>3, TraceFields DEF Cohort, TraceTells, TellsQueues, PlannedTicket
<1>6. Before(k)' = Snapshot /\ CohortOf(k)' = S /\ EpochBefore(k)' = queue_epoch
  <2>1. queue_epoch + 1 = trace[k].epoch /\ queue_epoch \in Nat
    BY <1>2 DEF SameEpoch, TypeOK
  <2> QED
    BY <1>2, <1>3, <1>4, <1>5, <2>1 DEF Before, CohortOf, EpochBefore
<1>7. Fits(k, "reserved")'
  <2>1. /\ InOrder(Snapshot)
        /\ \A s \in StateIds : status[s] = "NEW" => group[s] = 0 /\ version[s] = 0
    BY <1>3 DEF Fits
  <2>2. Reserve(S, trace[k].ticket, trace[k].group) /\ trace'[k].group = trace[k].group
    BY <1>2
  <2> QED
    BY <1>3, <1>5, <1>6, <2>1, <2>2, ReservationFits
<1>8. HasTicket(k, "reserved")'
  <2>1. tickets'[k] = [group |-> trace[k].group, states |-> S, versions |-> TicketVersions(S)]
    BY <1>2, <1>5 DEF Reserve, TypeOK
  <2> QED
    BY <1>2, <1>3, <1>6, <2>1 DEF HasTicket
<1>9. TraceTells' /\ Current' = k /\ Len(trace') = Len(trace) /\ Len(trace) \in Nat
  BY <1>2, <1>3, TraceFrame DEF Current, ReplayTypeOK
<1> QED
  BY <1>2, <1>3, <1>7, <1>8, <1>9 DEF FollowInv, RunFollows, Between

(* Every step of either run keeps what the trace tells.                     *)
LEMMA NextKeepsFollow == RInv /\ FollowInv /\ [Next]_vars => FollowInv'
<1> SUFFICES ASSUME RInv, FollowInv, [Next]_vars PROVE FollowInv'
  OBVIOUS
<1>0. QInv /\ TypeOK /\ ReplayTypeOK
  BY DEF RInv, QInv
<1>1. ASSUME NEW c \in Chunks, AdmitChunk(c) PROVE FollowInv'
  BY <1>0, <1>1, AdmitKeepsFollow
<1>2. ASSUME NEW g \in Groups, NEW S \in SUBSET ready_ids[g], Plan(S, g) PROVE FollowInv'
  BY <1>0, <1>2, PlanKeepsFollow
<1>3. CASE Restart
  BY <1>0, <1>3, RestartKeepsFollow
<1>4. CASE ReplayNext
  BY <1>0, <1>4, ReplayNextKeepsFollow
<1>5. CASE EpochDiffers \/ Diverged \/ NotSchedulable
  <2>1. ~ Running' /\ UNCHANGED <<trace, states>>
    BY <1>5 DEF EpochDiffers, Diverged, NotSchedulable, Stops, Running
  <2> QED
    BY <2>1, TraceFrame DEF FollowInv, RunFollows, Between
<1>6. CASE Dispatch \/ Complete \/ FinishChunks
  BY <1>0, <1>6, IterationKeepsFollow
<1>7. CASE SkipAdmission \/ NothingReady \/ Await \/ Materialize
  BY <1>7, PassKeepsFollow DEF SkipAdmission, NothingReady, Await, Materialize, Running, Between
<1>8. CASE UNCHANGED vars
  <2>1. CASE Running
    BY <1>8, <2>1, PassKeepsFollow DEF vars, rvars
  <2>2. CASE ~ Running
    <3>1. ~ Running' /\ UNCHANGED <<trace, states>>
      BY <1>8, <2>2 DEF vars, rvars, Running
    <3> QED
      BY <3>1, TraceFrame DEF FollowInv, RunFollows, Between
  <2> QED
    BY <2>1, <2>2
<1> QED
  BY <1>1, <1>2, <1>3, <1>4, <1>5, <1>6, <1>7, <1>8 DEF Next, Loop, Ended

(* The recording starts with nothing in the queues or in the trace.         *)
LEMMA InitEstablishesFollow == Init => FollowInv
<1> SUFFICES ASSUME Init PROVE FollowInv
  OBVIOUS
<1>1. Fits(0, "admit")
  BY NothingYet DEF Init
<1>2. Len(trace) = 0 /\ TraceTells /\ Running /\ Current = 0 /\ pc = "admit"
  BY DEF Init, TraceTells, Running, Current
<1> QED
  BY <1>1, <1>2 DEF FollowInv, RunFollows, Between

(* Whatever the two runs are at, the trace tells what happened to every     *)
(* chunk between one ticket and the next, and the run agrees with it.       *)
THEOREM ReplayFollowsRecording == Spec => []FollowInv
BY InitEstablishesFollow, NextKeepsFollow, ReplayInvariant, PTL DEF Spec

(* A replay hands out its next ticket exactly when the queues hold what they*)
(* held when it was recorded: no other state passes, and none is turned     *)
(* away that does follow the recording.                                     *)
THEOREM GoesOnAsRecorded == Spec => GoesOnExactlyAsRecorded
<1>1. RInv /\ FollowInv /\ [Next]_vars => [Due => (index' = index + 1 <=> SameAsRecorded)]_vars
  <2> SUFFICES ASSUME RInv, FollowInv, Next, Due, ~ UNCHANGED vars
               PROVE  index' = index + 1 <=> SameAsRecorded
    OBVIOUS
  <2>1. (\A s \in Cohort : AsRecorded(s)) /\ SameEpoch <=> SameAsRecorded
    BY FrozenDecides DEF RInv, QInv
  <2>2. index \in Nat /\ phase = "replaying" /\ Selecting
    BY DEF RInv, ReplayTypeOK, Due
  <2>3. ReplayNext \/ Diverged \/ EpochDiffers
    BY <2>2 DEF Next, Loop, AdmitChunk, SkipAdmission, Plan, NothingReady, Restart, Await,
       NotSchedulable, Dispatch, Materialize, Complete, FinishChunks, Ended, Running, Selecting
  <2>4. CASE ReplayNext
    BY <2>1, <2>4 DEF ReplayNext
  <2>5. CASE Diverged \/ EpochDiffers
    BY <2>1, <2>2, <2>5 DEF Diverged, EpochDiffers, Stops
  <2> QED
    BY <2>3, <2>4, <2>5
<1> QED
  BY <1>1, ReplayInvariant, ReplayFollowsRecording, PTL DEF Spec, GoesOnExactlyAsRecorded

=============================================================================
