------------------------ MODULE StageSchedulerProofs ------------------------
(***************************************************************************)
(* Proofs about StageScheduler for every number of places and groups and   *)
(* every cohort size, window, streak bound and policy.                     *)
(***************************************************************************)
EXTENDS StageScheduler, FiniteSetTheorems, WellFoundedInduction, TLAPS

(* Age is a strict total order on what is in flight, deadlines pass in its  *)
(* order, and no chunk fails while the loop is alive.                       *)
AgeOrder ==
    /\ older \subseteq InFlight \X InFlight
    /\ \A c \in Chunks : <<c, c>> \notin older
    /\ \A c, d, e \in Chunks : <<c, d>> \in older /\ <<d, e>> \in older => <<c, e>> \in older
    /\ \A c, d \in InFlight : c # d => <<c, d>> \in older \/ <<d, c>> \in older

ExpiredInOrder ==
    /\ expired \subseteq InFlight
    /\ \A c, d \in Chunks : <<c, d>> \in older /\ d \in expired => c \in expired

NoneFailed == alive => \A c \in Chunks : status[c] # "FAILED"

(* A free place is at the entry of the pipeline.                            *)
FreePlacesAtEntry == \A c \in Chunks : status[c] = "OUT" => group[c] = 0

(* A fifo ticket leaves nothing older behind at its group.                  *)
FifoTicketIsPrefix ==
    policy = "fifo" /\ alive =>
        \A c \in InFlight, d \in ticket.states :
            <<c, d>> \in older /\ group[c] = ticket.group => c \in ticket.states

SInv ==
    /\ TypeOK
    /\ AgeOrder
    /\ ExpiredInOrder
    /\ NoneFailed
    /\ FreePlacesAtEntry
    /\ TicketOwnsWhatIsOut
    /\ AnchorIsOldest
    /\ FifoTicketIsPrefix
    /\ FifoNeverOvertakes

(* The empty pipeline satisfies the invariant.                              *)
LEMMA InitEstablishesSInv == Init => SInv
<1> SUFFICES ASSUME Init PROVE SInv
  OBVIOUS
<1> USE SchedulerAssumption DEF Init, NoTicket
<1>1. TypeOK
  BY DEF TypeOK, Statuses, Groups, NoGroup
<1>2. AgeOrder /\ ExpiredInOrder /\ NoneFailed /\ FreePlacesAtEntry
  BY DEF AgeOrder, ExpiredInOrder, NoneFailed, FreePlacesAtEntry, InFlight
<1>3. TicketOwnsWhatIsOut /\ AnchorIsOldest /\ FifoTicketIsPrefix /\ FifoNeverOvertakes
  BY DEF TicketOwnsWhatIsOut, AnchorIsOldest, FifoTicketIsPrefix, FifoNeverOvertakes, InFlight
<1> QED
  BY <1>1, <1>2, <1>3 DEF SInv

(* The first n of a set are closed under age.                               *)
LEMMA FirstOfIsPrefix ==
  ASSUME TypeOK, AgeOrder, NEW S \in SUBSET Chunks, NEW n \in Nat,
         NEW c \in S, NEW d \in FirstOf(S, n), <<c, d>> \in older
  PROVE  c \in FirstOf(S, n)
<1>1. OlderIn(S, c) \subseteq OlderIn(S, d)
  BY DEF OlderIn, AgeOrder, FirstOf
<1>2. IsFiniteSet(OlderIn(S, d))
  BY FS_Subset, SchedulerAssumption DEF OlderIn
<1>3. /\ Cardinality(OlderIn(S, c)) <= Cardinality(OlderIn(S, d))
      /\ Cardinality(OlderIn(S, c)) \in Nat /\ Cardinality(OlderIn(S, d)) \in Nat
  BY <1>1, <1>2, FS_Subset, FS_CardinalityType
<1> QED
  BY <1>3 DEF FirstOf

(* So is a cohort built around the oldest chunk of its group.               *)
LEMMA CohortIsPrefix ==
  ASSUME TypeOK, AgeOrder, NEW a \in Chunks, IsOldestOf(a, Ready(group[a])),
         NEW c \in Ready(group[a]), NEW d \in CohortWithAnchor(a), <<c, d>> \in older
  PROVE  c \in CohortWithAnchor(a)
<1> DEFINE g == group[a]
           W == Window(g)
<1>1. CandidateWindow \in Nat /\ CohortSize - 1 \in Nat
  BY SchedulerAssumption
<1>2. d # a
  BY DEF IsOldestOf, OlderIn
<1>3. d \in FirstOf(W \ {a}, CohortSize - 1) /\ d \in FirstOf(Ready(g), CandidateWindow)
  BY <1>2 DEF CohortWithAnchor, FirstOf, Window
<1>4. c \in W
  BY <1>1, <1>3, FirstOfIsPrefix DEF Window, Ready
<1>5. CASE c = a
  BY <1>5 DEF CohortWithAnchor
<1>6. CASE c # a
  <2>1. W \ {a} \in SUBSET Chunks
    BY DEF Window, FirstOf, Ready
  <2> QED
    BY <1>1, <1>3, <1>4, <1>6, <2>1, FirstOfIsPrefix DEF CohortWithAnchor
<1> QED
  BY <1>5, <1>6

-----------------------------------------------------------------------------
(* What choose_next builds: the oldest chunk of a group and a cohort that   *)
(* leaves nothing older behind at that group.                               *)
LEMMA CohortIsReady ==
  ASSUME NEW a \in Chunks, a \in Ready(group[a])
  PROVE  CohortWithAnchor(a) \in SUBSET Ready(group[a])
BY DEF CohortWithAnchor, FirstOf, Window

(* The oldest expired chunk is the oldest of its group, because deadlines   *)
(* pass in the order of age.                                                *)
LEMMA ExpiredAnchorIsOldest ==
  ASSUME TypeOK, ExpiredInOrder, NEW a \in Chunks, OldestExpired(a)
  PROVE  IsOldestOf(a, Ready(group[a]))
<1>1. a \in Ready(group[a])
  BY DEF OldestExpired, IsOldestOf, Ready
<1>2. ASSUME NEW d \in Ready(group[a]), <<d, a>> \in older PROVE FALSE
  <2>1. d \in expired /\ status[d] = "READY"
    BY <1>2 DEF ExpiredInOrder, Ready, OldestExpired, IsOldestOf
  <2> QED
    BY <1>2, <2>1 DEF OldestExpired, IsOldestOf, OlderIn
<1> QED
  BY <1>1, <1>2 DEF IsOldestOf, OlderIn

(* The fifo anchor is the oldest of its group as well.                      *)
LEMMA FifoAnchorIsOldest ==
  ASSUME TypeOK, NEW a \in Chunks, FifoAnchor(a)
  PROVE  IsOldestOf(a, Ready(group[a]))
<1>1. PICK g \in AnchorGroups : a \in Ready(g)
  BY DEF FifoAnchor, IsOldestOf
<1>2. g = group[a]
  BY <1>1 DEF Ready
<1>3. Ready(g) \subseteq UNION {Ready(h) : h \in AnchorGroups}
  OBVIOUS
<1> QED
  BY <1>1, <1>2, <1>3 DEF FifoAnchor, IsOldestOf, OlderIn

(* Reserving such a cohort keeps the invariant.                             *)
LEMMA ReservePreservesSInv ==
  ASSUME SInv, Idle, NEW g \in Groups, NEW S \in SUBSET Ready(g),
         \E a \in S : IsOldestOf(a, Ready(g)),
         policy = "fifo" => \A c \in Ready(g), d \in S : <<c, d>> \in older => c \in S,
         ReserveCandidate(g, S)
  PROVE  SInv'
<1> USE DEF SInv, Idle
<1>1. TypeOK'
  BY DEF TypeOK, ReserveCandidate, Ready, Statuses
<1>2. /\ InFlight' = InFlight /\ older' = older /\ group' = group /\ expired' = expired
      /\ policy' = policy
  BY DEF InFlight, ReserveCandidate, Ready, TypeOK
<1>3. AgeOrder' /\ ExpiredInOrder' /\ FifoNeverOvertakes'
  BY <1>2 DEF AgeOrder, ExpiredInOrder, FifoNeverOvertakes
<1>4. NoneFailed' /\ FreePlacesAtEntry'
  BY DEF NoneFailed, FreePlacesAtEntry, ReserveCandidate, TypeOK
<1>5. \A c \in Chunks : status[c] \in {"OUT", "READY"}
  BY DEF TicketOwnsWhatIsOut, NoneFailed, TypeOK, Statuses, NoTicket
<1>6. TicketOwnsWhatIsOut'
  BY <1>5 DEF TicketOwnsWhatIsOut, ReserveCandidate, Ready, TypeOK
<1>7. AnchorIsOldest'
  <2>1. PICK a \in S : IsOldestOf(a, Ready(g))
    OBVIOUS
  <2>2. ASSUME NEW c \in Ready(g)' PROVE <<a, c>> \in older'
    <3>1. c \in Ready(g) /\ c \notin S
      BY <2>2 DEF Ready, ReserveCandidate, TypeOK
    <3>2. a \in InFlight /\ c \in InFlight /\ a # c
      BY <3>1 DEF Ready, InFlight
    <3> QED
      BY <1>2, <2>1, <3>1, <3>2 DEF AgeOrder, IsOldestOf, OlderIn
  <2>3. ticket'.states = S /\ ticket'.group = g
    BY DEF ReserveCandidate
  <2> QED
    BY <2>2, <2>3 DEF AnchorIsOldest, ReserveCandidate
<1>8. FifoTicketIsPrefix'
  <2>1. ticket'.states = S /\ ticket'.group = g
    BY DEF ReserveCandidate
  <2>2. ASSUME policy = "fifo", NEW c \in InFlight, NEW d \in S,
               <<c, d>> \in older, group[c] = g
        PROVE  c \in S
    BY <1>5, <2>2 DEF InFlight, Ready
  <2> QED
    BY <1>2, <2>1, <2>2 DEF FifoTicketIsPrefix
<1> QED
  BY <1>1, <1>3, <1>4, <1>6, <1>7, <1>8

(* So choose_next preserves the invariant, whatever the policy prefers.     *)
LEMMA ChoosePreservesSInv == SInv /\ ChooseNext => SInv'
<1> SUFFICES ASSUME SInv, ChooseNext PROVE SInv'
  OBVIOUS
<1> USE DEF SInv
<1>1. ASSUME Idle, NEW a \in Chunks, IsOldestOf(a, Ready(group[a])),
             ReserveCandidate(group[a], CohortWithAnchor(a))
      PROVE  SInv'
  <2> DEFINE S == CohortWithAnchor(a)
  <2>1. S \in SUBSET Ready(group[a]) /\ a \in S /\ group[a] \in Groups
    BY <1>1, CohortIsReady DEF CohortWithAnchor, IsOldestOf, TypeOK
  <2>2. \A c \in Ready(group[a]), d \in S : <<c, d>> \in older => c \in S
    BY <1>1, CohortIsPrefix
  <2>3. \E b \in S : IsOldestOf(b, Ready(group[a]))
    BY <1>1, <2>1
  <2> HIDE DEF S
  <2>4. ReserveCandidate(group[a], S)
    BY <1>1 DEF S
  <2> QED
    BY <1>1, <2>1, <2>2, <2>3, <2>4, ReservePreservesSInv
<1>2. CASE ChooseExpired
  BY <1>1, <1>2, ExpiredAnchorIsOldest DEF ChooseExpired
<1>3. CASE ChooseFifo
  BY <1>1, <1>3, FifoAnchorIsOldest DEF ChooseFifo
<1>4. CASE ChooseScored
  <2>1. PICK g \in EligibleGroups : \E S \in PolicyCohorts(g) : ReserveCandidate(g, S)
    BY <1>4 DEF ChooseScored
  <2>2. PICK S \in PolicyCohorts(g) : ReserveCandidate(g, S)
    BY <2>1
  <2>3. g \in Groups /\ S \in SUBSET Ready(g) /\ \E a \in S : IsOldestOf(a, Ready(g))
    BY DEF EligibleGroups, ReadyGroups, PolicyCohorts, Window, FirstOf
  <2>4. Idle /\ policy # "fifo"
    BY <1>4 DEF ChooseScored
  <2> QED
    BY <2>2, <2>3, <2>4, ReservePreservesSInv
<1> QED
  BY <1>2, <1>3, <1>4 DEF ChooseNext

-----------------------------------------------------------------------------
(* A new chunk is the youngest and starts at group 0.                       *)
LEMMA AdmitPreservesSInv ==
  ASSUME SInv, NEW x \in Chunks, Admit(x)
  PROVE  SInv'
<1> USE DEF SInv
<1>1. /\ InFlight' = InFlight \cup {x} /\ x \notin InFlight
      /\ older' = older \cup {<<d, x>> : d \in InFlight}
      /\ group' = group /\ expired' = expired /\ ticket' = ticket /\ alive' = alive
      /\ ticket.states = {} /\ policy' = policy
  BY DEF InFlight, Admit, Idle, NoTicket, TypeOK
<1>2. TypeOK'
  BY DEF TypeOK, Admit, Statuses, InFlight
<1>3. AgeOrder'
  BY <1>1, SMTT(30) DEF AgeOrder, InFlight
<1>4. ExpiredInOrder' /\ NoneFailed'
  <2>1. NoneFailed'
    BY DEF NoneFailed, Admit, TypeOK
  <2>2. ExpiredInOrder'
    BY <1>1 DEF ExpiredInOrder, InFlight
  <2> QED
    BY <2>1, <2>2
<1>5. TicketOwnsWhatIsOut'
  BY <1>1 DEF TicketOwnsWhatIsOut, Admit, TypeOK
<1>6. AnchorIsOldest' /\ FifoTicketIsPrefix'
  BY <1>1 DEF AnchorIsOldest, FifoTicketIsPrefix
<1>7. FreePlacesAtEntry' /\ group[x] = 0
  BY DEF FreePlacesAtEntry, Admit, TypeOK
<1>8. FifoNeverOvertakes'
  <2>1. \A d \in InFlight' : group[d] \in Nat
    BY DEF TypeOK, Groups, Admit, InFlight
  <2>2. \A c, d \in InFlight' : <<c, d>> \in older' =>
           d = x \/ (c \in InFlight /\ d \in InFlight /\ <<c, d>> \in older)
    BY <1>1 DEF AgeOrder
  <2> QED
    BY <1>1, <1>7, <2>1, <2>2 DEF FifoNeverOvertakes
<1> QED
  BY <1>2, <1>3, <1>4, <1>5, <1>6, <1>7, <1>8

(* A deadline passes only after every older one.                            *)
LEMMA DeadlinePreservesSInv ==
  ASSUME SInv, NEW x \in Chunks, DeadlinePasses(x)
  PROVE  SInv'
<1> USE DEF SInv
<1>1. /\ InFlight' = InFlight /\ \A g \in Groups : Ready(g)' = Ready(g)
      /\ x \in InFlight /\ OlderIn(InFlight, x) \subseteq expired
      /\ expired' = expired \cup {x}
  BY DEF InFlight, Ready, DeadlinePasses
<1>2. TypeOK'
  BY DEF TypeOK, DeadlinePasses
<1>3. /\ AgeOrder' /\ NoneFailed' /\ FreePlacesAtEntry' /\ TicketOwnsWhatIsOut'
      /\ FifoTicketIsPrefix' /\ FifoNeverOvertakes'
  BY <1>1 DEF AgeOrder, NoneFailed, FreePlacesAtEntry, TicketOwnsWhatIsOut, FifoTicketIsPrefix,
              FifoNeverOvertakes, DeadlinePasses
<1>4. ExpiredInOrder'
  BY <1>1 DEF ExpiredInOrder, AgeOrder, OlderIn, DeadlinePasses
<1>5. AnchorIsOldest'
  BY <1>1 DEF AnchorIsOldest, DeadlinePasses, TypeOK
<1> QED
  BY <1>2, <1>3, <1>4, <1>5

(* What changes only the status of the chunks of the ticket, and keeps them *)
(* out of the queues, keeps the invariant.                                  *)
LEMMA BecomePreservesSInv ==
  ASSUME SInv, alive, NEW st \in {"RUNNING", "FINALIZING"}, Become(st),
         UNCHANGED <<policy, group, older, expired, ticket, alive>>,
         ticket.states \subseteq InFlight, TypeOK'
  PROVE  SInv'
<1> USE DEF SInv
<1>1. InFlight' = InFlight
  BY DEF InFlight, Become, TypeOK
<1>2. AgeOrder' /\ ExpiredInOrder' /\ FifoTicketIsPrefix' /\ FifoNeverOvertakes'
  BY <1>1 DEF AgeOrder, ExpiredInOrder, FifoTicketIsPrefix, FifoNeverOvertakes
<1>3. NoneFailed' /\ FreePlacesAtEntry'
  BY DEF NoneFailed, FreePlacesAtEntry, Become, TypeOK
<1>4. TicketOwnsWhatIsOut'
  BY DEF TicketOwnsWhatIsOut, Become, TypeOK
<1>5. AnchorIsOldest'
  BY DEF AnchorIsOldest, Become, TypeOK, Ready
<1> QED
  BY <1>2, <1>3, <1>4, <1>5

LEMMA MarkRunningPreservesSInv == SInv /\ MarkRunning => SInv'
<1> SUFFICES ASSUME SInv, MarkRunning PROVE SInv'
  OBVIOUS
<1>1. TypeOK'
  BY SchedulerAssumption DEF SInv, TypeOK, MarkRunning, Become, Statuses
<1>2. ticket.states \subseteq InFlight
  BY DEF SInv, TypeOK, MarkRunning, TicketIs, InFlight
<1> QED
  BY <1>1, <1>2, BecomePreservesSInv DEF MarkRunning, TicketIs

LEMMA CompleteFinalPreservesSInv == SInv /\ CompleteFinalGroup => SInv'
<1> SUFFICES ASSUME SInv, CompleteFinalGroup PROVE SInv'
  OBVIOUS
<1>1. TypeOK'
  BY DEF SInv, TypeOK, CompleteFinalGroup, Become, Statuses
<1>2. ticket.states \subseteq InFlight
  BY DEF SInv, TypeOK, CompleteFinalGroup, TicketIs, InFlight
<1> QED
  BY <1>1, <1>2, BecomePreservesSInv DEF CompleteFinalGroup, TicketIs

(* The step that could break arrival order: a cohort moves one group on.    *)
(* Nothing older is left behind at its group, so whatever is older and not  *)
(* in the cohort is already further on.                                     *)
LEMMA CompleteInnerPreservesSInv == SInv /\ CompleteInnerGroup => SInv'
<1> SUFFICES ASSUME SInv, CompleteInnerGroup PROVE SInv'
  OBVIOUS
<1> USE DEF SInv
<1>1. /\ alive /\ ticket' = NoTicket /\ older' = older /\ expired' = expired /\ alive' = alive
      /\ policy' = policy
      /\ ticket.states \subseteq InFlight
      /\ \A c \in ticket.states : status[c] = "RUNNING" /\ group[c] = ticket.group
      /\ ticket.group < NumGroups - 1 /\ ticket.group \in Groups
  BY SchedulerAssumption
     DEF CompleteInnerGroup, TicketIs, InFlight, TypeOK, TicketOwnsWhatIsOut, IsFinal, Groups
<1>2. /\ group' \in [Chunks -> Groups]
      /\ \A c \in Chunks : group'[c] = IF c \in ticket.states THEN group[c] + 1 ELSE group[c]
  BY <1>1, SchedulerAssumption DEF CompleteInnerGroup, TypeOK, Groups
<1>3. TypeOK'
  BY <1>1, <1>2, SchedulerAssumption
     DEF TypeOK, CompleteInnerGroup, Become, Statuses, NoTicket, Groups
<1>4. InFlight' = InFlight
  BY <1>1 DEF InFlight, CompleteInnerGroup, Become, TypeOK
<1>5. AgeOrder' /\ ExpiredInOrder'
  BY <1>1, <1>4 DEF AgeOrder, ExpiredInOrder
<1>6. NoneFailed' /\ FreePlacesAtEntry' /\ TicketOwnsWhatIsOut'
  BY <1>1, <1>2 DEF NoneFailed, FreePlacesAtEntry, TicketOwnsWhatIsOut, CompleteInnerGroup, Become, TypeOK, NoTicket
<1>7. AnchorIsOldest' /\ FifoTicketIsPrefix'
  BY <1>1 DEF AnchorIsOldest, FifoTicketIsPrefix, NoTicket
<1>8. FifoNeverOvertakes'
  <2> SUFFICES ASSUME policy = "fifo", NEW c \in InFlight, NEW d \in InFlight, <<c, d>> \in older
               PROVE  group'[c] >= group'[d]
    BY <1>1, <1>4 DEF FifoNeverOvertakes
  <2>1. group[c] >= group[d] /\ group[c] \in Nat /\ group[d] \in Nat /\ c \in Chunks /\ d \in Chunks
    BY DEF FifoNeverOvertakes, InFlight, TypeOK, Groups
  <2>2. d \in ticket.states /\ group[c] = ticket.group => c \in ticket.states
    BY <1>1 DEF FifoTicketIsPrefix
  <2> QED
    BY <1>1, <1>2, <2>1, <2>2
<1> QED
  BY <1>3, <1>5, <1>6, <1>7, <1>8

(* The chunks of a finished cohort leave the order of age.                  *)
LEMMA FinalizePreservesSInv == SInv /\ Finalize => SInv'
<1> SUFFICES ASSUME SInv, Finalize PROVE SInv'
  OBVIOUS
<1> USE DEF SInv
<1>1. /\ alive /\ ticket' = NoTicket /\ alive' = alive /\ policy' = policy
      /\ older' = {p \in older : p[1] \notin ticket.states /\ p[2] \notin ticket.states}
      /\ expired' = expired \ ticket.states
  BY DEF Finalize, TicketIs
<1>2. InFlight' = InFlight \ ticket.states
  BY DEF InFlight, Finalize, Become, TypeOK
<1>3. TypeOK'
  BY SchedulerAssumption DEF TypeOK, Finalize, Become, Statuses, NoTicket, Groups
<1>4. \A c, d \in Chunks : <<c, d>> \in older' <=>
         <<c, d>> \in older /\ c \notin ticket.states /\ d \notin ticket.states
  BY <1>1
<1>5. AgeOrder'
  <2>1. older' \subseteq InFlight' \X InFlight'
    BY <1>1, <1>2 DEF AgeOrder
  <2> QED
    BY <1>2, <1>4, <2>1 DEF AgeOrder, InFlight
<1>6. ExpiredInOrder'
  BY <1>1, <1>2, <1>4 DEF ExpiredInOrder
<1>7. NoneFailed' /\ FreePlacesAtEntry' /\ TicketOwnsWhatIsOut'
  BY <1>1 DEF NoneFailed, FreePlacesAtEntry, TicketOwnsWhatIsOut, Finalize, Become, TypeOK, NoTicket
<1>8. AnchorIsOldest' /\ FifoTicketIsPrefix'
  BY <1>1 DEF AnchorIsOldest, FifoTicketIsPrefix, NoTicket
<1>9. FifoNeverOvertakes'
  <2>1. \A c \in InFlight' : c \in InFlight /\ c \in Chunks /\ group'[c] = group[c]
    BY <1>2 DEF Finalize, InFlight, TypeOK
  <2> QED
    BY <1>1, <1>4, <2>1 DEF FifoNeverOvertakes
<1> QED
  BY <1>3, <1>5, <1>6, <1>7, <1>8, <1>9

(* A failure stops the loop; what was out stays in flight, back in its      *)
(* queue or failed with the whole cohort.                                   *)
LEMMA FailurePreservesSInv == SInv /\ (PackFails \/ RunFails) => SInv'
<1> SUFFICES ASSUME SInv, PackFails \/ RunFails PROVE SInv'
  OBVIOUS
<1> USE DEF SInv
<1>1. /\ ~ alive' /\ policy' = policy /\ group' = group /\ older' = older /\ expired' = expired
      /\ ticket' \in [group : Groups, states : SUBSET Chunks]
      /\ (ticket' = NoTicket \/ ticket' = ticket)
      /\ ticket.states \subseteq InFlight
  BY SchedulerAssumption DEF PackFails, RunFails, TicketIs, InFlight, TypeOK, NoTicket, Groups
<1>2. InFlight' = InFlight
  BY <1>1 DEF InFlight, PackFails, RunFails, Become, TypeOK
<1>3. TypeOK'
  BY <1>1 DEF TypeOK, PackFails, RunFails, Become, Statuses
<1>4. AgeOrder' /\ ExpiredInOrder' /\ FifoNeverOvertakes'
  BY <1>1, <1>2 DEF AgeOrder, ExpiredInOrder, FifoNeverOvertakes
<1>5. NoneFailed' /\ AnchorIsOldest' /\ FifoTicketIsPrefix'
  BY <1>1 DEF NoneFailed, AnchorIsOldest, FifoTicketIsPrefix
<1>6. TicketOwnsWhatIsOut'
  <2>1. \A c \in Chunks \ ticket.states : status[c] \in {"OUT", "READY"} /\ status'[c] = status[c]
    BY <1>1 DEF PackFails, RunFails, TicketIs, Become, NoneFailed, TicketOwnsWhatIsOut, TypeOK, Statuses
  <2>2. CASE PackFails
    BY <1>1, <2>1, <2>2 DEF PackFails, Become, TicketOwnsWhatIsOut, TypeOK, NoTicket
  <2>3. CASE RunFails
    BY <1>1, <2>1, <2>3 DEF RunFails, Become, TicketOwnsWhatIsOut, TypeOK
  <2> QED
    BY <2>2, <2>3
<1>7. FreePlacesAtEntry'
  BY DEF FreePlacesAtEntry, PackFails, RunFails, Become, TypeOK
<1> QED
  BY <1>3, <1>4, <1>5, <1>6, <1>7

LEMMA StepPreservesSInv == SInv /\ [Next]_vars => SInv'
<1>1. SInv /\ UNCHANGED vars => SInv'
  BY DEF SInv, TypeOK, AgeOrder, ExpiredInOrder, NoneFailed, FreePlacesAtEntry, TicketOwnsWhatIsOut,
         AnchorIsOldest, FifoTicketIsPrefix, FifoNeverOvertakes, vars, svars, InFlight, Ready
<1>2. SInv /\ Next => SInv'
  BY <1>1, AdmitPreservesSInv, DeadlinePreservesSInv, ChoosePreservesSInv, MarkRunningPreservesSInv,
     CompleteInnerPreservesSInv, CompleteFinalPreservesSInv, FinalizePreservesSInv,
     FailurePreservesSInv DEF Next, Stopped
<1> QED
  BY <1>1, <1>2

-----------------------------------------------------------------------------
(* Theorems. *)

THEOREM SchedulerInvariant == Spec => []SInv
<1>1. Init => SInv
  BY InitEstablishesSInv
<1>2. SInv /\ [Next]_vars => SInv'
  BY StepPreservesSInv
<1> QED
  BY <1>1, <1>2, PTL DEF Spec

(* The state the loop keeps is well formed, and what is out of the queues   *)
(* is exactly the one ticket, at one group and in one status.               *)
THEOREM OneTicketAtATime == Spec => [](TypeOK /\ TicketOwnsWhatIsOut)
<1>1. SInv => TypeOK /\ TicketOwnsWhatIsOut
  BY DEF SInv
<1> QED
  BY <1>1, SchedulerInvariant, PTL

(* A ticket always takes the oldest chunk of its group, whatever policy,    *)
(* window, cohort size and deadlines are in use.                            *)
THEOREM TicketTakesTheOldest == Spec => []AnchorIsOldest
<1>1. SInv => AnchorIsOldest
  BY DEF SInv
<1> QED
  BY <1>1, SchedulerInvariant, PTL

(* Under the fifo policy chunks never overtake, although the streak, the    *)
(* cohort and the deadline rules all reorder the groups that run.           *)
THEOREM FifoKeepsArrivalOrder == Spec => []FifoNeverOvertakes
<1>1. SInv => FifoNeverOvertakes
  BY DEF SInv
<1> QED
  BY <1>1, SchedulerInvariant, PTL

-----------------------------------------------------------------------------
(* Deadlines and streaks. *)

(* Deadlines come before every policy: what choose_next takes has a chunk   *)
(* older than any expired chunk it leaves behind.                           *)
LEMMA ChooseTakesExpired ==
  ASSUME SInv, ChooseNext,
         NEW c \in Chunks \ ticket'.states, status[c] = "READY", c \in expired
  PROVE  \E a \in ticket'.states : a \in expired /\ <<a, c>> \in older
<1>1. PICK a \in Chunks : OldestExpired(a) /\ ReserveCandidate(group[a], CohortWithAnchor(a))
  BY DEF ChooseNext, ChooseExpired, ChooseFifo, ChooseScored, NoneExpired
<1>2. a \in ticket'.states /\ a \in expired /\ a # c
  BY <1>1 DEF ReserveCandidate, CohortWithAnchor, OldestExpired, IsOldestOf
<1>3. a \in InFlight /\ c \in InFlight /\ <<c, a>> \notin older
  BY <1>1, <1>2 DEF OldestExpired, IsOldestOf, OlderIn, SInv, ExpiredInOrder
<1>4. <<a, c>> \in older
  BY <1>2, <1>3 DEF SInv, AgeOrder
<1> QED
  BY <1>2, <1>4

(* A chunk whose deadline has passed never waits for a younger one.         *)
THEOREM ExpiredNeverWaitForYounger == Spec => ExpiredGoFirst
<1>1. SInv /\ [Next]_vars =>
        [ChooseNext => \A c \in Chunks \ ticket'.states :
           status[c] = "READY" /\ c \in expired =>
               \E a \in ticket'.states : a \in expired /\ <<a, c>> \in older]_vars
  BY ChooseTakesExpired
<1> QED
  BY <1>1, SchedulerInvariant, PTL DEF Spec, ExpiredGoFirst

(* A reserved ticket that continues an exhausted streak was either forced   *)
(* by a deadline or had no other group to give way to.                      *)
StreakReserved ==
    /\ TicketIs("RESERVED")
    /\ ticket.group = last_group_id
    /\ same_stage_streak = MaxConsecutive
    => \/ \E c \in ticket.states : c \in expired
       \/ \A g \in ReadyGroups : g = ticket.group

LEMMA ReadyGroupsFinite ==
  /\ IsFiniteSet(ReadyGroups)
  /\ \A g, h \in ReadyGroups : Cardinality(ReadyGroups) <= 1 => g = h
<1>1. IsFiniteSet(Groups)
  BY FS_Interval, SchedulerAssumption DEF Groups
<1>2. IsFiniteSet(ReadyGroups) /\ Cardinality(ReadyGroups) \in Nat
  BY <1>1, FS_Subset, FS_CardinalityType DEF ReadyGroups
<1>3. ASSUME NEW g \in ReadyGroups, NEW h \in ReadyGroups, Cardinality(ReadyGroups) <= 1
      PROVE  g = h
  <2>1. CASE Cardinality(ReadyGroups) = 0
    BY <1>2, <2>1, <1>3, FS_EmptySet
  <2>2. CASE Cardinality(ReadyGroups) = 1
    BY <1>2, <2>2, <1>3, FS_Singleton
  <2> QED
    BY <1>2, <1>3, <2>1, <2>2
<1> QED
  BY <1>2, <1>3

LEMMA ChooseEstablishesStreakReserved == SInv /\ ChooseNext => StreakReserved'
<1> SUFFICES ASSUME SInv, ChooseNext, ticket'.group = last_group_id',
                    same_stage_streak' = MaxConsecutive,
                    NEW g \in ReadyGroups'
             PROVE  (\E c \in ticket'.states : c \in expired') \/ g = ticket'.group
  BY DEF StreakReserved
<1>1. CASE ChooseExpired
  BY <1>1 DEF ChooseExpired, ReserveCandidate, CohortWithAnchor, OldestExpired, IsOldestOf
<1>2. CASE \E S : ticket'.group \in EligibleGroups /\ ReserveCandidate(ticket'.group, S)
  <2>1. g \in ReadyGroups /\ last_group_id' = last_group_id /\ same_stage_streak' = same_stage_streak
    BY <1>2 DEF SInv, TypeOK, ReserveCandidate, ReadyGroups, Ready
  <2>2. MaxConsecutive \in Nat /\ Cardinality(ReadyGroups) \in Nat
    BY ReadyGroupsFinite, FS_CardinalityType, SchedulerAssumption
  <2>3. ticket'.group \in ReadyGroups /\ Cardinality(ReadyGroups) <= 1
    BY <1>2, <2>1, <2>2 DEF EligibleGroups
  <2> QED
    BY <2>1, <2>3, ReadyGroupsFinite
<1>3. CASE ChooseFifo
  <2>1. PICK a \in Chunks : FifoAnchor(a) /\ ReserveCandidate(group[a], CohortWithAnchor(a))
    BY <1>3 DEF ChooseFifo
  <2>2. group[a] \in AnchorGroups /\ AnchorGroups \subseteq EligibleGroups
    BY <2>1 DEF FifoAnchor, IsOldestOf, Ready, AnchorGroups
  <2> QED
    BY <1>2, <2>1, <2>2 DEF ReserveCandidate
<1>4. CASE ChooseScored
  <2>1. PICK h \in EligibleGroups, S \in SUBSET Chunks : ReserveCandidate(h, S)
    BY <1>4 DEF ChooseScored, PolicyCohorts, Window, FirstOf, Ready
  <2> QED
    BY <1>2, <2>1 DEF ReserveCandidate
<1> QED
  BY <1>1, <1>3, <1>4 DEF ChooseNext

LEMMA StepPreservesStreakReserved == SInv /\ StreakReserved /\ [Next]_vars => StreakReserved'
<1> SUFFICES ASSUME SInv, StreakReserved, [Next]_vars PROVE StreakReserved'
  OBVIOUS
<1>1. CASE ChooseNext
  BY <1>1, ChooseEstablishesStreakReserved
<1>2. CASE UNCHANGED vars
  BY <1>2 DEF StreakReserved, TicketIs, ReadyGroups, Ready, vars, svars
<1>3. ASSUME NEW x \in Chunks, DeadlinePasses(x) PROVE StreakReserved'
  BY <1>3 DEF StreakReserved, TicketIs, ReadyGroups, Ready, DeadlinePasses
<1>4. ASSUME NEW x \in Chunks, Admit(x) PROVE StreakReserved'
  BY <1>4 DEF StreakReserved, TicketIs, Admit, Idle, NoTicket
<1>5. CASE CompleteInnerGroup \/ Finalize
  <2>1. ticket'.states = {}
    BY <1>5 DEF CompleteInnerGroup, Finalize, NoTicket
  <2> QED
    BY <2>1 DEF StreakReserved, TicketIs
<1>6. CASE MarkRunning \/ CompleteFinalGroup \/ PackFails \/ RunFails
  BY <1>6 DEF StreakReserved, TicketIs, MarkRunning, CompleteFinalGroup, PackFails, RunFails,
              Become, SInv, TypeOK
<1> QED
  BY <1>1, <1>2, <1>3, <1>4, <1>5, <1>6 DEF Next, Stopped

(* No group runs more than max_consecutive times in a row while another     *)
(* group is waiting, except when a deadline forces it.                      *)
THEOREM StreaksYield == Spec => StreakYields
<1>1. Init => StreakReserved
  BY DEF Init, StreakReserved, TicketIs, NoTicket
<1>2. SInv /\ StreakReserved /\ [Next]_vars => StreakReserved'
  BY StepPreservesStreakReserved
<1>3. StreakReserved /\ [Next]_vars =>
        [MarkRunning /\ ticket.group = last_group_id /\ same_stage_streak = MaxConsecutive =>
           \/ \E c \in ticket.states : c \in expired
           \/ \A g \in ReadyGroups : g = ticket.group]_vars
  BY DEF StreakReserved, MarkRunning
<1> QED
  BY <1>1, <1>2, <1>3, SchedulerInvariant, PTL DEF Spec, StreakYields

-----------------------------------------------------------------------------
(* How often the oldest chunk is passed over. *)

(* The group a chunk is dispatched at next, and the groups g at which it    *)
(* can still be dispatched before it has to queue up behind o: up to the    *)
(* group o is at, after leaving and coming back if it is further on.        *)
NextGroup(c) == IF status[c] \in {"RUNNING", "FINALIZING"} THEN group[c] + 1 ELSE group[c]
CanPass(o, c, g) ==
    IF group[c] <= group[o] THEN NextGroup(c) <= g /\ g < group[o]
                            ELSE NextGroup(c) <= g \/ g < group[o]
StillToPass(o) ==
    {p \in (Chunks \ {o}) \X (Groups \ {group[o]}) : CanPass(o, p[1], p[2])}

(* Every dispatch that passes over the oldest chunk uses up one of these.   *)
PassedOver ==
    alive =>
      /\ \A c \in Chunks : status[c] = "FINALIZING" => IsFinal(group[c])
      /\ InFlight = {} => bypassed = 0
      /\ \A o \in Chunks : IsOldestOf(o, InFlight) =>
            /\ status[o] \in {"RUNNING", "FINALIZING"} => bypassed = 0
            /\ bypassed + Cardinality(StillToPass(o)) <= PassedOverBound

(* There are at most PassedOverBound dispatches to use up.                  *)
LEMMA PassesAreBounded ==
  ASSUME NEW o \in Chunks, NEW h \in Groups,
         NEW T \in SUBSET ((Chunks \ {o}) \X (Groups \ {h}))
  PROVE  /\ IsFiniteSet(T) /\ Cardinality(T) \in Nat
         /\ PassedOverBound \in Nat /\ Cardinality(T) <= PassedOverBound
<1>1. /\ IsFiniteSet(Chunks \ {o}) /\ Cardinality(Chunks \ {o}) = Cardinality(Chunks) - 1
      /\ Cardinality(Chunks \ {o}) \in Nat
  BY SchedulerAssumption, FS_RemoveElement, FS_CardinalityType
<1>2. IsFiniteSet(Groups) /\ Cardinality(Groups) = NumGroups
  <2>1. NumGroups - 1 \in Int /\ ~ (0 > NumGroups - 1) /\ (NumGroups - 1) - 0 + 1 = NumGroups
    BY SchedulerAssumption
  <2> QED
    BY <2>1, FS_Interval DEF Groups
<1>3. /\ IsFiniteSet(Groups \ {h}) /\ Cardinality(Groups \ {h}) = NumGroups - 1
      /\ Cardinality(Groups \ {h}) \in Nat
  BY <1>2, FS_RemoveElement, FS_CardinalityType
<1> DEFINE U == (Chunks \ {o}) \X (Groups \ {h})
<1>4. IsFiniteSet(U) /\ Cardinality(U) = Cardinality(Chunks \ {o}) * Cardinality(Groups \ {h})
  BY <1>1, <1>3, FS_Product
<1>5. Cardinality(U) = PassedOverBound
  BY <1>1, <1>3, <1>4 DEF PassedOverBound
<1> HIDE DEF U
<1>6. T \in SUBSET U
  BY DEF U
<1>7. IsFiniteSet(T) /\ Cardinality(T) <= Cardinality(U)
  BY <1>4, <1>6, FS_Subset
<1> QED
  BY <1>4, <1>5, <1>7, FS_CardinalityType

(* In flight, there always is an oldest chunk.                              *)
LEMMA SomeOldest ==
  ASSUME TypeOK, AgeOrder, InFlight # {}
  PROVE  \E o \in InFlight : IsOldestOf(o, InFlight)
<1> DEFINE Age(c) == Cardinality(OlderIn(InFlight, c))
           Ages == {Age(c) : c \in InFlight}
<1>1. \A c \in InFlight : IsFiniteSet(OlderIn(InFlight, c)) /\ Age(c) \in Nat
  <2> SUFFICES ASSUME NEW c \in InFlight
               PROVE  IsFiniteSet(OlderIn(InFlight, c)) /\ Age(c) \in Nat
    OBVIOUS
  <2>1. OlderIn(InFlight, c) \in SUBSET Chunks
    BY DEF OlderIn, InFlight
  <2> QED
    BY <2>1, SchedulerAssumption, FS_Subset, FS_CardinalityType
<1>2. \E n \in Ages : \A m \in Ages : ~ (m < n)
  <2>1. Ages \subseteq Nat /\ Ages # {}
    BY <1>1
  <2> HIDE DEF Ages
  <2>2. \E n \in Ages : \A m \in Ages : <<m, n>> \notin OpToRel(<, Nat)
    BY <2>1, NatLessThanWellFounded, WFMin
  <2> QED
    BY <2>1, <2>2 DEF OpToRel
<1>3. PICK o \in InFlight : \A c \in InFlight : ~ (Age(c) < Age(o))
  BY <1>2
<1>4. ASSUME NEW c \in OlderIn(InFlight, o) PROVE FALSE
  <2>1. c \in InFlight /\ <<c, o>> \in older
    BY DEF OlderIn
  <2>2. OlderIn(InFlight, c) \in SUBSET OlderIn(InFlight, o) /\ c \notin OlderIn(InFlight, c)
    BY <2>1 DEF OlderIn, AgeOrder, InFlight
  <2>3. Age(c) <= Age(o) /\ Age(c) # Age(o)
    BY <1>1, <2>2, FS_Subset
  <2>4. Age(c) \in Nat /\ Age(o) \in Nat
    BY <1>1, <2>1
  <2> HIDE DEF Age
  <2> QED
    BY <1>3, <2>1, <2>3, <2>4
<1> QED
  BY <1>4 DEF IsOldestOf

(* A ticket that leaves the oldest chunk out is for another group.          *)
LEMMA TicketElsewhere ==
  ASSUME SInv, alive, ticket.states # {},
         NEW o \in Chunks, IsOldestOf(o, InFlight), o \notin ticket.states
  PROVE  status[o] = "READY" /\ group[o] # ticket.group
<1>1. status[o] = "READY"
  BY DEF SInv, TypeOK, TicketOwnsWhatIsOut, NoneFailed, Statuses, IsOldestOf, InFlight
<1>2. ASSUME group[o] = ticket.group PROVE FALSE
  <2>1. PICK a \in ticket.states : <<a, o>> \in older
    BY <1>1, <1>2 DEF SInv, AnchorIsOldest, Ready
  <2> QED
    BY <2>1 DEF SInv, AgeOrder, IsOldestOf, OlderIn
<1> QED
  BY <1>1, <1>2

(* Steps that neither dispatch nor move a chunk use nothing up.             *)
LEMMA FramePassedOver ==
  ASSUME SInv, PassedOver, alive,
         UNCHANGED <<group, older, bypassed>>, InFlight' = InFlight,
         \A c \in Chunks : /\ NextGroup(c)' = NextGroup(c)
                           /\ status'[c] \in {"RUNNING", "FINALIZING"} => status[c] \in {"RUNNING", "FINALIZING"}
                           /\ status'[c] = "FINALIZING" => IsFinal(group[c])
  PROVE  PassedOver'
<1>1. \A o \in Chunks : StillToPass(o)' = StillToPass(o)
  BY DEF StillToPass, CanPass
<1>2. \A o \in Chunks : IsOldestOf(o, InFlight)' <=> IsOldestOf(o, InFlight)
  BY DEF IsOldestOf, OlderIn
<1> QED
  BY <1>1, <1>2 DEF PassedOver, IsFinal

(* A newcomer is the youngest, and has not moved.                           *)
LEMMA AdmitKeepsPassedOver ==
  ASSUME SInv, SInv', PassedOver, NEW x \in Chunks, Admit(x)
  PROVE  PassedOver'
<1>1. /\ InFlight' = InFlight \cup {x} /\ x \notin InFlight /\ alive /\ x \in InFlight'
      /\ older' = older \cup {<<d, x>> : d \in InFlight}
      /\ group' = group /\ bypassed' = bypassed
      /\ \A c \in Chunks : c # x => status'[c] = status[c]
      /\ status[x] = "OUT" /\ status'[x] = "READY"
  BY DEF InFlight, Admit, Idle, SInv, TypeOK
<1>2. \A o \in Chunks : StillToPass(o)' = StillToPass(o)
  <2>1. \A c \in Chunks : NextGroup(c)' = NextGroup(c)
    BY <1>1 DEF NextGroup
  <2> QED
    BY <1>1, <2>1 DEF StillToPass, CanPass
<1>3. \A c \in Chunks : status'[c] = "FINALIZING" => IsFinal(group'[c])
  BY <1>1 DEF PassedOver, IsFinal
<1>4. ASSUME NEW o \in Chunks, IsOldestOf(o, InFlight)'
      PROVE  /\ status'[o] \in {"RUNNING", "FINALIZING"} => bypassed' = 0
             /\ bypassed' + Cardinality(StillToPass(o)') <= PassedOverBound
  <2>1. CASE o = x
    <3>1. InFlight = {}
      BY <1>1, <1>4, <2>1 DEF IsOldestOf, OlderIn
    <3>2. bypassed' = 0
      BY <1>1, <3>1 DEF PassedOver
    <3>3. group[o] \in Groups
      BY DEF SInv, TypeOK
    <3>4. StillToPass(o) \in SUBSET ((Chunks \ {o}) \X (Groups \ {group[o]}))
      BY DEF StillToPass
    <3> QED
      BY <1>2, <3>2, <3>3, <3>4, PassesAreBounded
  <2>2. CASE o # x
    <3>1. IsOldestOf(o, InFlight)
      BY <1>1, <1>4, <2>2 DEF IsOldestOf, OlderIn
    <3> QED
      BY <1>1, <1>2, <2>2, <3>1 DEF PassedOver
  <2> QED
    BY <2>1, <2>2
<1> QED
  BY <1>1, <1>3, <1>4 DEF PassedOver

(* A dispatch that leaves the oldest chunk out moves some chunk closer to   *)
(* the place where it has to wait.                                          *)
LEMMA DispatchUsesOneUp ==
  ASSUME SInv, MarkRunning,
         NEW o \in Chunks, IsOldestOf(o, InFlight), o \notin ticket.states
  PROVE  Cardinality(StillToPass(o)') + 1 <= Cardinality(StillToPass(o))
<1>1. /\ alive /\ group' = group /\ ticket.states # {} /\ ticket.states \subseteq Chunks
      /\ \A c \in ticket.states : /\ status[c] = "RESERVED" /\ status'[c] = "RUNNING"
                                  /\ group[c] = ticket.group
      /\ \A c \in Chunks \ ticket.states : status'[c] = status[c]
      /\ group \in [Chunks -> Groups]
  BY DEF MarkRunning, TicketIs, Become, SInv, TypeOK, TicketOwnsWhatIsOut
<1>2. group[o] # ticket.group
  BY <1>1, TicketElsewhere
<1>3. \A c \in Chunks : group[c] \in Nat
  BY <1>1 DEF Groups
<1>4. PICK c \in ticket.states, h \in Groups : h = group[c]
  <2>1. \A d \in ticket.states : group[d] \in Groups
    BY <1>1
  <2> QED
    BY <1>1, <2>1
<1>5. StillToPass(o)' \in SUBSET StillToPass(o)
  <2>1. \A d \in Chunks, g \in Groups : NextGroup(d)' <= g => NextGroup(d) <= g
    BY <1>1, <1>3 DEF NextGroup, Groups
  <2> QED
    BY <1>1, <2>1 DEF StillToPass, CanPass
<1>6. <<c, h>> \in StillToPass(o) /\ <<c, h>> \notin StillToPass(o)'
  <2>1. c \in Chunks \ {o} /\ h \in Groups \ {group[o]} /\ h \in Nat
    BY <1>1, <1>2, <1>3, <1>4
  <2>2. NextGroup(c) = h /\ NextGroup(c)' = h + 1
    BY <1>1, <1>4 DEF NextGroup
  <2>3. CanPass(o, c, h)
    BY <1>3, <1>4, <2>1, <2>2 DEF CanPass
  <2>4. ~ CanPass(o, c, h)'
    BY <1>1, <1>3, <1>4, <2>1, <2>2 DEF CanPass
  <2>5. <<c, h>>[1] = c /\ <<c, h>>[2] = h
    OBVIOUS
  <2> QED
    BY <2>1, <2>3, <2>4, <2>5 DEF StillToPass
<1>7. IsFiniteSet(StillToPass(o)) /\ Cardinality(StillToPass(o)) \in Nat
  <2>1. StillToPass(o) \in SUBSET ((Chunks \ {o}) \X (Groups \ {group[o]})) /\ group[o] \in Groups
    BY <1>1 DEF StillToPass
  <2> QED
    BY <2>1, PassesAreBounded
<1>8. /\ Cardinality(StillToPass(o)') <= Cardinality(StillToPass(o))
      /\ Cardinality(StillToPass(o)') # Cardinality(StillToPass(o))
      /\ IsFiniteSet(StillToPass(o)')
  BY <1>5, <1>6, <1>7, FS_Subset
<1>9. Cardinality(StillToPass(o)') \in Nat
  BY <1>8, FS_CardinalityType
<1> QED
  BY <1>7, <1>8, <1>9

LEMMA MarkRunningKeepsPassedOver ==
  ASSUME SInv, SInv', PassedOver, MarkRunning
  PROVE  PassedOver' /\ (bypassed <= PassedOverBound => bypassed' <= PassedOverBound)
<1>1. /\ alive /\ alive' /\ group' = group /\ older' = older /\ ticket.states # {}
      /\ \A c \in ticket.states : status[c] = "RESERVED"
      /\ \A c \in Chunks : status'[c] = IF c \in ticket.states THEN "RUNNING" ELSE status[c]
      /\ ticket.states \subseteq Chunks /\ bypassed \in Nat
  BY DEF MarkRunning, TicketIs, Become, SInv, TypeOK
<1>2. InFlight' = InFlight /\ InFlight # {}
  BY <1>1 DEF InFlight
<1>3. \A o \in Chunks : IsOldestOf(o, InFlight)' <=> IsOldestOf(o, InFlight)
  BY <1>1, <1>2 DEF IsOldestOf, OlderIn
<1>4. \A c \in Chunks : status'[c] = "FINALIZING" => IsFinal(group'[c])
  BY <1>1 DEF PassedOver, IsFinal
<1>5. CASE \E a \in ticket.states : IsOldestOf(a, InFlight)
  <2>1. bypassed' = 0
    BY <1>5 DEF MarkRunning
  <2>2. ASSUME NEW o \in Chunks PROVE Cardinality(StillToPass(o)') <= PassedOverBound
                                      /\ PassedOverBound \in Nat /\ Cardinality(StillToPass(o)') \in Nat
    <3>1. StillToPass(o)' \in SUBSET ((Chunks \ {o}) \X (Groups \ {group[o]})) /\ group[o] \in Groups
      BY <1>1 DEF StillToPass, SInv, TypeOK
    <3> QED
      BY <3>1, PassesAreBounded
  <2>3. \E o \in Chunks : TRUE
    BY SchedulerAssumption
  <2> QED
    BY <1>1, <1>2, <1>4, <2>1, <2>2, <2>3 DEF PassedOver
<1>6. CASE ~ \E a \in ticket.states : IsOldestOf(a, InFlight)
  <2>1. ASSUME NEW o \in Chunks, IsOldestOf(o, InFlight)
        PROVE  /\ status'[o] \notin {"RUNNING", "FINALIZING"} \/ bypassed' = 0
               /\ bypassed' + Cardinality(StillToPass(o)') <= PassedOverBound
               /\ bypassed' <= PassedOverBound
    <3>1. o \notin ticket.states
      BY <1>6, <2>1
    <3>2. status[o] = "READY" /\ status'[o] = "READY"
      BY <1>1, <2>1, <3>1, TicketElsewhere
    <3>3. Cardinality(StillToPass(o)') + 1 <= Cardinality(StillToPass(o))
      BY <2>1, <3>1, DispatchUsesOneUp
    <3>4. bypassed + Cardinality(StillToPass(o)) <= PassedOverBound
      BY <1>1, <2>1 DEF PassedOver
    <3>5. /\ Cardinality(StillToPass(o)) \in Nat /\ PassedOverBound \in Nat
          /\ Cardinality(StillToPass(o)') \in Nat
      <4>1. StillToPass(o) \in SUBSET ((Chunks \ {o}) \X (Groups \ {group[o]})) /\ group[o] \in Groups
        BY <1>1 DEF StillToPass, SInv, TypeOK
      <4>2. StillToPass(o)' \in SUBSET ((Chunks \ {o}) \X (Groups \ {group[o]})) /\ group[o] \in Groups
        BY <1>1 DEF StillToPass, SInv, TypeOK
      <4> QED
        BY <4>1, <4>2, PassesAreBounded
    <3>6. bypassed' = IF bypassed <= PassedOverBound THEN bypassed + 1 ELSE bypassed
      BY <1>6 DEF MarkRunning
    <3> QED
      BY <1>1, <3>2, <3>3, <3>4, <3>5, <3>6
  <2>2. \E o \in Chunks : IsOldestOf(o, InFlight)
    BY <1>2, SomeOldest DEF SInv, InFlight
  <2> QED
    BY <1>1, <1>2, <1>3, <1>4, <2>1, <2>2 DEF PassedOver
<1> QED
  BY <1>5, <1>6

(* A cohort that moves on stays as far from its place behind the oldest.    *)
LEMMA CompleteInnerKeepsPassedOver ==
  ASSUME SInv, SInv', PassedOver, CompleteInnerGroup
  PROVE  PassedOver'
<1>1. /\ alive /\ alive' /\ older' = older /\ bypassed' = bypassed /\ bypassed \in Nat
      /\ ticket.states # {} /\ ticket.states \subseteq Chunks
      /\ \A c \in ticket.states : status[c] = "RUNNING" /\ group[c] = ticket.group
      /\ \A c \in Chunks : status'[c] = IF c \in ticket.states THEN "READY" ELSE status[c]
      /\ \A c \in Chunks : group'[c] = IF c \in ticket.states THEN group[c] + 1 ELSE group[c]
      /\ \A c \in Chunks : group[c] \in Nat /\ group[c] \in Groups /\ group'[c] \in Groups
  BY DEF CompleteInnerGroup, TicketIs, Become, SInv, TypeOK, TicketOwnsWhatIsOut, Groups
<1>2. InFlight' = InFlight /\ InFlight # {}
  BY <1>1 DEF InFlight
<1>3. \A o \in Chunks : IsOldestOf(o, InFlight)' <=> IsOldestOf(o, InFlight)
  BY <1>1, <1>2 DEF IsOldestOf, OlderIn
<1>4. \A c \in Chunks : status'[c] = "FINALIZING" => IsFinal(group'[c])
  BY <1>1 DEF PassedOver, IsFinal
<1>5. ASSUME NEW o \in Chunks, IsOldestOf(o, InFlight)
      PROVE  /\ status'[o] \in {"RUNNING", "FINALIZING"} => bypassed' = 0
             /\ bypassed' + Cardinality(StillToPass(o)') <= PassedOverBound
  <2>1. CASE o \in ticket.states
    <3>1. bypassed = 0
      BY <1>1, <1>5, <2>1 DEF PassedOver
    <3>2. StillToPass(o)' \in SUBSET ((Chunks \ {o}) \X (Groups \ {group'[o]}))
      BY DEF StillToPass
    <3> QED
      BY <1>1, <3>1, <3>2, PassesAreBounded
  <2>2. CASE o \notin ticket.states
    <3>1. group[o] # ticket.group /\ group'[o] = group[o] /\ status'[o] = status[o] /\ status[o] = "READY"
      BY <1>1, <1>5, <2>2, TicketElsewhere
    <3>2. \A c \in Chunks, g \in Groups : CanPass(o, c, g)' <=> CanPass(o, c, g)
      <4> SUFFICES ASSUME NEW c \in Chunks, NEW g \in Groups
                   PROVE  CanPass(o, c, g)' <=> CanPass(o, c, g)
        OBVIOUS
      <4>1. NextGroup(c)' = NextGroup(c)
        BY <1>1 DEF NextGroup
      <4>2. group'[c] <= group'[o] <=> group[c] <= group[o]
        BY <1>1, <3>1
      <4> QED
        BY <3>1, <4>1, <4>2 DEF CanPass
    <3>3. StillToPass(o)' = StillToPass(o)
      BY <3>1, <3>2 DEF StillToPass
    <3> QED
      BY <1>1, <1>5, <3>1, <3>3 DEF PassedOver
  <2> QED
    BY <2>1, <2>2
<1> QED
  BY <1>1, <1>2, <1>3, <1>4, <1>5 DEF PassedOver

(* So does a cohort that leaves from the last group: its places are free,   *)
(* and what is admitted there starts behind the oldest.                     *)
LEMMA FinalizeKeepsPassedOver ==
  ASSUME SInv, SInv', PassedOver, Finalize
  PROVE  PassedOver'
<1>1. /\ alive /\ alive' /\ bypassed \in Nat
      /\ ticket.states # {} /\ ticket.states \subseteq Chunks
      /\ \A c \in ticket.states : status[c] = "FINALIZING" /\ group[c] = ticket.group
      /\ \A c \in Chunks : status'[c] = IF c \in ticket.states THEN "OUT" ELSE status[c]
      /\ \A c \in Chunks : group'[c] = IF c \in ticket.states THEN 0 ELSE group[c]
      /\ \A c \in Chunks : group[c] \in Groups /\ group'[c] \in Groups
  BY DEF Finalize, TicketIs, Become, SInv, TypeOK, TicketOwnsWhatIsOut
<1>2. /\ InFlight' = InFlight \ ticket.states /\ InFlight # {}
      /\ \A c, d \in Chunks : <<c, d>> \in older /\ c \notin ticket.states /\ d \notin ticket.states
                                 => <<c, d>> \in older'
  BY <1>1 DEF InFlight, Finalize
<1>3. \A c \in ticket.states : group[c] = NumGroups - 1
  BY <1>1 DEF PassedOver, IsFinal
<1>4. \A c \in Chunks : status'[c] = "FINALIZING" => IsFinal(group'[c])
  BY <1>1 DEF PassedOver, IsFinal
<1>5. ASSUME NEW o \in Chunks
      PROVE  /\ Cardinality(StillToPass(o)') \in Nat /\ PassedOverBound \in Nat
             /\ Cardinality(StillToPass(o)') <= PassedOverBound
  <2>1. StillToPass(o)' \in SUBSET ((Chunks \ {o}) \X (Groups \ {group'[o]}))
    BY DEF StillToPass
  <2> QED
    BY <1>1, <2>1, PassesAreBounded
<1>6. PICK m \in InFlight : IsOldestOf(m, InFlight)
  BY <1>2, SomeOldest DEF SInv
<1>7. CASE m \in ticket.states
  <2>1. bypassed' = 0
    BY <1>6, <1>7 DEF Finalize
  <2> QED
    BY <1>4, <1>5, <2>1 DEF PassedOver
<1>8. CASE m \notin ticket.states
  <2>1. \A a \in ticket.states : ~ IsOldestOf(a, InFlight)
    <3> SUFFICES ASSUME NEW a \in ticket.states, IsOldestOf(a, InFlight) PROVE FALSE
      OBVIOUS
    <3>1. a \in InFlight /\ a # m /\ <<a, m>> \notin older /\ <<m, a>> \notin older
      BY <1>6, <1>8 DEF IsOldestOf, OlderIn
    <3> QED
      BY <3>1 DEF SInv, AgeOrder
  <2>2. bypassed' = bypassed
    BY <2>1 DEF Finalize
  <2>3. m \in InFlight' /\ m \in Chunks
    BY <1>2, <1>8 DEF InFlight
  <2>4. ASSUME NEW o \in Chunks, IsOldestOf(o, InFlight)' PROVE o = m
    <3> SUFFICES ASSUME o # m PROVE FALSE
      OBVIOUS
    <3>1. o \in InFlight /\ o \notin ticket.states
      BY <1>2, <2>4 DEF IsOldestOf
    <3>2. <<m, o>> \in older
      BY <1>6, <3>1 DEF SInv, AgeOrder, IsOldestOf, OlderIn
    <3>3. <<m, o>> \in older'
      BY <1>2, <1>8, <2>3, <3>1, <3>2
    <3> QED
      BY <2>3, <2>4, <3>3 DEF IsOldestOf, OlderIn
  <2>5. group[m] # ticket.group /\ status[m] = "READY" /\ group'[m] = group[m] /\ status'[m] = status[m]
    BY <1>1, <1>6, <1>8, <2>3, TicketElsewhere
  <2>6. ASSUME NEW c \in Chunks, NEW g \in Groups
        PROVE  CanPass(m, c, g)' <=> CanPass(m, c, g)
    <3>1. CASE c \notin ticket.states
      BY <1>1, <2>5, <3>1 DEF CanPass, NextGroup
    <3>2. CASE c \in ticket.states
      <4>1. NumGroups \in Nat /\ group[m] \in Nat /\ group[m] < NumGroups - 1 /\ g \in Nat /\ g < NumGroups
        BY <1>1, <1>3, <2>3, <2>5, SchedulerAssumption DEF Groups
      <4>2. group[c] = NumGroups - 1 /\ NextGroup(c) = group[c] + 1
        BY <1>1, <1>3, <3>2 DEF NextGroup
      <4>3. group'[c] = 0 /\ NextGroup(c)' = 0
        BY <1>1, <3>2 DEF NextGroup
      <4>4. CanPass(m, c, g) <=> g < group[m]
        BY <4>1, <4>2 DEF CanPass
      <4>5. CanPass(m, c, g)' <=> g < group[m]
        BY <2>5, <4>1, <4>3 DEF CanPass
      <4> QED
        BY <4>4, <4>5
    <3> QED
      BY <3>1, <3>2
  <2>7. StillToPass(m)' = StillToPass(m)
    BY <2>5, <2>6 DEF StillToPass
  <2>8. /\ bypassed + Cardinality(StillToPass(m)) <= PassedOverBound
    BY <1>1, <1>6, <2>3 DEF PassedOver
  <2> QED
    BY <1>4, <2>2, <2>3, <2>4, <2>5, <2>7, <2>8 DEF PassedOver
<1> QED
  BY <1>7, <1>8

(* Every step keeps the account.                                            *)
LEMMA StepKeepsPassedOver ==
  ASSUME SInv, SInv', PassedOver, OldestPassedOverBoundedly, [Next]_vars
  PROVE  PassedOver' /\ OldestPassedOverBoundedly'
<1>0. PassedOverBound \in Nat
  <2>1. PICK o \in Chunks : TRUE
    BY SchedulerAssumption
  <2>2. {} \in SUBSET ((Chunks \ {o}) \X (Groups \ {group[o]})) /\ group[o] \in Groups
    BY DEF SInv, TypeOK
  <2> QED
    BY <2>2, PassesAreBounded
<1>1. ASSUME bypassed' = bypassed \/ bypassed' = 0 PROVE OldestPassedOverBoundedly'
  BY <1>0, <1>1 DEF OldestPassedOverBoundedly, PassedOverBound
<1>2. CASE MarkRunning
  BY <1>2, MarkRunningKeepsPassedOver DEF OldestPassedOverBoundedly, PassedOverBound
<1>3. ASSUME NEW x \in Chunks, Admit(x) PROVE PassedOver'
  BY <1>3, AdmitKeepsPassedOver
<1>4. ASSUME NEW x \in Chunks, DeadlinePasses(x) PROVE PassedOver'
  BY <1>4, FramePassedOver DEF DeadlinePasses, InFlight, NextGroup, PassedOver
<1>5. CASE ChooseNext
  <2>1. PICK g \in Groups, S \in SUBSET Chunks : ReserveCandidate(g, S) /\ Idle /\ S \subseteq Ready(g)
    <3>1. CASE ChooseExpired
      BY <3>1, CohortIsReady
         DEF ChooseExpired, OldestExpired, IsOldestOf, Ready, SInv, TypeOK
    <3>2. CASE ChooseFifo
      BY <3>2, CohortIsReady, FifoAnchorIsOldest
         DEF ChooseFifo, IsOldestOf, Ready, SInv, TypeOK
    <3>3. CASE ChooseScored
      BY <3>3 DEF ChooseScored, EligibleGroups, ReadyGroups, PolicyCohorts, Window, FirstOf, Ready
    <3> QED
      BY <1>5, <3>1, <3>2, <3>3 DEF ChooseNext
  <2>2. /\ UNCHANGED <<group, older, bypassed>> /\ alive
        /\ \A c \in Chunks : status'[c] = status[c] \/ (status[c] = "READY" /\ status'[c] = "RESERVED")
    BY <2>1 DEF ReserveCandidate, Idle, Ready
  <2>3. InFlight' = InFlight
    BY <2>2 DEF InFlight
  <2>4. \A c \in Chunks : /\ NextGroup(c)' = NextGroup(c)
                          /\ status'[c] \in {"RUNNING", "FINALIZING"} => status[c] \in {"RUNNING", "FINALIZING"}
                          /\ status'[c] = "FINALIZING" => IsFinal(group[c])
    BY <2>2 DEF NextGroup, PassedOver
  <2> QED
    BY <1>1, <2>2, <2>3, <2>4, FramePassedOver
<1>6. CASE CompleteFinalGroup
  <2>1. /\ UNCHANGED <<group, older, bypassed>> /\ alive
        /\ \A c \in Chunks : status'[c] = IF c \in ticket.states THEN "FINALIZING" ELSE status[c]
        /\ \A c \in ticket.states : status[c] = "RUNNING" /\ IsFinal(group[c])
    BY <1>6 DEF CompleteFinalGroup, TicketIs, Become, SInv, TypeOK, TicketOwnsWhatIsOut
  <2>2. InFlight' = InFlight
    BY <2>1 DEF InFlight
  <2>3. \A c \in Chunks : /\ NextGroup(c)' = NextGroup(c)
                          /\ status'[c] \in {"RUNNING", "FINALIZING"} => status[c] \in {"RUNNING", "FINALIZING"}
                          /\ status'[c] = "FINALIZING" => IsFinal(group[c])
    BY <2>1 DEF NextGroup, PassedOver
  <2> QED
    BY <1>1, <2>1, <2>2, <2>3, FramePassedOver
<1>7. CASE CompleteInnerGroup
  BY <1>1, <1>7, CompleteInnerKeepsPassedOver DEF CompleteInnerGroup
<1>8. CASE Finalize
  <2>1. bypassed' = bypassed \/ bypassed' = 0
    BY <1>8 DEF Finalize
  <2> QED
    BY <1>1, <1>8, <2>1, FinalizeKeepsPassedOver
<1>9. CASE PackFails \/ RunFails
  BY <1>1, <1>9 DEF PackFails, RunFails, PassedOver
<1>10. CASE UNCHANGED vars
  <2>1. UNCHANGED <<status, group, older, alive, bypassed>>
    BY <1>10 DEF vars, svars
  <2>2. PassedOver'
    BY <2>1 DEF PassedOver, InFlight, IsOldestOf, OlderIn, StillToPass, CanPass, NextGroup, IsFinal
  <2> QED
    BY <1>1, <2>1, <2>2
<1>11. \A x \in Chunks : Admit(x) \/ DeadlinePasses(x) => bypassed' = bypassed
  BY DEF Admit, DeadlinePasses
<1> QED
  BY <1>1, <1>2, <1>3, <1>4, <1>5, <1>6, <1>7, <1>8, <1>9, <1>10, <1>11 DEF Next, Stopped

(* Whatever the policy prefers, the deadlines force and the streak rule     *)
(* excludes, the oldest chunk in flight is dispatched again after at most   *)
(* (places - 1) * (groups - 1) cohorts without it.                          *)
THEOREM OldestIsNotStarved == Spec => []OldestPassedOverBoundedly
<1>1. Init => PassedOver /\ OldestPassedOverBoundedly
  <2> SUFFICES ASSUME Init PROVE PassedOver /\ OldestPassedOverBoundedly
    OBVIOUS
  <2>1. InFlight = {} /\ bypassed = 0 /\ \A c \in Chunks : status[c] = "OUT" /\ group[c] = 0
    BY DEF Init, InFlight
  <2>2. PICK o \in Chunks : TRUE
    BY SchedulerAssumption
  <2>3. {} \in SUBSET ((Chunks \ {o}) \X (Groups \ {0})) /\ 0 \in Groups
    BY SchedulerAssumption DEF Groups
  <2>4. PassedOverBound \in Nat
    BY <2>3, PassesAreBounded
  <2> QED
    BY <2>1, <2>4 DEF PassedOver, OldestPassedOverBoundedly, IsOldestOf
<1>2. SInv /\ SInv' /\ PassedOver /\ OldestPassedOverBoundedly /\ [Next]_vars
        => PassedOver' /\ OldestPassedOverBoundedly'
  BY StepKeepsPassedOver
<1> QED
  BY <1>1, <1>2, SchedulerInvariant, PTL DEF Spec
=============================================================================
