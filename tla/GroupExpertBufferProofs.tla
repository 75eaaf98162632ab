---------------------- MODULE GroupExpertBufferProofs -----------------------
(***************************************************************************)
(* Proofs about GroupExpertBuffer for every number of groups, experts and  *)
(* slots, and any distance between the host and the GPU.                   *)
(***************************************************************************)
EXTENDS GroupExpertBuffer, TLAPS

SomeGroup  == Groups \cup {NoGroup}
SomeBuffer == Buffers \cup {NoBuffer}
SomePlan   == [Slots -> Experts \cup {NoExpert}]
Tickets    == [group : Groups, plan : Plans]
SomeTicket == [group : SomeGroup, plan : SomePlan]
Records ==
    [state : {"EMPTY", "LOADING", "READY", "ACTIVE", "REUSABLE"},
     group : SomeGroup, plan : SomePlan, valid : BOOLEAN, done : Nat]
Loads ==
    [dst : SomeBuffer, src : SomeBuffer, ticket : SomeTicket,
     from : [Slots -> [buf : SomeBuffer, slot : Slots]], wait : Nat]
Weights  == [Slots -> SomeGroup \X (Experts \cup {NoExpert})]
Launches == [buf : Buffers, weights : Weights]

Hosts == {"idle", "adopting", "begun", "active", "computed", "finished", "stopped"}
Futures == {"none", "queued", "preparing", "done", "failed"}

(* Every variable has its type; the copy stream holds one load at most.     *)
BufferTypeOK ==
    /\ rec \in [Buffers -> Records] /\ newest \in Buffers
    /\ host \in Hosts /\ future \in Futures
    /\ ticket \in SomeTicket
    /\ active \in SomeBuffer /\ last_finished \in SomeBuffer
    /\ pending \in [ticket : SomeTicket, target : SomeBuffer, source : SomeBuffer, zero : BOOLEAN]
    /\ adopted \in [buf : SomeBuffer, zero : BOOLEAN]
    /\ matched \in BOOLEAN
    /\ job \in Loads
    /\ copies \in Seq(Loads) /\ Len(copies) <= 1
    /\ serving \in Seq(Launches)
    /\ mem \in [Buffers -> Weights]

(* Where the serving thread is tells what it has under way.                 *)
Control ==
    /\ host \in {"active", "computed"} <=> active # NoBuffer
    /\ host \notin {"idle", "stopped"} => ticket \in Tickets
    /\ adopted.buf # NoBuffer => host = "begun"
    /\ adopted.buf = NoBuffer => ~ adopted.zero
    /\ future = "none" <=> pending = NoPending
    /\ future # "none" =>
          /\ host \in {"active", "computed", "finished", "idle", "adopting"}
          /\ pending.ticket \in Tickets /\ pending.target \in Buffers
    /\ host = "adopting" => future # "none"
    /\ host = "adopting" => IF matched THEN ticket = pending.ticket ELSE "differs" \in upsets
    /\ pending.zero => future = "done"
    /\ future = "failed" => "fails" \in upsets
    /\ future = "preparing" => job.dst = pending.target /\ job.ticket = pending.ticket

For(b, t) == rec[b].group = t.group /\ rec[b].plan = t.plan
Filling(b, t) == For(b, t) /\ rec[b].state = "LOADING" /\ ~ rec[b].valid

(* What the records say of the buffers somebody deals with.                 *)
RecordsFollow ==
    /\ active # NoBuffer =>
          For(active, ticket) /\ rec[active].state = "ACTIVE" /\ rec[active].valid
    /\ adopted.buf # NoBuffer =>
          IF adopted.zero THEN For(adopted.buf, ticket) /\ rec[adopted.buf].valid
          ELSE Filling(adopted.buf, ticket)
    /\ future # "none" =>
          IF pending.zero THEN For(pending.target, pending.ticket) /\ rec[pending.target].valid
          ELSE /\ pending.target # active
               /\ future # "queued" => Filling(pending.target, pending.ticket)
    /\ LoadingHasOwner

(* Somebody waits for what the copy stream is loading.                      *)
Awaited(load) ==
    \/ adopted.buf = load.dst /\ ~ adopted.zero /\ load.ticket = ticket
    \/ /\ pending.target = load.dst /\ ~ pending.zero /\ future = "done"
       /\ load.ticket = pending.ticket

(* What a load takes from a buffer is what its plan wants in that slot.     *)
Right(load) ==
    \A s \in Slots : load.from[s].buf # Host =>
        mem[load.from[s].buf][load.from[s].slot] = WeightsOf(load.ticket)[s]

(* A load is right from its planning to its end, and ends in the memory.    *)
LoadsAreRight ==
    /\ \A b \in Buffers : rec[b].valid =>
          mem[b] = WeightsOf([group |-> rec[b].group, plan |-> rec[b].plan])
    /\ copies # <<>> => copies[1].dst \in Buffers /\ Awaited(copies[1]) /\ Right(copies[1])
    /\ future = "preparing" => Right(job)
    /\ copies = <<>> =>
          /\ adopted.buf # NoBuffer /\ ~ adopted.zero => mem[adopted.buf] = WeightsOf(ticket)
          /\ future = "done" /\ ~ pending.zero =>
                mem[pending.target] = WeightsOf(pending.ticket)

(* The computes that read buffer b are among the first n.                   *)
Covers(n, b) == \A i \in DOMAIN serving : serving[i].buf = b => i <= n
(* What will be waited for before a buffer is written covers its readers.   *)
ReadersCovered ==
    upsets = {} =>
        /\ host # "stopped" => \A b \in Buffers \ {active} :
              Covers(rec[b].done, b) \/ ~ Landed(b)
        /\ copies # <<>> => Covers(copies[1].wait, copies[1].dst)
        /\ future = "preparing" => Covers(job.wait, job.dst)
        /\ ReadersKeepTheirWeights

BufferInv == BufferTypeOK /\ Control /\ RecordsFollow /\ LoadsAreRight /\ ReadersCovered

-----------------------------------------------------------------------------
(* The groups, plans and weights of tickets have their types. *)

(* A ticket names a group and an admissible plan.                           *)
LEMMA TicketTypes ==
  /\ Tickets \subseteq SomeTicket /\ NoTicket \in SomeTicket /\ NoTicket \notin Tickets
  /\ \A t \in SomeTicket : WeightsOf(t) \in Weights
<1>1. Groups \subseteq SomeGroup /\ NoGroup \in SomeGroup /\ NoGroup \notin Groups
  BY BufferAssumption DEF BufferAssumption, SomeGroup, Groups, NoGroup
<1>2. Plans \subseteq SomePlan /\ NoPlan \in SomePlan
  BY BufferAssumption DEF BufferAssumption, SomePlan, NoPlan
<1>3. \A t \in SomeTicket : WeightsOf(t) \in Weights
  BY DEF SomeTicket, SomePlan, WeightsOf, Weights
<1> QED
  BY <1>1, <1>2, <1>3 DEF Tickets, SomeTicket, NoTicket

(* Nothing under way concerns no buffer.                                    *)
LEMMA NoneIsNoBuffer ==
  /\ NoBuffer \notin Buffers /\ Host \notin Buffers /\ Host = NoBuffer
  /\ NoPending \in [ticket : SomeTicket, target : SomeBuffer, source : SomeBuffer, zero : BOOLEAN]
  /\ NoneAdopted \in [buf : SomeBuffer, zero : BOOLEAN]
BY TicketTypes DEF NoBuffer, Buffers, Host, NoPending, NoneAdopted, SomeBuffer

-----------------------------------------------------------------------------
(* Steps of the serving thread that move neither memory nor copies. *)

(* Taking a ticket touches no buffer.                                       *)
LEMMA BeginKeeps ==
  ASSUME BufferInv, NEW t \in Tickets, BeginAction(t)
  PROVE  BufferInv'
<1>1. /\ UNCHANGED <<rec, newest, active, last_finished, adopted, pending, future, job,
                     copies, serving, mem, upsets>>
      /\ host = "idle" /\ ticket' = t /\ t \in SomeTicket
  BY TicketTypes DEF BeginAction, gpuvars
<1>2. /\ active = NoBuffer /\ adopted.buf = NoBuffer /\ ~ adopted.zero
      /\ (future = "none") <=> (pending = NoPending)
  BY <1>1 DEF BufferInv, Control
<1>3. \/ future = "none" /\ host' = "begun" /\ matched' = FALSE
      \/ /\ future # "none" /\ host' = "adopting" /\ matched' \in BOOLEAN
         /\ IF matched' THEN t = pending.ticket ELSE "differs" \in upsets
  BY <1>1, <1>2 DEF BeginAction
<1>4. BufferTypeOK'
  BY <1>1, <1>3 DEF BufferInv, BufferTypeOK, Hosts
<1>5. Control'
  BY <1>1, <1>2, <1>3 DEF BufferInv, Control
<1>6. RecordsFollow'
  BY <1>1, <1>2 DEF BufferInv, RecordsFollow, For, Filling, LoadingHasOwner
<1>7. LoadsAreRight'
  BY <1>1, <1>2, NoneIsNoBuffer DEF BufferInv, LoadsAreRight, Awaited, Right
<1>8. ReadersCovered'
  BY <1>1, <1>3 DEF BufferInv, ReadersCovered, Covers, Landed, ReadersKeepTheirWeights
<1> QED
  BY <1>4, <1>5, <1>6, <1>7, <1>8 DEF BufferInv

(* An adopted lookahead becomes the load the action waits for.              *)
LEMMA AdoptKeeps ==
  ASSUME BufferInv, AdoptPending
  PROVE  BufferInv'
<1>1. /\ UNCHANGED <<rec, newest, active, last_finished, ticket, job, copies, serving, mem, upsets>>
      /\ host = "adopting" /\ matched /\ future = "done"
      /\ adopted' = [buf |-> pending.target, zero |-> pending.zero]
      /\ pending' = NoPending /\ future' = "none" /\ host' = "begun" /\ matched' = FALSE
  BY DEF AdoptPending, ForgetPending, gpuvars
<1>2. /\ active = NoBuffer /\ adopted.buf = NoBuffer /\ ~ adopted.zero
      /\ pending.ticket = ticket /\ ticket \in Tickets /\ pending.target \in Buffers
  BY <1>1 DEF BufferInv, Control
<1>3. /\ adopted'.buf = pending.target /\ adopted'.zero = pending.zero
      /\ pending'.target = NoBuffer /\ ~ pending'.zero /\ NoBuffer \notin Buffers
  BY <1>1, NoneIsNoBuffer DEF NoPending
<1>4. BufferTypeOK'
  BY <1>1, <1>2, <1>3, NoneIsNoBuffer DEF BufferInv, BufferTypeOK, Hosts, Futures, SomeBuffer
<1>5. Control'
  BY <1>1, <1>2, <1>3 DEF BufferInv, Control
<1>6. RecordsFollow'
  BY <1>1, <1>2, <1>3 DEF BufferInv, RecordsFollow, For, Filling, LoadingHasOwner
<1>7. LoadsAreRight'
  BY <1>1, <1>2, <1>3 DEF BufferInv, LoadsAreRight, Awaited, Right
<1>8. ReadersCovered'
  BY <1>1 DEF BufferInv, ReadersCovered, Covers, Landed, ReadersKeepTheirWeights
<1> QED
  BY <1>4, <1>5, <1>6, <1>7, <1>8 DEF BufferInv

(* A lookahead is dropped only after something went wrong with it.          *)
LEMMA DiscardKeeps ==
  ASSUME BufferInv, DiscardPending
  PROVE  BufferInv'
<1>1. /\ UNCHANGED <<newest, active, last_finished, ticket, adopted, job, copies, serving, mem, upsets>>
      /\ host = "adopting" /\ Unwanted /\ copies = <<>>
      /\ rec' = [rec EXCEPT ![pending.target] = EmptyRecord]
      /\ pending' = NoPending /\ future' = "none" /\ host' = "begun" /\ matched' = FALSE
  BY DEF DiscardPending, ForgetPending, gpuvars
<1>2. /\ active = NoBuffer /\ adopted.buf = NoBuffer /\ ~ adopted.zero
      /\ ticket \in Tickets /\ pending.target \in Buffers /\ upsets # {}
  BY <1>1 DEF BufferInv, Control, Unwanted
<1>3. pending'.target = NoBuffer /\ ~ pending'.zero /\ NoBuffer \notin Buffers
  BY <1>1, NoneIsNoBuffer DEF NoPending
<1>4. /\ EmptyRecord \in Records /\ EmptyRecord.state = "EMPTY" /\ ~ EmptyRecord.valid
      /\ rec'[pending.target] = EmptyRecord
      /\ \A b \in Buffers \ {pending.target} : rec'[b] = rec[b]
  BY <1>1, <1>2, TicketTypes
     DEF EmptyRecord, Records, NoTicket, SomeTicket, BufferInv, BufferTypeOK
<1>5. BufferTypeOK'
  <2>1. rec' \in [Buffers -> Records]
    BY <1>1, <1>4 DEF BufferInv, BufferTypeOK
  <2> QED
    BY <1>1, <1>2, <1>3, <2>1, NoneIsNoBuffer DEF BufferInv, BufferTypeOK, Hosts, Futures
<1>6. Control'
  BY <1>1, <1>2, <1>3 DEF BufferInv, Control
<1>7. RecordsFollow'
  BY <1>1, <1>2, <1>3, <1>4 DEF BufferInv, RecordsFollow, For, Filling, LoadingHasOwner
<1>8. LoadsAreRight'
  BY <1>1, <1>2, <1>3, <1>4 DEF BufferInv, LoadsAreRight, Awaited, Right
<1>9. ReadersCovered'
  BY <1>1, <1>2 DEF ReadersCovered
<1> QED
  BY <1>5, <1>6, <1>7, <1>8, <1>9 DEF BufferInv

(* Ending an action needs everything adopted to be settled.                 *)
LEMMA EndKeeps ==
  ASSUME BufferInv, EndAction
  PROVE  BufferInv'
<1>1. /\ UNCHANGED <<rec, newest, active, last_finished, matched, adopted, pending, future, job,
                     copies, serving, mem, upsets>>
      /\ host = "finished" /\ host' = "idle" /\ ticket' = NoTicket
  BY DEF EndAction, gpuvars
<1>2. active = NoBuffer /\ adopted.buf = NoBuffer /\ ~ adopted.zero
  BY <1>1 DEF BufferInv, Control
<1>4. BufferTypeOK'
  BY <1>1, TicketTypes DEF BufferInv, BufferTypeOK, Hosts
<1>5. Control'
  BY <1>1, <1>2 DEF BufferInv, Control
<1>6. RecordsFollow'
  BY <1>1, <1>2 DEF BufferInv, RecordsFollow, For, Filling, LoadingHasOwner
<1>7. LoadsAreRight'
  BY <1>1, <1>2, NoneIsNoBuffer DEF BufferInv, LoadsAreRight, Awaited, Right
<1>8. ReadersCovered'
  BY <1>1 DEF BufferInv, ReadersCovered, Covers, Landed, ReadersKeepTheirWeights
<1> QED
  BY <1>4, <1>5, <1>6, <1>7, <1>8 DEF BufferInv

-----------------------------------------------------------------------------
(* What the other steps of the serving thread need. *)

(* The copy stream is empty or holds the one load somebody waits for.       *)
LEMMA OneLoad ==
  ASSUME BufferTypeOK
  PROVE  \/ copies = <<>> /\ DOMAIN copies = {} /\ \A b : Landed(b)
         \/ /\ copies # <<>> /\ DOMAIN copies = {1} /\ Len(copies) = 1
            /\ copies[1] \in Loads
            /\ \A b : Landed(b) <=> copies[1].dst # b
<1>1. CASE copies = <<>>
  BY <1>1 DEF Landed
<1>2. CASE copies # <<>>
  <2> DEFINE n == Len(copies)
  <2>1. n \in Nat /\ n # 0 /\ n <= 1 /\ DOMAIN copies = 1 .. n
    BY <1>2 DEF BufferTypeOK
  <2> HIDE DEF n
  <2>2. n = 1 /\ DOMAIN copies = {1}
    BY <2>1
  <2>3. copies[1] \in Loads
    BY <2>2 DEF BufferTypeOK
  <2> QED
    BY <1>2, <2>2, <2>3 DEF Landed, n
<1> QED
  BY <1>1, <1>2

(* With nothing adopted or looked ahead, nothing is copied or LOADING.      *)
LEMMA NoOwnerNoLoad ==
  ASSUME BufferInv, adopted.buf = NoBuffer \/ adopted.zero,
         future # "done" \/ pending.zero
  PROVE  /\ copies = <<>> /\ \A b : Landed(b)
         /\ host # "stopped" /\ future = "none" =>
                \A b \in Buffers : rec[b].state # "LOADING"
<1>1. copies = <<>>
  BY NoneIsNoBuffer DEF BufferInv, LoadsAreRight, Awaited
<1>2. \A b : Landed(b)
  BY <1>1, OneLoad DEF BufferInv
<1>3. host # "stopped" /\ future = "none" => \A b \in Buffers : rec[b].state # "LOADING"
  BY NoneIsNoBuffer DEF BufferInv, Control, RecordsFollow, LoadingHasOwner, NoPending
<1> QED
  BY <1>1, <1>2, <1>3

(* A record that is valid is not being written.                             *)
LEMMA ValidHasLanded ==
  ASSUME BufferInv, NEW b \in Buffers, rec[b].valid
  PROVE  Landed(b)
<1>1. CASE copies = <<>>
  BY <1>1, OneLoad DEF BufferInv
<1>2. CASE copies # <<>>
  <2>1. Awaited(copies[1]) /\ copies[1].dst \in Buffers
    BY <1>2 DEF BufferInv, LoadsAreRight
  <2>2. ~ rec[copies[1].dst].valid
    BY <2>1, NoneIsNoBuffer DEF Awaited, BufferInv, RecordsFollow, Filling
  <2> QED
    BY <1>2, <2>2, OneLoad DEF BufferInv
<1> QED
  BY <1>1, <1>2

(* A buffer that is preferred is one of those to choose from.               *)
LEMMA PreferPicks ==
  ASSUME NEW S \in SUBSET Buffers, NEW b
  PROVE  IF S = {} THEN Prefer(S, b) = NoBuffer ELSE Prefer(S, b) \in S
BY DEF Prefer

(* The weights of a record for a ticket are the ticket's.                   *)
LEMMA SameWeights ==
  ASSUME NEW b, NEW t, For(b, t)
  PROVE  WeightsOf([group |-> rec[b].group, plan |-> rec[b].plan]) = WeightsOf(t)
BY DEF For, WeightsOf

-----------------------------------------------------------------------------
(* Computing. *)

(* The host enqueues a compute behind those it has enqueued.                *)
LEMMA ForwardKeeps ==
  ASSUME BufferInv, Forward
  PROVE  BufferInv'
<1> DEFINE n == Len(serving)
           launch == [buf |-> active, weights |-> WeightsOf(ticket)]
<1>1. /\ UNCHANGED <<rec, newest, ticket, active, last_finished, matched, adopted,
                     pending, future, job, copies, mem, upsets>>
      /\ host = "active" /\ host' = "computed" /\ serving' = Append(serving, launch)
  BY DEF Forward
<1>2. active \in Buffers /\ adopted.buf = NoBuffer /\ ~ adopted.zero /\ ticket \in SomeTicket
  BY <1>1 DEF BufferInv, Control, BufferTypeOK, SomeBuffer
<1>3. launch \in Launches /\ launch.buf = active
  BY <1>2, TicketTypes DEF Launches
<1>4. mem[active] = launch.weights
  <2>1. For(active, ticket) /\ rec[active].valid
    BY <1>2, NoneIsNoBuffer DEF BufferInv, RecordsFollow
  <2> QED
    BY <1>2, <2>1, SameWeights DEF BufferInv, LoadsAreRight
<1> HIDE DEF launch
<1>5. /\ n \in Nat /\ DOMAIN serving = 1 .. n /\ DOMAIN serving' = 1 .. (n + 1)
      /\ serving' \in Seq(Launches) /\ serving'[n + 1] = launch
      /\ \A i \in 1 .. n : serving'[i] = serving[i]
  BY <1>1, <1>3 DEF BufferInv, BufferTypeOK
<1>6. BufferTypeOK'
  BY <1>1, <1>5 DEF BufferInv, BufferTypeOK, Hosts
<1>7. Control'
  BY <1>1 DEF BufferInv, Control
<1>8. RecordsFollow'
  BY <1>1 DEF BufferInv, RecordsFollow, For, Filling, LoadingHasOwner
<1>9. LoadsAreRight'
  BY <1>1 DEF BufferInv, LoadsAreRight, Awaited, Right
<1>10. ReadersCovered'
  <2> SUFFICES ASSUME upsets = {} PROVE ReadersCovered'
    BY <1>1 DEF ReadersCovered
  <2>1. \A i \in DOMAIN serving' : serving'[i].buf # active =>
            i \in DOMAIN serving /\ serving'[i] = serving[i]
    BY <1>3, <1>5
  <2>2. ASSUME NEW b \in Buffers \ {active}
        PROVE  Covers(rec[b].done, b)' \/ ~ Landed(b)'
    <3>1. Covers(rec[b].done, b) \/ ~ Landed(b)
      BY <1>1 DEF BufferInv, ReadersCovered
    <3> QED
      BY <1>1, <2>1, <3>1 DEF Covers, Landed
  <2>3. copies # <<>> => copies[1].dst # active
    BY <1>2, NoneIsNoBuffer DEF BufferInv, LoadsAreRight, Awaited, RecordsFollow
  <2>4. copies' # <<>> => Covers(copies[1].wait, copies[1].dst)'
    BY <1>1, <2>1, <2>3 DEF BufferInv, ReadersCovered, Covers
  <2>5. future = "preparing" => job.dst # active
    BY DEF BufferInv, Control, RecordsFollow
  <2>6. future' = "preparing" => Covers(job.wait, job.dst)'
    BY <1>1, <2>1, <2>5 DEF BufferInv, ReadersCovered, Covers
  <2>7. ReadersKeepTheirWeights'
    BY <1>1, <1>3, <1>4, <1>5 DEF BufferInv, ReadersCovered, ReadersKeepTheirWeights
  <2> QED
    BY <1>1, <2>2, <2>4, <2>6, <2>7 DEF ReadersCovered
<1> QED
  BY <1>6, <1>7, <1>8, <1>9, <1>10 DEF BufferInv

(* Finishing a group records the compute others must wait for.              *)
LEMMA FinishKeeps ==
  ASSUME BufferInv, FinishGroup
  PROVE  BufferInv'
<1>1. /\ UNCHANGED <<newest, ticket, matched, adopted, pending, future, job, copies, serving,
                     mem, upsets>>
      /\ host = "computed" /\ host' = "finished" /\ active' = NoBuffer
      /\ last_finished' = active
      /\ rec' = [rec EXCEPT ![active].state = "REUSABLE", ![active].done = Len(serving)]
  BY DEF FinishGroup, gpuvars
<1>2. active \in Buffers /\ adopted.buf = NoBuffer /\ ~ adopted.zero
  BY <1>1 DEF BufferInv, Control, BufferTypeOK, SomeBuffer
<1>3. /\ rec' \in [Buffers -> Records]
      /\ \A b \in Buffers \ {active} : rec'[b] = rec[b]
      /\ rec'[active].state = "REUSABLE" /\ rec'[active].done = Len(serving)
      /\ \A b \in Buffers : /\ rec'[b].valid = rec[b].valid /\ rec'[b].group = rec[b].group
                            /\ rec'[b].plan = rec[b].plan
  <2> DEFINE r == [rec[active] EXCEPT !.state = "REUSABLE", !.done = Len(serving)]
  <2>1. rec \in [Buffers -> Records] /\ rec[active] \in Records /\ Len(serving) \in Nat
    BY <1>2 DEF BufferInv, BufferTypeOK
  <2>2. /\ r \in Records /\ r.state = "REUSABLE" /\ r.done = Len(serving)
        /\ r.valid = rec[active].valid /\ r.group = rec[active].group /\ r.plan = rec[active].plan
    BY <2>1 DEF Records
  <2>3. rec' = [rec EXCEPT ![active] = r]
    BY <1>1, <1>2, <2>1
  <2> HIDE DEF r
  <2> QED
    BY <1>2, <2>1, <2>2, <2>3
<1>4. BufferTypeOK'
  BY <1>1, <1>2, <1>3 DEF BufferInv, BufferTypeOK, Hosts, SomeBuffer
<1>5. Control'
  BY <1>1 DEF BufferInv, Control
<1>6. RecordsFollow'
  BY <1>1, <1>2, <1>3, NoneIsNoBuffer
     DEF BufferInv, Control, RecordsFollow, For, Filling, LoadingHasOwner
<1>7. LoadsAreRight'
  <2>1. \A b \in Buffers : rec'[b].valid =>
            mem'[b] = WeightsOf([group |-> rec'[b].group, plan |-> rec'[b].plan])
    BY <1>1, <1>3 DEF BufferInv, LoadsAreRight
  <2>2. /\ Awaited(copies[1])' <=> Awaited(copies[1])
        /\ Right(copies[1])' <=> Right(copies[1])
        /\ Right(job)' <=> Right(job)
    BY <1>1 DEF Awaited, Right
  <2> QED
    BY <1>1, <2>1, <2>2 DEF BufferInv, LoadsAreRight
<1>8. ReadersCovered'
  <2> SUFFICES ASSUME upsets = {} PROVE ReadersCovered'
    BY <1>1 DEF ReadersCovered
  <2>1. Covers(rec'[active].done, active)
    BY <1>3 DEF Covers, BufferInv, BufferTypeOK
  <2>2. \A b \in Buffers : Covers(rec'[b].done, b) \/ ~ Landed(b)
    BY <1>1, <1>3, <2>1 DEF BufferInv, ReadersCovered
  <2>3. \A b \in Buffers : Covers(rec[b].done, b)' \/ ~ Landed(b)'
    BY <1>1, <2>2 DEF Covers, Landed
  <2> QED
    BY <1>1, <2>3 DEF BufferInv, ReadersCovered, Covers, ReadersKeepTheirWeights
<1> QED
  BY <1>4, <1>5, <1>6, <1>7, <1>8 DEF BufferInv

-----------------------------------------------------------------------------
(* Committing a buffer. *)

(* What is committed after a load is what was planned for it.               *)
LEMMA CommitLoadedKeeps ==
  ASSUME BufferInv, ActivateLoaded
  PROVE  BufferInv'
<1> DEFINE b0 == adopted.buf
<1>1. /\ UNCHANGED <<ticket, last_finished, matched, pending, future, job, copies, serving,
                     mem, upsets>>
      /\ host = "begun" /\ host' = "active" /\ active' = b0 /\ newest' = b0
      /\ b0 # NoBuffer /\ ~ adopted.zero /\ Landed(b0)
      /\ adopted' = NoneAdopted
      /\ rec' = [rec EXCEPT ![b0].state = "ACTIVE", ![b0].valid = TRUE]
  BY DEF ActivateLoaded, Commit, gpuvars
<1>2. /\ b0 \in Buffers /\ future = "none" /\ pending = NoPending /\ active = NoBuffer
      /\ ~ pending.zero /\ pending.target = NoBuffer
  BY <1>1 DEF BufferInv, Control, BufferTypeOK, SomeBuffer, NoPending
<1>3. copies = <<>>
  BY <1>1, <1>2, OneLoad DEF BufferInv, LoadsAreRight, Awaited
<1>4. For(b0, ticket) /\ mem[b0] = WeightsOf(ticket)
  BY <1>1, <1>3 DEF BufferInv, RecordsFollow, Filling, LoadsAreRight
<1>5. /\ rec' \in [Buffers -> Records]
      /\ \A b \in Buffers \ {b0} : rec'[b] = rec[b]
      /\ rec'[b0].state = "ACTIVE" /\ rec'[b0].valid
      /\ \A b \in Buffers : /\ rec'[b].done = rec[b].done /\ rec'[b].group = rec[b].group
                            /\ rec'[b].plan = rec[b].plan
  <2> DEFINE r == [rec[b0] EXCEPT !.state = "ACTIVE", !.valid = TRUE]
  <2>1. rec \in [Buffers -> Records] /\ rec[b0] \in Records
    BY <1>2 DEF BufferInv, BufferTypeOK
  <2>2. /\ r \in Records /\ r.state = "ACTIVE" /\ r.valid = TRUE
        /\ r.done = rec[b0].done /\ r.group = rec[b0].group /\ r.plan = rec[b0].plan
    BY <2>1 DEF Records
  <2>3. rec' = [rec EXCEPT ![b0] = r]
    BY <1>1, <1>2, <2>1
  <2> HIDE DEF r, b0
  <2> QED
    BY <1>2, <2>1, <2>2, <2>3
<1>6. adopted'.buf = NoBuffer /\ ~ adopted'.zero
  BY <1>1 DEF NoneAdopted
<1>7. \A b \in Buffers \ {b0} : rec[b].state # "LOADING"
  BY <1>1, <1>2, NoneIsNoBuffer DEF BufferInv, RecordsFollow, LoadingHasOwner
<1> HIDE DEF b0
<1>8. BufferTypeOK'
  BY <1>1, <1>2, <1>5, NoneIsNoBuffer DEF BufferInv, BufferTypeOK, Hosts, SomeBuffer
<1>9. Control'
  BY <1>1, <1>2, <1>6, NoneIsNoBuffer DEF BufferInv, Control
<1>10. RecordsFollow'
  <2>1. For(active, ticket)' /\ rec'[active'].state = "ACTIVE" /\ rec'[active'].valid
    BY <1>1, <1>2, <1>4, <1>5 DEF For
  <2> QED
    BY <1>1, <1>2, <1>4, <1>5, <1>6, <1>7
       DEF RecordsFollow, For, LoadingHasOwner
<1>11. LoadsAreRight'
  <2>1. WeightsOf([group |-> rec[b0].group, plan |-> rec[b0].plan]) = WeightsOf(ticket)
    BY <1>4, SameWeights
  <2> QED
    BY <1>1, <1>2, <1>3, <1>4, <1>5, <1>6, <2>1 DEF BufferInv, LoadsAreRight
<1>12. ReadersCovered'
  BY <1>1, <1>2, <1>3, <1>5, NoneIsNoBuffer
     DEF BufferInv, ReadersCovered, Covers, Landed, ReadersKeepTheirWeights
<1> QED
  BY <1>8, <1>9, <1>10, <1>11, <1>12 DEF BufferInv

(* A record that already holds the plan is committed without a load.        *)
LEMMA CommitResidentKeeps ==
  ASSUME BufferInv, ActivateResident
  PROVE  BufferInv'
<1> DEFINE b0 == ReusedRecord
<1>1. /\ UNCHANGED <<ticket, newest, last_finished, matched, pending, future, job, copies,
                     serving, mem, upsets>>
      /\ host = "begun" /\ host' = "active" /\ active' = b0 /\ b0 # NoBuffer
      /\ adopted' = NoneAdopted
      /\ rec' = [rec EXCEPT ![b0].state = "ACTIVE"]
  BY DEF ActivateResident, Commit, gpuvars
<1>2. /\ future = "none" /\ pending = NoPending /\ active = NoBuffer
      /\ ~ pending.zero /\ pending.target = NoBuffer
  BY <1>1 DEF BufferInv, Control, NoPending
<1>3. /\ b0 \in Buffers /\ For(b0, ticket) /\ rec[b0].valid
      /\ adopted.buf = NoBuffer \/ adopted.zero
  <2>1. CASE adopted.zero
    <3>1. b0 = adopted.buf
      BY <2>1 DEF ReusedRecord
    <3> QED
      BY <1>1, <2>1, <3>1 DEF BufferInv, RecordsFollow, BufferTypeOK, SomeBuffer
  <2>2. CASE ~ adopted.zero
    <3> DEFINE S == {b \in Buffers : Settled(b) /\ HasExact(b, ticket)}
    <3>1. adopted.buf = NoBuffer /\ b0 = Prefer(S, last_finished)
      BY <1>1, <2>2 DEF ReusedRecord, ExactSettled
    <3>2. b0 \in S
      BY <1>1, <3>1, PreferPicks
    <3> HIDE DEF b0
    <3> QED
      BY <3>1, <3>2 DEF HasExact, For
  <2> QED
    BY <2>1, <2>2
<1> HIDE DEF b0
<1>4. copies = <<>> /\ \A b \in Buffers : rec[b].state # "LOADING"
  BY <1>1, <1>2, <1>3, NoOwnerNoLoad
<1>5. /\ rec' \in [Buffers -> Records]
      /\ \A b \in Buffers \ {b0} : rec'[b] = rec[b]
      /\ rec'[b0].state = "ACTIVE"
      /\ \A b \in Buffers : /\ rec'[b].done = rec[b].done /\ rec'[b].group = rec[b].group
                            /\ rec'[b].plan = rec[b].plan /\ rec'[b].valid = rec[b].valid
  <2> DEFINE r == [rec[b0] EXCEPT !.state = "ACTIVE"]
  <2>1. rec \in [Buffers -> Records] /\ rec[b0] \in Records
    BY <1>3 DEF BufferInv, BufferTypeOK
  <2>2. /\ r \in Records /\ r.state = "ACTIVE" /\ r.valid = rec[b0].valid
        /\ r.done = rec[b0].done /\ r.group = rec[b0].group /\ r.plan = rec[b0].plan
    BY <2>1 DEF Records
  <2>3. rec' = [rec EXCEPT ![b0] = r]
    BY <1>1
  <2> HIDE DEF r
  <2> QED
    BY <1>3, <2>1, <2>2, <2>3
<1>6. adopted'.buf = NoBuffer /\ ~ adopted'.zero
  BY <1>1 DEF NoneAdopted
<1>7. BufferTypeOK'
  BY <1>1, <1>3, <1>5, NoneIsNoBuffer DEF BufferInv, BufferTypeOK, Hosts, SomeBuffer
<1>8. Control'
  BY <1>1, <1>2, <1>6 DEF BufferInv, Control
<1>9. RecordsFollow'
  BY <1>1, <1>2, <1>3, <1>4, <1>5, <1>6 DEF RecordsFollow, For, LoadingHasOwner
<1>10. LoadsAreRight'
  BY <1>1, <1>2, <1>4, <1>5, <1>6 DEF BufferInv, LoadsAreRight
<1>11. ReadersCovered'
  BY <1>1, <1>2, <1>4, <1>5, NoneIsNoBuffer
     DEF BufferInv, ReadersCovered, Covers, Landed, ReadersKeepTheirWeights
<1> QED
  BY <1>7, <1>8, <1>9, <1>10, <1>11 DEF BufferInv

(* Giving up.                                                               *)
LEMMA AbortKeeps ==
  ASSUME BufferInv, AbortStep
  PROVE  BufferInv'
<1>1. /\ UNCHANGED <<newest, last_finished, matched, job, copies, serving, mem, upsets>>
      /\ copies = <<>> /\ host' = "stopped" /\ ticket' = NoTicket /\ active' = NoBuffer
      /\ adopted' = NoneAdopted /\ pending' = NoPending /\ future' = "none"
      /\ rec' = [b \in Buffers |->
            IF b = pending.target /\ rec[b].state # "ACTIVE" THEN EmptyRecord
            ELSE IF rec[b].state = "EMPTY" THEN rec[b]
            ELSE [rec[b] EXCEPT !.state = "REUSABLE"]]
  BY DEF AbortStep, gpuvars
<1>2. EmptyRecord \in Records /\ ~ EmptyRecord.valid
  BY TicketTypes DEF EmptyRecord, Records, NoTicket, SomeTicket
<1>3. \A b \in Buffers :
        /\ rec'[b] \in Records
        /\ rec'[b].valid => /\ rec[b].valid /\ rec'[b].group = rec[b].group
                            /\ rec'[b].plan = rec[b].plan
  <2> TAKE b \in Buffers
  <2> DEFINE r == [rec[b] EXCEPT !.state = "REUSABLE"]
  <2>1. /\ rec[b] \in Records /\ r \in Records /\ r.valid = rec[b].valid
        /\ r.group = rec[b].group /\ r.plan = rec[b].plan
    BY DEF BufferInv, BufferTypeOK, Records
  <2>2. rec'[b] = EmptyRecord \/ rec'[b] = rec[b] \/ rec'[b] = r
    BY <1>1
  <2> HIDE DEF r
  <2> QED
    BY <1>2, <2>1, <2>2
<1>4. rec' \in [Buffers -> Records]
  BY <1>1, <1>3
<1>5. /\ adopted'.buf = NoBuffer /\ ~ adopted'.zero
      /\ pending'.target = NoBuffer /\ ~ pending'.zero
  BY <1>1 DEF NoneAdopted, NoPending
<1>6. BufferTypeOK'
  BY <1>1, <1>4, NoneIsNoBuffer, TicketTypes
     DEF BufferInv, BufferTypeOK, Hosts, Futures, SomeBuffer
<1>7. Control'
  BY <1>1, <1>5 DEF BufferInv, Control
<1>8. RecordsFollow'
  BY <1>1, <1>5 DEF RecordsFollow, LoadingHasOwner
<1>9. LoadsAreRight'
  <2>1. \A b \in Buffers : rec'[b].valid =>
            mem'[b] = WeightsOf([group |-> rec'[b].group, plan |-> rec'[b].plan])
    <3> TAKE b \in Buffers
    <3> HAVE rec'[b].valid
    <3>1. rec[b].valid /\ rec'[b].group = rec[b].group /\ rec'[b].plan = rec[b].plan
      BY <1>3
    <3>2. mem[b] = WeightsOf([group |-> rec[b].group, plan |-> rec[b].plan])
      BY <3>1 DEF BufferInv, LoadsAreRight
    <3> QED
      BY <1>1, <3>1, <3>2
  <2>2. copies' = <<>> /\ future' = "none"
    BY <1>1
  <2>3. copies' # <<>> => /\ copies'[1].dst \in Buffers
                          /\ Awaited(copies[1])' /\ Right(copies[1])'
    BY <2>2
  <2>4. /\ adopted'.buf # NoBuffer /\ ~ adopted'.zero => mem'[adopted'.buf] = WeightsOf(ticket')
        /\ future' = "done" /\ ~ pending'.zero =>
              mem'[pending'.target] = WeightsOf(pending'.ticket)
    BY <1>5, <2>2
  <2>5. future' # "preparing"
    BY <2>2
  <2> QED
    BY <2>1, <2>3, <2>4, <2>5 DEF LoadsAreRight
<1>10. ReadersCovered'
  BY <1>1 DEF BufferInv, ReadersCovered, ReadersKeepTheirWeights
<1> QED
  BY <1>6, <1>7, <1>8, <1>9, <1>10 DEF BufferInv

-----------------------------------------------------------------------------
(* Looking ahead. *)

(* A lookahead is planned only when none is pending.                        *)
LEMMA PrefetchKeeps ==
  ASSUME BufferInv, NEW t \in Tickets, PrefetchAction(t)
  PROVE  BufferInv'
<1> DEFINE resident == IF Materialization = "delta" THEN ExactUsable(t) ELSE NoBuffer
<1>1. /\ UNCHANGED <<rec, newest, host, ticket, active, last_finished, matched, adopted, job,
                     copies, serving, mem, upsets>>
      /\ host = "active" /\ pending = NoPending
  BY DEF PrefetchAction, hostvars, gpuvars
<1>2. /\ active \in Buffers /\ adopted.buf = NoBuffer /\ ~ adopted.zero /\ future = "none"
  BY <1>1 DEF BufferInv, Control, BufferTypeOK, SomeBuffer
<1>3. copies = <<>> /\ \A b \in Buffers : rec[b].state # "LOADING"
  BY <1>1, <1>2, NoOwnerNoLoad
<1>4. \/ /\ pending'.zero /\ future' = "done"
         /\ pending'.target \in Buffers /\ pending'.source \in Buffers
         /\ For(pending'.target, t) /\ rec[pending'.target].valid
      \/ /\ ~ pending'.zero /\ future' = "queued"
         /\ pending'.target \in Buffers /\ pending'.source \in SomeBuffer
         /\ pending'.target # active
  <2>1. CASE resident # NoBuffer
    <3>1. /\ pending' = [ticket |-> t, target |-> resident, source |-> resident, zero |-> TRUE]
          /\ future' = "done"
      BY <2>1 DEF PrefetchAction
    <3>2. resident \in {b \in Buffers : Usable(b) /\ HasExact(b, t)}
      BY <2>1, PreferPicks DEF ExactUsable
    <3> HIDE DEF resident
    <3> QED
      BY <3>1, <3>2 DEF HasExact, For
  <2>2. CASE resident = NoBuffer
    <3> DEFINE source == IF Materialization = "delta" THEN LatestRecordAny(t.group) ELSE NoBuffer
    <3>1. /\ pending' = [ticket |-> t, target |-> LookaheadTarget, zero |-> FALSE,
                         source |-> source]
          /\ future' = "queued"
      BY <2>2 DEF PrefetchAction
    <3>2. source \in SomeBuffer
      BY PreferPicks DEF LatestRecordAny, SomeBuffer
    <3>3. LookaheadTarget \in Buffers /\ LookaheadTarget # active
      BY <1>2 DEF LookaheadTarget, Other, Buffers
    <3> HIDE DEF source
    <3> QED
      BY <3>1, <3>2, <3>3
  <2> QED
    BY <2>1, <2>2
<1>5. pending'.ticket = t /\ pending' # NoPending
      /\ pending' \in [ticket : SomeTicket, target : SomeBuffer, source : SomeBuffer, zero : BOOLEAN]
  <2>1. \E b, s : \E z \in BOOLEAN :
            pending' = [ticket |-> t, target |-> b, source |-> s, zero |-> z]
    BY DEF PrefetchAction
  <2> QED
    BY <1>4, <2>1, TicketTypes, NoneIsNoBuffer DEF NoPending, SomeBuffer
<1>6. BufferTypeOK'
  BY <1>1, <1>4, <1>5 DEF BufferInv, BufferTypeOK, Futures
<1>7. Control'
  BY <1>1, <1>2, <1>4, <1>5 DEF BufferInv, Control
<1>8. RecordsFollow'
  BY <1>1, <1>2, <1>3, <1>4, <1>5 DEF BufferInv, RecordsFollow, For, LoadingHasOwner
<1>9. LoadsAreRight'
  BY <1>1, <1>2, <1>3, <1>4 DEF BufferInv, LoadsAreRight
<1>10. ReadersCovered'
  BY <1>1, <1>3, <1>4 DEF BufferInv, ReadersCovered, Covers, Landed, ReadersKeepTheirWeights
<1> QED
  BY <1>6, <1>7, <1>8, <1>9, <1>10 DEF BufferInv

-----------------------------------------------------------------------------
(* Loading. *)

(* Deltas are right because valid records say what is in the memory.        *)
LEMMA PlanIsRight ==
  ASSUME BufferInv, NEW dst \in Buffers, NEW src \in SomeBuffer, NEW t \in Tickets
  PROVE  /\ PlanLoad(dst, src, t) \in Loads /\ Right(PlanLoad(dst, src, t))
         /\ PlanLoad(dst, src, t).dst = dst /\ PlanLoad(dst, src, t).ticket = t
         /\ PlanLoad(dst, src, t).wait = rec[dst].done
<1> DEFINE from == PlanCopies(dst, src, t)
<1>1. \A b \in Buffers : rec[b] \in Records
  BY DEF BufferInv, BufferTypeOK
<1>2. ASSUME NEW b \in SomeBuffer, Holds(b, t.group), NEW s \in Slots
      PROVE  /\ b \in Buffers /\ DOMAIN rec[b].plan = Slots
             /\ mem[b][s] = <<t.group, rec[b].plan[s]>>
  <2>1. b \in Buffers /\ rec[b].valid /\ rec[b].group = t.group
    BY <1>2 DEF Holds
  <2>2. mem[b] = WeightsOf([group |-> rec[b].group, plan |-> rec[b].plan])
    BY <2>1 DEF BufferInv, LoadsAreRight
  <2> QED
    BY <1>1, <1>2, <2>1, <2>2 DEF WeightsOf, Records, SomePlan
<1>3. ASSUME NEW s \in Slots
      PROVE  /\ from[s] \in [buf : SomeBuffer, slot : Slots]
             /\ from[s].buf # Host => mem[from[s].buf][from[s].slot] = WeightsOf(t)[s]
  <2>1. CASE /\ Materialization = "delta" /\ Holds(dst, t.group)
             /\ rec[dst].plan[s] = t.plan[s]
    <3>1. from[s] = [buf |-> dst, slot |-> s]
      BY <2>1 DEF PlanCopies
    <3>2. mem[dst][s] = WeightsOf(t)[s]
      BY <1>2, <2>1 DEF WeightsOf, SomeBuffer
    <3> HIDE DEF from
    <3> QED
      BY <3>1, <3>2 DEF SomeBuffer
  <2>2. CASE /\ ~ (/\ Materialization = "delta" /\ Holds(dst, t.group)
                   /\ rec[dst].plan[s] = t.plan[s])
             /\ Materialization = "delta" /\ src # dst /\ Holds(src, t.group)
             /\ t.plan[s] \in Range(rec[src].plan)
    <3> DEFINE q == CHOOSE q \in Slots : rec[src].plan[q] = t.plan[s]
    <3>1. from[s] = [buf |-> src, slot |-> q]
      BY <2>2 DEF PlanCopies
    <3>2. \E q1 \in Slots : rec[src].plan[q1] = t.plan[s]
      BY <1>2, <2>2 DEF Range
    <3>3. q \in Slots /\ rec[src].plan[q] = t.plan[s]
      BY <3>2
    <3> HIDE DEF q, from
    <3>4. mem[src][q] = WeightsOf(t)[s]
      BY <1>2, <2>2, <3>3 DEF WeightsOf
    <3> QED
      BY <3>1, <3>3, <3>4
  <2>3. CASE /\ ~ (/\ Materialization = "delta" /\ Holds(dst, t.group)
                   /\ rec[dst].plan[s] = t.plan[s])
             /\ ~ (/\ Materialization = "delta" /\ src # dst /\ Holds(src, t.group)
                   /\ t.plan[s] \in Range(rec[src].plan))
    <3>1. from[s] = [buf |-> Host, slot |-> s]
      BY <2>3 DEF PlanCopies
    <3> HIDE DEF from
    <3> QED
      BY <3>1 DEF SomeBuffer, Host
  <2> QED
    BY <2>1, <2>2, <2>3
<1>4. from \in [Slots -> [buf : SomeBuffer, slot : Slots]]
  <2>1. from = [s \in Slots |-> from[s]]
    BY DEF PlanCopies
  <2> HIDE DEF from
  <2> QED
    BY <1>3, <2>1
<1> HIDE DEF from
<1>5. PlanLoad(dst, src, t) = [dst |-> dst, src |-> src, ticket |-> t, from |-> from,
                               wait |-> rec[dst].done]
  BY DEF PlanLoad, from
<1> QED
  BY <1>1, <1>3, <1>4, <1>5, TicketTypes DEF Loads, Right, SomeBuffer, Records

(* What is enqueued waits for no less than it was planned to.               *)
LEMMA EnqueueOne ==
  ASSUME BufferTypeOK, copies = <<>>, NEW load \in Loads, Enqueue(load)
  PROVE  /\ copies' \in Seq(Loads) /\ Len(copies') = 1 /\ copies' # <<>>
         /\ copies'[1].dst = load.dst /\ copies'[1].ticket = load.ticket
         /\ copies'[1].from = load.from /\ copies'[1].wait >= load.wait
<1> DEFINE c == IF load.src = NoBuffer THEN load
                ELSE [load EXCEPT !.wait = Later(load.wait, rec[load.src].done)]
<1>1. copies' = <<c>>
  BY DEF Enqueue
<1>2. load.wait \in Nat /\ (load.src # NoBuffer => rec[load.src].done \in Nat)
  BY DEF Loads, BufferTypeOK, Records, SomeBuffer
<1>3. c \in Loads /\ c.dst = load.dst /\ c.ticket = load.ticket /\ c.from = load.from
      /\ c.wait >= load.wait
  BY <1>2 DEF Loads, Later
<1> HIDE DEF c
<1> QED
  BY <1>1, <1>3

(* Of a record whose buffer is being loaded.                                *)
LEMMA StartOne ==
  ASSUME NEW r \in Records, NEW t \in Tickets
  PROVE  /\ StartLoading(r, t) \in Records
         /\ [StartLoading(r, t) EXCEPT !.done = 0] \in Records
         /\ StartLoading(r, t).state = "LOADING" /\ ~ StartLoading(r, t).valid
         /\ StartLoading(r, t).group = t.group /\ StartLoading(r, t).plan = t.plan
         /\ StartLoading(r, t).done = r.done
BY TicketTypes DEF StartLoading, Records, SomeTicket

(* A foreground load starts when the copy stream is empty.                  *)
LEMMA ForegroundKeeps ==
  ASSUME BufferInv, LoadForeground
  PROVE  BufferInv'
<1>0. PICK b0, load : b0 = ForegroundTarget /\ load = PlanLoad(b0, ForegroundSource, ticket)
  OBVIOUS
<1>1. /\ UNCHANGED <<newest, host, ticket, active, last_finished, matched,
                     pending, future, job, serving, mem, upsets>>
      /\ host = "begun" /\ adopted.buf = NoBuffer /\ Enqueue(load)
      /\ rec' = [rec EXCEPT ![b0] = [StartLoading(@, ticket) EXCEPT !.done = 0]]
      /\ adopted' = [buf |-> b0, zero |-> FALSE]
  BY <1>0 DEF LoadForeground
<1>2. /\ future = "none" /\ active = NoBuffer /\ ticket \in Tickets /\ ~ adopted.zero
      /\ ~ pending.zero /\ pending = NoPending
  BY <1>1 DEF BufferInv, Control, NoPending
<1>3. b0 \in Buffers /\ ForegroundSource \in SomeBuffer
  <2>1. ForegroundSource \in SomeBuffer
    BY PreferPicks DEF ForegroundSource, LatestRecord, SomeBuffer
  <2>2. ticket.group \in Nat
    BY <1>2, BufferAssumption DEF Tickets, Groups
  <2> QED
    BY <1>0, <2>1, <2>2 DEF ForegroundTarget, Other, SomeBuffer, Buffers
<1>4. /\ load \in Loads /\ Right(load) /\ load.dst = b0 /\ load.ticket = ticket
      /\ load.wait = rec[b0].done
  BY <1>0, <1>2, <1>3, PlanIsRight
<1>5. copies = <<>> /\ (\A b : Landed(b)) /\ \A b \in Buffers : rec[b].state # "LOADING"
  BY <1>1, <1>2, NoOwnerNoLoad
<1>6. /\ copies' \in Seq(Loads) /\ Len(copies') = 1 /\ copies' # <<>>
      /\ copies'[1].dst = b0 /\ copies'[1].ticket = ticket
      /\ copies'[1].from = load.from /\ copies'[1].wait >= rec[b0].done
  BY <1>1, <1>4, <1>5, EnqueueOne DEF BufferInv
<1>7. /\ rec' \in [Buffers -> Records] /\ rec'[b0] = [StartLoading(rec[b0], ticket) EXCEPT !.done = 0]
      /\ \A b \in Buffers \ {b0} : rec'[b] = rec[b]
  BY <1>1, <1>2, <1>3, StartOne DEF BufferInv, BufferTypeOK
<1>8. rec'[b0].state = "LOADING" /\ ~ rec'[b0].valid /\ For(b0, ticket)'
  <2>1. /\ StartLoading(rec[b0], ticket) \in Records
        /\ StartLoading(rec[b0], ticket).state = "LOADING"
        /\ ~ StartLoading(rec[b0], ticket).valid
        /\ StartLoading(rec[b0], ticket).group = ticket.group
        /\ StartLoading(rec[b0], ticket).plan = ticket.plan
    <3>1. rec[b0] \in Records
      BY <1>3 DEF BufferInv, BufferTypeOK
    <3> QED
      BY <1>2, <3>1, StartOne
  <2>2. ticket' = ticket
    BY <1>1
  <2> QED
    BY <1>7, <2>1, <2>2 DEF Records, For
<1>9. adopted'.buf = b0 /\ ~ adopted'.zero /\ adopted' \in [buf : SomeBuffer, zero : BOOLEAN]
  BY <1>1, <1>3 DEF SomeBuffer
<1>10. BufferTypeOK'
  BY <1>1, <1>6, <1>7, <1>9 DEF BufferInv, BufferTypeOK
<1>11. Control'
  BY <1>1, <1>2, <1>3, <1>9, NoneIsNoBuffer DEF BufferInv, Control
<1>12. RecordsFollow'
  <2>1. Filling(adopted.buf, ticket)'
    BY <1>1, <1>8, <1>9 DEF Filling, For
  <2> QED
    BY <1>1, <1>2, <1>5, <1>7, <1>9, <2>1 DEF RecordsFollow, LoadingHasOwner
<1>13. LoadsAreRight'
  <2>1. Awaited(copies[1])' /\ Right(copies[1])'
    BY <1>1, <1>4, <1>6, <1>9 DEF Awaited, Right, BufferInv, BufferTypeOK
  <2> QED
    BY <1>1, <1>2, <1>3, <1>6, <1>7, <1>8, <2>1 DEF BufferInv, LoadsAreRight
<1>14. ReadersCovered'
  <2> SUFFICES ASSUME upsets = {} PROVE ReadersCovered'
    BY <1>1 DEF ReadersCovered
  <2>1. \A b \in Buffers : Covers(rec[b].done, b)
    BY <1>1, <1>2, <1>5, NoneIsNoBuffer DEF BufferInv, ReadersCovered
  <2>2. \A b \in Buffers \ {b0} : Covers(rec[b].done, b)'
    BY <1>1, <1>7, <2>1 DEF Covers
  <2>3. ~ Landed(b0)'
    <3>1. 1 \in DOMAIN copies' /\ copies'[1].dst = b0
      BY <1>6
    <3> QED
      BY <1>3, <3>1 DEF Landed
  <2>4. Covers(copies[1].wait, copies[1].dst)'
    <3>1. rec[b0].done \in Nat /\ copies'[1].wait \in Nat /\ \A i \in DOMAIN serving : i \in Nat
      <4>1. rec[b0] \in Records /\ copies'[1] \in Loads
        BY <1>3, <1>6 DEF BufferInv, BufferTypeOK
      <4>2. DOMAIN serving = 1 .. Len(serving)
        BY DEF BufferInv, BufferTypeOK
      <4> QED
        BY <4>1, <4>2 DEF Records, Loads
    <3>2. Covers(rec[b0].done, b0)
      BY <1>3, <2>1
    <3> QED
      BY <1>1, <1>6, <3>1, <3>2 DEF Covers
  <2>5. ReadersKeepTheirWeights'
    BY <1>1 DEF BufferInv, ReadersCovered, ReadersKeepTheirWeights
  <2> QED
    BY <1>1, <1>2, <2>2, <2>3, <2>4, <2>5 DEF ReadersCovered
<1> QED
  BY <1>10, <1>11, <1>12, <1>13, <1>14 DEF BufferInv

-----------------------------------------------------------------------------
(* The pipeline thread. *)

(* The pipeline thread plans from records that say what is loaded.          *)
LEMMA PlanAheadKeeps ==
  ASSUME BufferInv, PipelinePlans
  PROVE  BufferInv'
<1>0. PICK b0, src, t : b0 = pending.target /\ src = pending.source /\ t = pending.ticket
  OBVIOUS
<1>1. /\ UNCHANGED <<newest, host, ticket, active, last_finished, matched, adopted, pending,
                     copies, serving, mem, upsets>>
      /\ future = "queued" /\ future' = "preparing"
      /\ job' = PlanLoad(b0, src, t)
      /\ rec' = [rec EXCEPT ![b0] = StartLoading(@, t)]
  BY <1>0 DEF PipelinePlans, hostvars, gpuvars
<1>2. /\ b0 \in Buffers /\ src \in SomeBuffer /\ t \in Tickets /\ ~ pending.zero /\ b0 # active
      /\ adopted.buf = NoBuffer /\ ~ adopted.zero /\ host # "stopped"
  BY <1>0, <1>1 DEF BufferInv, Control, BufferTypeOK, RecordsFollow
<1>3. /\ job' \in Loads /\ Right(PlanLoad(b0, src, t)) /\ job'.dst = b0 /\ job'.ticket = t
      /\ job'.wait = rec[b0].done
  BY <1>1, <1>2, PlanIsRight
<1>4. copies = <<>> /\ (\A b : Landed(b)) /\ rec[b0] \in Records
  BY <1>1, <1>2, NoOwnerNoLoad DEF BufferInv, BufferTypeOK
<1>5. /\ rec' \in [Buffers -> Records] /\ \A b \in Buffers \ {b0} : rec'[b] = rec[b]
      /\ rec'[b0].state = "LOADING" /\ ~ rec'[b0].valid
      /\ rec'[b0].group = t.group /\ rec'[b0].plan = t.plan /\ rec'[b0].done = rec[b0].done
  <2>1. rec'[b0] = StartLoading(rec[b0], t)
    BY <1>1, <1>2 DEF BufferInv, BufferTypeOK
  <2>2. /\ StartLoading(rec[b0], t) \in Records
        /\ StartLoading(rec[b0], t).state = "LOADING" /\ ~ StartLoading(rec[b0], t).valid
        /\ StartLoading(rec[b0], t).group = t.group /\ StartLoading(rec[b0], t).plan = t.plan
        /\ StartLoading(rec[b0], t).done = rec[b0].done
    BY <1>2, <1>4, StartOne
  <2>3. rec' \in [Buffers -> Records] /\ \A b \in Buffers \ {b0} : rec'[b] = rec[b]
    BY <1>1, <2>2 DEF BufferInv, BufferTypeOK
  <2> QED
    BY <2>1, <2>2, <2>3
<1>6. BufferTypeOK'
  BY <1>1, <1>3, <1>5 DEF BufferInv, BufferTypeOK, Futures
<1>7. Control'
  BY <1>0, <1>1, <1>2, <1>3 DEF BufferInv, Control
<1>8. RecordsFollow'
  <2>1. LoadingHasOwner'
    BY <1>0, <1>1, <1>2, <1>5 DEF BufferInv, RecordsFollow, LoadingHasOwner
  <2> QED
    BY <1>0, <1>1, <1>2, <1>5, <2>1, NoneIsNoBuffer DEF BufferInv, RecordsFollow, For, Filling
<1>9. LoadsAreRight'
  <2>1. Right(job)'
    BY <1>1, <1>3 DEF Right
  <2> QED
    BY <1>1, <1>2, <1>4, <1>5, <2>1 DEF BufferInv, LoadsAreRight
<1>10. ReadersCovered'
  BY <1>1, <1>2, <1>3, <1>4, <1>5
     DEF BufferInv, ReadersCovered, Covers, Landed, ReadersKeepTheirWeights
<1> QED
  BY <1>6, <1>7, <1>8, <1>9, <1>10 DEF BufferInv

(* A pipeline that fails leaves a record somebody discards.                 *)
LEMMA FailKeeps ==
  ASSUME BufferInv, PipelineFails
  PROVE  BufferInv'
<1>1. /\ UNCHANGED <<rec, newest, host, ticket, active, last_finished, matched, adopted, pending,
                     copies, serving, mem, upsets>>
      /\ future = "preparing" /\ future' = "failed" /\ "fails" \in upsets /\ job' = NoJob
  BY DEF PipelineFails, hostvars, gpuvars
<1>2. NoJob \in Loads
  BY TicketTypes DEF NoJob, Loads, SomeBuffer, Host
<1>3. adopted.buf = NoBuffer /\ ~ adopted.zero /\ ~ pending.zero
  BY <1>1 DEF BufferInv, Control
<1>4. BufferTypeOK'
  BY <1>1, <1>2 DEF BufferInv, BufferTypeOK, Futures
<1>5. Control'
  BY <1>1, <1>3 DEF BufferInv, Control
<1>6. RecordsFollow'
  BY <1>1 DEF BufferInv, RecordsFollow, For, Filling, LoadingHasOwner
<1>7. LoadsAreRight'
  BY <1>1, <1>3, NoOwnerNoLoad DEF BufferInv, LoadsAreRight
<1>8. ReadersCovered'
  BY <1>1 DEF ReadersCovered
<1> QED
  BY <1>4, <1>5, <1>6, <1>7, <1>8 DEF BufferInv

(* The pipeline enqueues the one load that was planned.                     *)
LEMMA EnqueueKeeps ==
  ASSUME BufferInv, PipelineEnqueues
  PROVE  BufferInv'
<1>0. PICK b0 : b0 = pending.target
  OBVIOUS
<1>1. /\ UNCHANGED <<newest, host, ticket, active, last_finished, matched, adopted, pending,
                     serving, mem, upsets>>
      /\ future = "preparing" /\ future' = "done" /\ job' = NoJob /\ Enqueue(job)
      /\ rec' = [rec EXCEPT ![b0].done = 0]
  BY <1>0 DEF PipelineEnqueues, hostvars
<1>2. /\ b0 \in Buffers /\ ~ pending.zero /\ b0 # active /\ adopted.buf = NoBuffer
      /\ ~ adopted.zero /\ host # "stopped" /\ job \in Loads
      /\ job.dst = b0 /\ job.ticket = pending.ticket /\ Right(job)
  BY <1>0, <1>1 DEF BufferInv, Control, BufferTypeOK, RecordsFollow, LoadsAreRight
<1>3. copies = <<>> /\ \A b : Landed(b)
  BY <1>1, <1>2, NoOwnerNoLoad
<1>4. /\ copies' \in Seq(Loads) /\ Len(copies') = 1 /\ copies' # <<>>
      /\ copies'[1].dst = b0 /\ copies'[1].ticket = pending.ticket
      /\ copies'[1].from = job.from /\ copies'[1].wait >= job.wait
  BY <1>1, <1>2, <1>3, EnqueueOne DEF BufferInv
<1>5. NoJob \in Loads
  BY TicketTypes DEF NoJob, Loads, SomeBuffer, Host
<1>6. /\ rec' \in [Buffers -> Records] /\ \A b \in Buffers \ {b0} : rec'[b] = rec[b]
      /\ \A b \in Buffers : /\ rec'[b].state = rec[b].state /\ rec'[b].valid = rec[b].valid
                            /\ rec'[b].group = rec[b].group /\ rec'[b].plan = rec[b].plan
  <2> DEFINE r == [rec[b0] EXCEPT !.done = 0]
  <2>1. rec \in [Buffers -> Records] /\ rec[b0] \in Records
    BY <1>2 DEF BufferInv, BufferTypeOK
  <2>2. /\ r \in Records /\ r.state = rec[b0].state /\ r.valid = rec[b0].valid
        /\ r.group = rec[b0].group /\ r.plan = rec[b0].plan
    BY <2>1 DEF Records
  <2>3. rec' = [rec EXCEPT ![b0] = r]
    BY <1>1
  <2> HIDE DEF r
  <2> QED
    BY <1>2, <2>1, <2>2, <2>3
<1>7. BufferTypeOK'
  BY <1>1, <1>4, <1>5, <1>6 DEF BufferInv, BufferTypeOK, Futures
<1>8. Control'
  BY <1>1 DEF BufferInv, Control
<1>9. RecordsFollow'
  <2>1. \A b \in Buffers : \A t : For(b, t) <=> rec'[b].group = t.group /\ rec'[b].plan = t.plan
    BY <1>6 DEF For
  <2>2. LoadingHasOwner'
    BY <1>1, <1>6 DEF BufferInv, RecordsFollow, LoadingHasOwner
  <2>3. active # NoBuffer => active \in Buffers
    BY DEF BufferInv, BufferTypeOK, SomeBuffer
  <2> QED
    BY <1>0, <1>1, <1>2, <1>6, <2>1, <2>2, <2>3 DEF BufferInv, RecordsFollow, For, Filling
<1>10. LoadsAreRight'
  <2>1. Awaited(copies[1])' /\ Right(copies[1])'
    BY <1>0, <1>1, <1>2, <1>4 DEF Awaited, Right
  <2> QED
    BY <1>1, <1>2, <1>4, <1>6, <2>1 DEF BufferInv, LoadsAreRight
<1>11. ReadersCovered'
  <2> SUFFICES ASSUME upsets = {} PROVE ReadersCovered'
    BY <1>1 DEF ReadersCovered
  <2>1. \A b \in Buffers \ {active} : Covers(rec[b].done, b)
    BY <1>2, <1>3 DEF BufferInv, ReadersCovered
  <2>2. \A b \in Buffers \ {active, b0} : Covers(rec[b].done, b)'
    BY <1>1, <1>6, <2>1 DEF Covers
  <2>3. ~ Landed(b0)'
    <3>1. 1 \in DOMAIN copies' /\ copies'[1].dst = b0
      BY <1>4
    <3> QED
      BY <1>2, <3>1 DEF Landed
  <2>4. Covers(copies[1].wait, copies[1].dst)'
    <3>1. job.wait \in Nat /\ copies'[1].wait \in Nat /\ \A i \in DOMAIN serving : i \in Nat
      <4>1. copies'[1] \in Loads
        BY <1>4
      <4>2. DOMAIN serving = 1 .. Len(serving)
        BY DEF BufferInv, BufferTypeOK
      <4> QED
        BY <1>2, <4>1, <4>2 DEF Loads
    <3>2. Covers(job.wait, b0)
      BY <1>1, <1>2 DEF BufferInv, ReadersCovered
    <3> QED
      BY <1>1, <1>4, <3>1, <3>2 DEF Covers
  <2>5. ReadersKeepTheirWeights'
    BY <1>1 DEF BufferInv, ReadersCovered, ReadersKeepTheirWeights
  <2> QED
    BY <1>1, <2>2, <2>3, <2>4, <2>5 DEF ReadersCovered
<1> QED
  BY <1>7, <1>8, <1>9, <1>10, <1>11 DEF BufferInv

-----------------------------------------------------------------------------
(* The GPU. *)

(* A load that runs leaves in its buffer the weights of its ticket, and     *)
(* nobody is left there to read the old ones.                               *)
LEMMA CopyKeeps ==
  ASSUME BufferInv, CopyStep
  PROVE  BufferInv'
<1>0. PICK c : c = copies[1] /\ c = Head(copies)
  <2>1. copies \in Seq(Loads) /\ copies # <<>>
    BY DEF CopyStep, BufferInv, BufferTypeOK
  <2>2. Head(copies) = copies[1]
    BY <2>1
  <2> QED
    BY <2>2
<1>1. /\ UNCHANGED <<rec, newest, host, ticket, active, last_finished, matched, adopted, pending,
                     future, job, serving, upsets>>
      /\ copies # <<>> /\ c.wait = 0 /\ copies' = Tail(copies)
      /\ mem' = [mem EXCEPT ![c.dst] = [s \in Slots |->
                      IF c.from[s].buf = Host THEN WeightsOf(c.ticket)[s]
                      ELSE mem[c.from[s].buf][c.from[s].slot]]]
  BY <1>0 DEF CopyStep, hostvars
<1>2. c.dst \in Buffers /\ Awaited(c) /\ Right(c) /\ c \in Loads /\ Len(copies) = 1
  BY <1>0, <1>1, OneLoad DEF BufferInv, LoadsAreRight
<1>3. copies' = <<>>
  <2>1. copies \in Seq(Loads) /\ Tail(copies) \in Seq(Loads) /\ Len(Tail(copies)) = 0
    BY <1>1, <1>2 DEF BufferInv, BufferTypeOK
  <2> QED
    BY <1>1, <2>1
<1>4. mem'[c.dst] = WeightsOf(c.ticket) /\ \A b \in Buffers \ {c.dst} : mem'[b] = mem[b]
  <2>1. [s \in Slots |-> IF c.from[s].buf = Host THEN WeightsOf(c.ticket)[s]
                         ELSE mem[c.from[s].buf][c.from[s].slot]] = WeightsOf(c.ticket)
    BY <1>2 DEF Right, WeightsOf
  <2> QED
    BY <1>1, <1>2, <2>1 DEF BufferInv, BufferTypeOK
<1>5. mem' \in [Buffers -> Weights]
  <2>1. WeightsOf(c.ticket) \in Weights
    BY <1>2, TicketTypes DEF Loads
  <2> QED
    BY <1>1, <1>4, <2>1 DEF BufferInv, BufferTypeOK
<1>6. BufferTypeOK'
  <2>1. copies' \in Seq(Loads) /\ Len(copies') <= 1
    BY <1>3
  <2> QED
    BY <1>1, <1>5, <2>1 DEF BufferInv, BufferTypeOK
<1>7. Control'
  BY <1>1 DEF BufferInv, Control
<1>8. RecordsFollow'
  BY <1>1 DEF BufferInv, RecordsFollow, For, Filling, LoadingHasOwner
<1>9. LoadsAreRight'
  <2>1. \A b \in Buffers : rec[b].valid => b # c.dst
    BY <1>0, <1>1, ValidHasLanded, OneLoad DEF BufferInv
  <2>2. adopted.buf # NoBuffer /\ ~ adopted.zero => mem'[adopted.buf] = WeightsOf(ticket)
    BY <1>2, <1>4 DEF BufferInv, Control, Awaited
  <2>3. future = "done" /\ ~ pending.zero => mem'[pending.target] = WeightsOf(pending.ticket)
    BY <1>2, <1>4, NoneIsNoBuffer DEF BufferInv, Control, Awaited
  <2>4. future # "preparing"
    BY <1>2, NoneIsNoBuffer DEF BufferInv, Control, Awaited
  <2> QED
    BY <1>1, <1>3, <1>4, <2>1, <2>2, <2>3, <2>4 DEF BufferInv, LoadsAreRight
<1>10. ReadersCovered'
  <2> SUFFICES ASSUME upsets = {} PROVE ReadersCovered'
    BY <1>1 DEF ReadersCovered
  <2>1. /\ DOMAIN serving = 1 .. Len(serving)
        /\ \A i \in DOMAIN serving : serving[i].buf \in Buffers
    <3>1. \A i \in DOMAIN serving : serving[i] \in Launches
      BY DEF BufferInv, BufferTypeOK
    <3>2. DOMAIN serving = 1 .. Len(serving)
      BY DEF BufferInv, BufferTypeOK
    <3> QED
      BY <3>1, <3>2 DEF Launches
  <2>2. \A i \in DOMAIN serving : serving[i].buf # c.dst
    <3>1. \A i \in DOMAIN serving : serving[i].buf = copies[1].dst => i <= copies[1].wait
      BY <1>1 DEF BufferInv, ReadersCovered, Covers
    <3>2. \A i \in DOMAIN serving : ~ (i <= 0)
      BY <2>1
    <3>3. copies[1].dst = c.dst /\ copies[1].wait = 0
      BY <1>0, <1>1
    <3> QED
      BY <3>1, <3>2, <3>3
  <2>3. \A b \in Buffers : Landed(b) \/ b = c.dst
    BY <1>0, <1>1, OneLoad DEF BufferInv
  <2>4. host # "stopped" => \A b \in Buffers \ {active} : Covers(rec[b].done, b)
    BY <2>2, <2>3 DEF BufferInv, ReadersCovered, Covers
  <2>5. ReadersKeepTheirWeights'
    BY <1>1, <1>4, <2>1, <2>2 DEF BufferInv, ReadersCovered, ReadersKeepTheirWeights
  <2> QED
    BY <1>1, <1>3, <2>4, <2>5 DEF BufferInv, ReadersCovered, Covers
<1> QED
  BY <1>6, <1>7, <1>8, <1>9, <1>10 DEF BufferInv

(* A compute that ends brings every event one compute nearer.               *)
LEMMA ServeKeeps ==
  ASSUME BufferInv, ServeStep
  PROVE  BufferInv'
<1>1. /\ UNCHANGED <<newest, host, ticket, active, last_finished, matched, adopted, pending,
                     future, mem, upsets>>
      /\ serving # <<>> /\ serving' = Tail(serving)
      /\ rec' = [b \in Buffers |-> [rec[b] EXCEPT !.done = Sooner(@)]]
      /\ job' = [job EXCEPT !.wait = Sooner(@)]
      /\ copies' = [i \in DOMAIN copies |-> [copies[i] EXCEPT !.wait = Sooner(@)]]
  BY DEF ServeStep, hostvars
<1>2. \A k \in Nat : Sooner(k) \in Nat
  BY DEF Sooner
<1>3. PICK n \in Nat \ {0} :
        /\ DOMAIN serving = 1 .. n /\ DOMAIN serving' = 1 .. (n - 1)
        /\ serving' \in Seq(Launches)
        /\ \A i \in 1 .. (n - 1) : serving'[i] = serving[i + 1]
  <2>1. serving \in Seq(Launches) /\ serving # <<>>
    BY <1>1 DEF BufferInv, BufferTypeOK
  <2>2. /\ Len(serving) \in Nat \ {0}
        /\ DOMAIN serving = 1 .. Len(serving)
        /\ Tail(serving) \in Seq(Launches)
        /\ DOMAIN Tail(serving) = 1 .. (Len(serving) - 1)
        /\ \A i \in 1 .. (Len(serving) - 1) : Tail(serving)[i] = serving[i + 1]
    BY <2>1
  <2> QED
    BY <1>1, <2>2
<1>4. /\ rec' \in [Buffers -> Records]
      /\ \A b \in Buffers :
            /\ rec'[b].state = rec[b].state /\ rec'[b].valid = rec[b].valid
            /\ rec'[b].group = rec[b].group /\ rec'[b].plan = rec[b].plan
            /\ rec'[b].done = Sooner(rec[b].done) /\ rec[b].done \in Nat
  <2>1. ASSUME NEW b \in Buffers
        PROVE  /\ rec'[b] \in Records
               /\ rec'[b].state = rec[b].state /\ rec'[b].valid = rec[b].valid
               /\ rec'[b].group = rec[b].group /\ rec'[b].plan = rec[b].plan
               /\ rec'[b].done = Sooner(rec[b].done) /\ rec[b].done \in Nat
    <3>1. rec[b] \in Records /\ rec'[b] = [rec[b] EXCEPT !.done = Sooner(@)]
      BY <1>1 DEF BufferInv, BufferTypeOK
    <3> QED
      BY <1>2, <3>1 DEF Records
  <2>2. rec' = [b \in Buffers |-> rec'[b]]
    BY <1>1
  <2> QED
    BY <2>1, <2>2
<1>5. /\ job' \in Loads /\ job'.wait = Sooner(job.wait) /\ job.wait \in Nat
      /\ job'.dst = job.dst /\ job'.ticket = job.ticket /\ job'.from = job.from
  <2>1. job \in Loads
    BY DEF BufferInv, BufferTypeOK
  <2> QED
    BY <1>1, <1>2, <2>1 DEF Loads
<1>6. /\ copies' \in Seq(Loads) /\ Len(copies') <= 1
      /\ copies' = <<>> <=> copies = <<>>
      /\ DOMAIN copies' = DOMAIN copies
      /\ \A i \in DOMAIN copies : copies'[i].dst = copies[i].dst
      /\ copies # <<>> =>
            /\ copies'[1].wait = Sooner(copies[1].wait) /\ copies[1].wait \in Nat
            /\ copies'[1].dst = copies[1].dst /\ copies'[1].ticket = copies[1].ticket
            /\ copies'[1].from = copies[1].from
  <2>1. CASE copies = <<>>
    <3>1. copies' = <<>>
      BY <1>1, <2>1
    <3> QED
      BY <2>1, <3>1
  <2>2. CASE copies # <<>>
    <3> DEFINE c == [copies[1] EXCEPT !.wait = Sooner(@)]
    <3>1. DOMAIN copies = {1} /\ copies[1] \in Loads
      BY <2>2, OneLoad DEF BufferInv
    <3>2. /\ c \in Loads /\ c.wait = Sooner(copies[1].wait) /\ copies[1].wait \in Nat
          /\ c.dst = copies[1].dst /\ c.ticket = copies[1].ticket /\ c.from = copies[1].from
      BY <1>2, <3>1 DEF Loads
    <3>3. copies' = [i \in {1} |-> c]
      BY <1>1, <3>1
    <3> HIDE DEF c
    <3>4. copies' = <<c>>
      BY <3>3
    <3> QED
      BY <2>2, <3>1, <3>2, <3>4
  <2> QED
    BY <2>1, <2>2
<1>7. BufferTypeOK'
  BY <1>1, <1>3, <1>4, <1>5, <1>6 DEF BufferInv, BufferTypeOK
<1>8. Control'
  BY <1>1, <1>5 DEF BufferInv, Control
<1>9. RecordsFollow'
  <2>1. LoadingHasOwner'
    BY <1>1, <1>4 DEF BufferInv, RecordsFollow, LoadingHasOwner
  <2>2. /\ active # NoBuffer => active \in Buffers
        /\ adopted.buf # NoBuffer => adopted.buf \in Buffers
        /\ future # "none" => pending.target \in Buffers
    BY DEF BufferInv, BufferTypeOK, SomeBuffer, Control
  <2> QED
    BY <1>1, <1>4, <2>1, <2>2 DEF BufferInv, RecordsFollow, For, Filling
<1>10. LoadsAreRight'
  <2>1. \A b \in Buffers : rec'[b].valid =>
            mem'[b] = WeightsOf([group |-> rec'[b].group, plan |-> rec'[b].plan])
    BY <1>1, <1>4 DEF BufferInv, LoadsAreRight
  <2>2. copies # <<>> => copies'[1].dst \in Buffers /\ Awaited(copies[1])' /\ Right(copies[1])'
    <3> SUFFICES ASSUME copies # <<>>
                 PROVE  copies'[1].dst \in Buffers /\ Awaited(copies[1])' /\ Right(copies[1])'
      OBVIOUS
    <3>1. copies[1].dst \in Buffers /\ Awaited(copies[1]) /\ Right(copies[1])
      BY DEF BufferInv, LoadsAreRight
    <3>2. Awaited(copies[1])'
      BY <1>1, <1>6, <3>1 DEF Awaited
    <3>3. Right(copies[1])'
      BY <1>1, <1>6, <3>1 DEF Right
    <3> QED
      BY <1>6, <3>1, <3>2, <3>3
  <2>3. future = "preparing" => Right(job)'
    BY <1>1, <1>5 DEF BufferInv, LoadsAreRight, Right
  <2> QED
    BY <1>1, <1>6, <2>1, <2>2, <2>3 DEF BufferInv, LoadsAreRight
<1>11. ReadersCovered'
  <2> SUFFICES ASSUME upsets = {} PROVE ReadersCovered'
    BY <1>1 DEF ReadersCovered
  <2>1. ASSUME NEW k \in Nat, NEW b, Covers(k, b), NEW i \in DOMAIN serving', serving'[i].buf = b
        PROVE  i <= Sooner(k)
    <3>1. i \in Nat \ {0} /\ i + 1 \in DOMAIN serving /\ serving[i + 1].buf = b
      BY <1>3, <2>1
    <3>2. i + 1 <= k
      BY <2>1, <3>1 DEF Covers
    <3> QED
      BY <3>1, <3>2 DEF Sooner
  <2>2. \A b \in Buffers : Landed(b)' <=> Landed(b)
    BY <1>6 DEF Landed
  <2>3. ASSUME host' # "stopped", NEW b \in Buffers \ {active}
        PROVE  Covers(rec[b].done, b)' \/ ~ Landed(b)'
    <3>1. Covers(rec[b].done, b) \/ ~ Landed(b)
      BY <1>1, <2>3 DEF BufferInv, ReadersCovered
    <3>2. rec[b].done \in Nat /\ rec'[b].done = Sooner(rec[b].done)
      BY <1>4
    <3>3. Covers(rec[b].done, b) => Covers(rec[b].done, b)'
      BY <2>1, <3>2 DEF Covers
    <3> QED
      BY <2>2, <3>1, <3>3
  <2>4. copies' # <<>> => Covers(copies[1].wait, copies[1].dst)'
    <3> SUFFICES ASSUME copies # <<>> PROVE Covers(copies[1].wait, copies[1].dst)'
      BY <1>6
    <3>1. Covers(copies[1].wait, copies[1].dst)
      BY DEF BufferInv, ReadersCovered
    <3> QED
      BY <1>6, <2>1, <3>1 DEF Covers
  <2>5. future' = "preparing" => Covers(job.wait, job.dst)'
    <3> SUFFICES ASSUME future = "preparing" PROVE Covers(job.wait, job.dst)'
      BY <1>1
    <3>1. Covers(job.wait, job.dst)
      BY DEF BufferInv, ReadersCovered
    <3> QED
      BY <1>5, <2>1, <3>1 DEF Covers
  <2>6. ReadersKeepTheirWeights'
    <3> SUFFICES ASSUME NEW i \in DOMAIN serving'
                 PROVE  mem'[serving'[i].buf] = serving'[i].weights
      BY DEF ReadersKeepTheirWeights
    <3>1. i + 1 \in DOMAIN serving /\ serving'[i] = serving[i + 1]
      BY <1>3
    <3> QED
      BY <1>1, <3>1 DEF BufferInv, ReadersCovered, ReadersKeepTheirWeights
  <2> QED
    BY <1>1, <2>3, <2>4, <2>5, <2>6 DEF ReadersCovered
<1> QED
  BY <1>7, <1>8, <1>9, <1>10, <1>11 DEF BufferInv

-----------------------------------------------------------------------------
(* The theorems. *)

(* Two empty buffers, no load and no reader.                                *)
LEMMA BufferInvInit == Init => BufferInv
<1> SUFFICES ASSUME Init PROVE BufferInv
  OBVIOUS
<1> USE DEF Init
<1>1. /\ pending.target = NoBuffer /\ ~ pending.zero /\ adopted.buf = NoBuffer /\ ~ adopted.zero
  BY DEF NoPending, NoneAdopted
<1>2. \A b \in Buffers : rec[b] = EmptyRecord
  OBVIOUS
<1>3. EmptyRecord \in Records /\ EmptyRecord.state = "EMPTY" /\ ~ EmptyRecord.valid
  BY TicketTypes DEF EmptyRecord, Records, NoTicket, SomeTicket
<1>4. NoJob \in Loads
  BY TicketTypes DEF NoJob, Loads, SomeBuffer, Host
<1>5. BufferTypeOK
  <2>1. mem \in [Buffers -> Weights] /\ rec \in [Buffers -> Records] /\ newest \in Buffers
    BY <1>3, TicketTypes DEF Buffers
  <2>2. copies \in Seq(Loads) /\ Len(copies) <= 1 /\ serving \in Seq(Launches)
    OBVIOUS
  <2>3. pending \in [ticket : SomeTicket, target : SomeBuffer, source : SomeBuffer, zero : BOOLEAN]
        /\ adopted \in [buf : SomeBuffer, zero : BOOLEAN]
    BY NoneIsNoBuffer
  <2> QED
    BY <1>4, <2>1, <2>2, <2>3, TicketTypes DEF BufferTypeOK, Hosts, Futures, SomeBuffer
<1>6. Control
  BY <1>1 DEF Control
<1>7. RecordsFollow
  BY <1>1, <1>2, <1>3 DEF RecordsFollow, LoadingHasOwner
<1>8. LoadsAreRight
  BY <1>1, <1>2, <1>3 DEF LoadsAreRight
<1>9. ReadersCovered
  BY DEF ReadersCovered, Covers, ReadersKeepTheirWeights
<1> QED
  BY <1>5, <1>6, <1>7, <1>8, <1>9 DEF BufferInv

(* Host, pipeline thread and GPU keep the two buffers, the load under way   *)
(* and the readers in step, whatever actions come and whatever fails.       *)
THEOREM BufferInvariant == Spec => []BufferInv
<1>1. BufferInv /\ [Next]_vars => BufferInv'
  <2> SUFFICES ASSUME BufferInv, [Next]_vars PROVE BufferInv'
    OBVIOUS
  <2>1. ASSUME NEW g \in Groups, NEW p \in Plans,
               LET t == [group |-> g, plan |-> p] IN BeginAction(t) \/ PrefetchAction(t)
        PROVE  BufferInv'
    <3>1. [group |-> g, plan |-> p] \in Tickets
      BY DEF Tickets
    <3> QED
      BY <2>1, <3>1, BeginKeeps, PrefetchKeeps
  <2>2. CASE AdoptPending \/ DiscardPending
    BY <2>2, AdoptKeeps, DiscardKeeps
  <2>3. CASE ActivateLoaded \/ ActivateResident \/ LoadForeground
    BY <2>3, CommitLoadedKeeps, CommitResidentKeeps, ForegroundKeeps
  <2>4. CASE Forward \/ FinishGroup \/ EndAction
    BY <2>4, ForwardKeeps, FinishKeeps, EndKeeps
  <2>5. CASE AbortStep
    BY <2>5, AbortKeeps
  <2>6. CASE PipelinePlans \/ PipelineFails \/ PipelineEnqueues
    BY <2>6, PlanAheadKeeps, FailKeeps, EnqueueKeeps
  <2>7. CASE CopyStep \/ ServeStep
    BY <2>7, CopyKeeps, ServeKeeps
  <2>8. CASE Stopped \/ UNCHANGED vars
    <3>1. UNCHANGED <<rec, newest, host, ticket, active, last_finished, matched, adopted, pending,
                      future, job, copies, serving, mem, upsets>>
      BY <2>8 DEF Stopped, vars, hostvars, gpuvars
    <3>2. BufferTypeOK' /\ Control'
      BY <3>1 DEF BufferInv, BufferTypeOK, Control
    <3>3. RecordsFollow'
      BY <3>1 DEF BufferInv, RecordsFollow, For, Filling, LoadingHasOwner
    <3>4. LoadsAreRight'
      BY <3>1 DEF BufferInv, LoadsAreRight, Awaited, Right
    <3>5. ReadersCovered'
      BY <3>1 DEF BufferInv, ReadersCovered, Covers, Landed, ReadersKeepTheirWeights
    <3> QED
      BY <3>2, <3>3, <3>4, <3>5 DEF BufferInv
  <2> QED
    BY <2>1, <2>2, <2>3, <2>4, <2>5, <2>6, <2>7, <2>8 DEF Next
<1> QED
  BY <1>1, BufferInvInit, PTL DEF Spec

(* No copy overtakes a reader of its buffer as long as nothing fails and    *)
(* lookaheads are for the action that comes, however far the host is ahead. *)
THEOREM NoReaderOvertaken == Spec => []OnlyDiscardsLoseReaders
<1>1. BufferInv => OnlyDiscardsLoseReaders
  BY DEF BufferInv, ReadersCovered, OnlyDiscardsLoseReaders
<1> QED
  BY <1>1, BufferInvariant, PTL

(* A record that says its slots are valid says what is in the memory.       *)
THEOREM ValidRecordsAreTrue == Spec => []ValidMeansLoaded
<1>1. BufferInv => ValidMeansLoaded
  <2> SUFFICES ASSUME BufferInv, NEW b \in Buffers, rec[b].valid
               PROVE  Landed(b) /\ mem[b] = WeightsOf([group |-> rec[b].group, plan |-> rec[b].plan])
    BY DEF ValidMeansLoaded
  <2> QED
    BY ValidHasLanded DEF BufferInv, LoadsAreRight
<1> QED
  BY <1>1, BufferInvariant, PTL

(* What is committed for an action is the plan of its ticket.               *)
THEOREM TicketsGetTheirPlans == Spec => []TicketGetsItsPlan
<1>1. BufferInv => TicketGetsItsPlan
  <2> SUFFICES ASSUME BufferInv, host \in {"active", "computed"}
               PROVE  rec[active] = [state |-> "ACTIVE", group |-> ticket.group,
                                     plan |-> ticket.plan, valid |-> TRUE,
                                     done |-> rec[active].done]
    BY DEF TicketGetsItsPlan
  <2>1. active \in Buffers /\ rec[active] \in Records
    BY DEF BufferInv, Control, BufferTypeOK, SomeBuffer
  <2>2. For(active, ticket) /\ rec[active].state = "ACTIVE" /\ rec[active].valid
    BY <2>1, NoneIsNoBuffer DEF BufferInv, RecordsFollow
  <2> QED
    BY <2>1, <2>2 DEF For, Records
<1> QED
  BY <1>1, BufferInvariant, PTL

(* No record is left LOADING that nobody deals with.                        *)
THEOREM LoadsAreOwned == Spec => []LoadingHasOwner
<1>1. BufferInv => LoadingHasOwner
  BY DEF BufferInv, RecordsFollow
<1> QED
  BY <1>1, BufferInvariant, PTL

(* A lookahead stays what its ticket will need.                             *)
THEOREM LookaheadsStayGood == Spec => []LookaheadStaysGood
<1>1. BufferInv => LookaheadStaysGood
  BY DEF BufferInv, Control, RecordsFollow, For, Filling, LookaheadStaysGood
<1> QED
  BY <1>1, BufferInvariant, PTL

=============================================================================
