----------------------- MODULE DocumentAdmission_proofs -----------------------
(***************************************************************************)
(* Proofs about DocumentAdmission, for all constants.                      *)
(***************************************************************************)
EXTENDS DocumentAdmission, FiniteSetTheorems, SequenceTheorems, TLAPS

(***************************************************************************)
(* The inductive invariant.  The properties are not inductive: what a slot *)
(* may still become depends on the lease it is bound to, on the permission *)
(* an activity carries, and on when evidence can appear at all.            *)
(***************************************************************************)
Slots == [state : States, wait : Waits, fence : 0 .. MaxFence, revision : Nat, settled : 0 .. MaxEvents,
          reason : Reasons \cup {"none"}]
Ops == {"reserve", "bind", "settle", "request_resume", "resume", "close", "worker_loss", "release"}
Events == [state : Acceptances, age : {"young", "old"}]

\* The rows TypeOK leaves out, and a queue that holds each slot once.
TypeInv ==
    /\ TypeOK
    /\ limits \in [revision : Nat, processing : Nat, open : Nat]
    /\ turn \in {"launch", "resume"}
    /\ passed \in [{"launch", "resume"} -> Nat]
    /\ events \in [Deliveries -> Seq(Events)]
    /\ \A d \in Deliveries : Len(events[d]) <= MaxEvents
    /\ demand \in Seq(Deliveries)
    /\ \A i, j \in DOMAIN demand : demand[i] = demand[j] => i = j
    /\ ops \in [Deliveries -> SUBSET Ops]
    /\ seen \in [Deliveries -> [revision : Nat, status : {"none", "open", "terminal"}]]
    /\ permit \in [Deliveries -> 0 .. MaxFence]

\* A slot and a permission name a fence that was granted, and no lease is
\* from a future epoch: what is lost stays lost.
FenceInv ==
    /\ \A d \in Deliveries : slot[d].fence <= lease[Version[d]].fence /\ permit[d] <= lease[Version[d]].fence
    /\ \A v \in Versions : lease[v].epoch <= epoch

\* While a permission is good, its slot keeps processing under the same
\* fence and nothing is left to settle, so no operation can take it away.
PermitInv ==
    \A d \in Deliveries : MayApply(d) =>
        slot[d].state = "processing" /\ slot[d].fence = permit[d] /\ ~Unsettled(d)

\* Evidence appears only after a slot was processing.
EvidenceInv ==
    /\ EvidenceSettled
    /\ \A d \in Deliveries : slot[d].state \in {"none", "reserved"} => events[d] = <<>>

\* A processing slot was bound, not only while its lease lives.
EffectInv ==
    /\ EffectFound
    /\ \A d \in Deliveries : slot[d].state = "processing" => "bind" \in ops[d]

\* A queue that was passed has the turn.
TurnInv ==
    /\ FairTurns
    /\ passed.launch = 1 => turn = "launch"
    /\ passed.resume = 1 => turn = "resume"

IInv == TypeInv /\ FenceInv /\ PermitInv /\ EvidenceInv /\ EffectInv /\ TurnInv /\ OneLiveSlot

-----------------------------------------------------------------------------
(***************************************************************************)
(* Operators.                                                              *)
(***************************************************************************)

\* Taking a slot out of the resume queue keeps the others in their order.
LEMMA UndemandedKeeps ==
    ASSUME demand \in Seq(Deliveries), \A i, j \in DOMAIN demand : demand[i] = demand[j] => i = j,
           NEW d \in Deliveries
    PROVE  LET after == Undemanded(d)
           IN  /\ after \in Seq(Deliveries)
               /\ \A i, j \in DOMAIN after : after[i] = after[j] => i = j
               /\ \A i \in DOMAIN after : after[i] # d /\ \E j \in DOMAIN demand : demand[j] = after[i]
<1> DEFINE after == Undemanded(d)
           n == Len(demand)
<1>1. n \in Nat /\ DOMAIN demand = 1 .. n /\ \A i \in 1 .. n : demand[i] \in Deliveries
  BY LenProperties, ElementOfSeq
<1>2. CASE ~ Demanded(d)
  <2>1. after = demand
    BY <1>2 DEF Undemanded
  <2> QED
    BY <1>2, <2>1 DEF Demanded
<1>3. CASE Demanded(d)
  <2> DEFINE k == CHOOSE i \in DOMAIN demand : demand[i] = d
             before == SubSeq(demand, 1, k - 1)
             behind == SubSeq(demand, k + 1, n)
  <2>1. k \in 1 .. n /\ demand[k] = d
    BY <1>1, <1>3 DEF Demanded
  <2>2. after = before \o behind
    BY <1>3 DEF Undemanded
  <2> HIDE DEF k
  <2>3. before \in Seq(Deliveries) /\ Len(before) = k - 1 /\ \A i \in 1 .. (k - 1) : before[i] = demand[i]
    BY <1>1, <2>1, SubSeqProperties
  <2>4. behind \in Seq(Deliveries) /\ Len(behind) = n - k /\ \A i \in 1 .. (n - k) : behind[i] = demand[k + i]
    <3>1. k + 1 \in Int /\ n \in Int /\ \A i \in (k + 1) .. n : demand[i] \in Deliveries
      BY <1>1, <2>1
    <3>2. /\ behind \in Seq(Deliveries)
          /\ Len(behind) = IF k + 1 <= n THEN n - (k + 1) + 1 ELSE 0
          /\ \A i \in 1 .. (n - (k + 1) + 1) : behind[i] = demand[(k + 1) + i - 1]
      <4>1. ASSUME NEW m \in Int, \A i \in m .. n : demand[i] \in Deliveries
            PROVE  /\ SubSeq(demand, m, n) \in Seq(Deliveries)
                   /\ Len(SubSeq(demand, m, n)) = IF m <= n THEN n - m + 1 ELSE 0
                   /\ \A i \in 1 .. (n - m + 1) : SubSeq(demand, m, n)[i] = demand[m + i - 1]
        BY <1>1, <4>1, SubSeqProperties
      <4> QED
        BY <3>1, <4>1
    <3> HIDE DEF behind
    <3>3. Len(behind) = n - k
      <4>1. CASE k < n
        <5>1. k + 1 <= n /\ n - (k + 1) + 1 = n - k
          BY <1>1, <2>1, <4>1
        <5> QED
          BY <3>2, <5>1
      <4>2. CASE k = n
        <5>1. ~ (k + 1 <= n) /\ n - k = 0
          BY <1>1, <2>1, <4>2
        <5> QED
          BY <3>2, <5>1
      <4>3. n \in Int /\ k \in Int /\ k <= n
        BY <1>1, <2>1
      <4>4. k < n \/ k = n
        BY <4>3
      <4> QED
        BY <4>1, <4>2, <4>4
    <3>4. \A i \in 1 .. (n - k) : behind[i] = demand[k + i]
      <4> SUFFICES ASSUME NEW i \in 1 .. (n - k) PROVE behind[i] = demand[k + i]
        OBVIOUS
      <4>1. i \in 1 .. (n - (k + 1) + 1) /\ (k + 1) + i - 1 = k + i
        BY <1>1, <2>1
      <4> QED
        BY <1>1, <2>1, <3>2, <4>1
    <3> QED
      BY <3>2, <3>3, <3>4
  <2> HIDE DEF before, behind
  <2>5. after \in Seq(Deliveries) /\ Len(after) = n - 1
    <3>1. before \o behind \in Seq(Deliveries) /\ Len(before \o behind) = Len(before) + Len(behind)
      BY <2>3, <2>4, ConcatProperties
    <3>2. after = before \o behind /\ Len(before) + Len(behind) = n - 1
      BY <1>1, <2>1, <2>2, <2>3, <2>4
    <3> QED
      BY <3>1, <3>2
  <2>6. \A i \in 1 .. (n - 1) : after[i] = IF i < k THEN demand[i] ELSE demand[i + 1]
    <3>1. \A i \in 1 .. Len(before) + Len(behind) :
             (before \o behind)[i] = IF i <= Len(before) THEN before[i] ELSE behind[i - Len(before)]
      <4>1. before \in Seq(Deliveries) /\ behind \in Seq(Deliveries)
        BY <2>3, <2>4
      <4> QED
        BY <4>1, ConcatProperties
    <3> SUFFICES ASSUME NEW i \in 1 .. (n - 1) PROVE after[i] = IF i < k THEN demand[i] ELSE demand[i + 1]
      OBVIOUS
    <3>2. i \in 1 .. Len(before) + Len(behind)
      BY <1>1, <2>1, <2>3, <2>4
    <3>3. after[i] = IF i <= Len(before) THEN before[i] ELSE behind[i - Len(before)]
      BY <2>2, <3>1, <3>2
    <3>4. CASE i < k
      BY <1>1, <2>1, <2>3, <3>3, <3>4
    <3>5. CASE ~ (i < k)
      <4>1. i - (k - 1) \in 1 .. (n - k) /\ k + (i - (k - 1)) = i + 1
        BY <1>1, <2>1, <3>5
      <4>2. after[i] = behind[i - (k - 1)]
        BY <1>1, <2>1, <2>3, <3>3, <3>5
      <4> QED
        BY <2>4, <3>5, <4>1, <4>2
    <3> QED
      BY <3>4, <3>5
  <2>7. DOMAIN after = 1 .. (n - 1)
    BY <2>5, LenProperties
  <2> HIDE DEF after
  <2>8. \A i \in 1 .. (n - 1) : \E j \in 1 .. n : j # k /\ after[i] = demand[j] /\ j = (IF i < k THEN i ELSE i + 1)
    BY <1>1, <2>1, <2>6
  <2>9. ASSUME NEW i \in 1 .. (n - 1), NEW j \in 1 .. (n - 1), after[i] = after[j] PROVE i = j
    <3> DEFINE at(x) == IF x < k THEN x ELSE x + 1
    <3>1. demand[at(i)] = demand[at(j)] /\ at(i) \in 1 .. n /\ at(j) \in 1 .. n
      BY <1>1, <2>1, <2>6, <2>9
    <3>2. at(i) = at(j)
      BY <1>1, <3>1
    <3> QED
      BY <1>1, <2>1, <3>2
  <2>10. \A i \in 1 .. (n - 1) : after[i] # d /\ \E j \in 1 .. n : demand[j] = after[i]
    BY <1>1, <2>1, <2>8
  <2> QED
    BY <1>1, <2>5, <2>7, <2>9, <2>10 DEF after
<1> QED
  BY <1>2, <1>3

(***************************************************************************)
(* The transitions of a slot, with what the code has checked for each.     *)
(***************************************************************************)

\* One receipt of op, one new revision, no other slot.
Moves(d, op) ==
    /\ slot' \in [Deliveries -> Slots] /\ ops' \in [Deliveries -> SUBSET Ops]
    /\ \A e \in Deliveries \ {d} : slot'[e] = slot[e] /\ ops'[e] = ops[e]
    /\ ops'[d] = ops[d] \cup {op}

Keeps(d) == slot'[d].fence = slot[d].fence /\ slot'[d].settled = slot[d].settled

Same == UNCHANGED <<epoch, limits, events, permit>>

Queued == UNCHANGED <<turn, passed>>

Reserves(d) ==
    /\ Moves(d, "reserve") /\ Same /\ UNCHANGED <<lease, demand, seen>>
    /\ slot[d].state = "none" /\ ~VersionBusy(Version[d])
    /\ Cardinality(Processing) < limits.processing /\ Cardinality(Open) < limits.open
    /\ slot'[d].state = "reserved" /\ slot'[d].wait = "none" /\ slot'[d].reason = "none"
    /\ slot'[d].fence = lease[Version[d]].fence /\ slot'[d].settled = 0
    /\ \E contested \in BOOLEAN : Admit("launch", contested)

Binds(d) ==
    /\ Moves(d, "bind") /\ Same /\ UNCHANGED <<lease, demand, seen>> /\ Queued
    /\ slot[d].state \in {"reserved", "processing", "open_only"}
    /\ slot[d].state = "reserved" \/ slot[d].fence # lease[Version[d]].fence
    /\ slot'[d].state = IF slot[d].state = "open_only" THEN "open_only" ELSE "processing"
    /\ slot'[d].wait = slot[d].wait /\ slot'[d].reason = slot[d].reason
    /\ slot'[d].fence = lease[Version[d]].fence /\ slot'[d].settled = slot[d].settled

Settles(d) ==
    /\ Moves(d, "settle") /\ Same /\ UNCHANGED lease /\ Queued
    /\ seen' \in [Deliveries -> [revision : Nat, status : {"none", "open", "terminal"}]]
    /\ Unsettled(d) /\ demand' = Undemanded(d)
    /\ slot[d].state \in {"reserved", "processing", "open_only"}
    /\ slot'[d].fence = slot[d].fence /\ slot'[d].settled = Watermark(d)
    /\ \/ slot'[d].state = "open_only" /\ slot'[d].wait = "quarantine" /\ slot'[d].reason = slot[d].reason
       \/ slot'[d].state = "closing" /\ slot'[d].wait = "none" /\ slot'[d].reason # "none"

RequestsResume(d) ==
    /\ Moves(d, "request_resume") /\ Same /\ UNCHANGED <<lease, seen>> /\ Queued /\ Keeps(d)
    /\ slot[d].state = "open_only" /\ ~Demanded(d) /\ demand' = Append(demand, d)
    /\ slot'[d].state = "open_only" /\ slot'[d].wait = slot[d].wait /\ slot'[d].reason = slot[d].reason

Resumes(d) ==
    /\ Moves(d, "resume") /\ Same /\ UNCHANGED <<lease, seen>> /\ Keeps(d)
    /\ slot[d].state = "open_only" /\ LeaseMatches(d) /\ Live(Version[d])
    /\ Cardinality(Processing) < limits.processing /\ demand' = Undemanded(d)
    /\ slot'[d].state = "processing" /\ slot'[d].wait = "none" /\ slot'[d].reason = slot[d].reason
    /\ \E contested \in BOOLEAN : Admit("resume", contested)

Closes(d) ==
    /\ Moves(d, "close") /\ Same /\ lease' = LeaseDisposition(d) /\ Queued /\ Keeps(d)
    /\ seen' \in [Deliveries -> [revision : Nat, status : {"none", "open", "terminal"}]]
    /\ slot[d].state \in {"reserved", "processing", "open_only"} /\ ~Unsettled(d) /\ demand' = Undemanded(d)
    /\ slot'[d].state = "closing" /\ slot'[d].wait = "none" /\ slot'[d].reason # "none"

Releases(d) ==
    /\ Moves(d, "release") /\ Same /\ UNCHANGED <<lease, demand>> /\ Queued /\ Keeps(d)
    /\ seen' \in [Deliveries -> [revision : Nat, status : {"none", "open", "terminal"}]]
    /\ slot[d].state = "closing"
    /\ slot'[d].state = "released" /\ slot'[d].wait = slot[d].wait /\ slot'[d].reason = slot[d].reason

LosesWorker(d) ==
    /\ Moves(d, "worker_loss") /\ Same /\ UNCHANGED lease /\ Queued /\ Keeps(d)
    /\ seen' \in [Deliveries -> [revision : Nat, status : {"none", "open", "terminal"}]]
    /\ slot[d].state \in {"reserved", "processing"} /\ GrantLost(d) /\ demand' = Undemanded(d)
    /\ slot'[d].state = "open_only" /\ slot'[d].wait = "worker_loss" /\ slot'[d].reason = slot[d].reason

SlotStep(d) ==
    \/ Reserves(d) \/ Binds(d) \/ Settles(d) \/ RequestsResume(d) \/ Resumes(d) \/ Closes(d) \/ Releases(d)
    \/ LosesWorker(d)

\* A recorded change makes exactly the row it was given, at the next revision.
LEMMA RecordMoves ==
    ASSUME TypeInv, NEW d \in Deliveries, NEW op \in Ops, NEW next \in Slots, Record(d, op, next)
    PROVE  /\ Moves(d, op)
           /\ slot'[d].state = next.state /\ slot'[d].wait = next.wait /\ slot'[d].fence = next.fence
           /\ slot'[d].settled = next.settled /\ slot'[d].reason = next.reason
<1>1. slot \in [Deliveries -> Slots] /\ ops \in [Deliveries -> SUBSET Ops]
  BY DEF TypeInv, TypeOK, Slots
<1> DEFINE row == [next EXCEPT !.revision = slot[d].revision + 1]
<1>2. row \in Slots /\ row.state = next.state /\ row.wait = next.wait /\ row.fence = next.fence
      /\ row.settled = next.settled /\ row.reason = next.reason
  BY <1>1 DEF Slots
<1> HIDE DEF row
<1>3. slot' = [slot EXCEPT ![d] = row] /\ ops' = [ops EXCEPT ![d] = ops[d] \cup {op}]
  BY DEF Record, row
<1> QED
  BY <1>1, <1>2, <1>3 DEF Moves

\* Every operation that changes a slot is one of the transitions.
LEMMA Transitions ==
    ASSUME TypeInv, NEW d \in Deliveries, Operation(d)
    PROVE  SlotStep(d) \/ \E status \in {"open", "terminal"} : Observe(d, status)
<1>1. /\ slot[d] \in Slots /\ lease[Version[d]].fence \in 0 .. MaxFence
      /\ lease \in [Versions -> [fence : 0 .. MaxFence, epoch : 0 .. MaxEpoch,
                                 expiry : {"ahead", "past"}, cancelledAt : {"null", "set"}]]
      /\ Watermark(d) \in 0 .. MaxEvents
  <2>1. slot[d] \in Slots
    BY DEF TypeInv, TypeOK, Slots
  <2>2. lease[Version[d]].fence \in 0 .. MaxFence
    BY DEF TypeInv, TypeOK, Versions
  <2>3. Len(events[d]) \in Nat
    BY LenProperties DEF TypeInv
  <2> QED
    BY <2>1, <2>2, <2>3, AdmissionAssumption DEF TypeInv, TypeOK, Watermark
<1> USE DEF Same, Queued, Keeps, config, queues, evidence
<1>2. CASE Reserve(d)
  <2> DEFINE row == [NoSlot EXCEPT !.state = "reserved", !.fence = lease[Version[d]].fence]
  <2>1. row \in Slots /\ row.state = "reserved" /\ row.wait = "none" /\ row.fence = lease[Version[d]].fence
        /\ row.settled = 0 /\ row.reason = "none"
    <3>1. NoSlot \in Slots /\ NoSlot.wait = "none" /\ NoSlot.settled = 0 /\ NoSlot.reason = "none"
      <4>1. 0 \in 0 .. MaxEvents /\ 0 \in 0 .. MaxFence
        BY AdmissionAssumption
      <4> QED
        BY <4>1 DEF NoSlot, Slots, States, Waits
    <3> QED
      BY <1>1, <3>1 DEF Slots, States
  <2>2. Record(d, "reserve", row)
    BY <1>2 DEF Reserve
  <2> HIDE DEF row
  <2>3. Reserves(d)
    BY <1>2, <2>1, <2>2, RecordMoves DEF Reserve, HasRoom, Reserves, Ops
  <2> QED
    BY <2>3 DEF SlotStep
<1>3. CASE Bind(d)
  <2> DEFINE row == [slot[d] EXCEPT !.fence = lease[Version[d]].fence,
                        !.state = IF slot[d].state = "open_only" THEN "open_only" ELSE "processing"]
  <2>1. row \in Slots /\ row.wait = slot[d].wait /\ row.fence = lease[Version[d]].fence
        /\ row.state = (IF slot[d].state = "open_only" THEN "open_only" ELSE "processing")
        /\ row.settled = slot[d].settled /\ row.reason = slot[d].reason
    BY <1>1 DEF Slots, States
  <2>2. Record(d, "bind", row)
    BY <1>3 DEF Bind
  <2> HIDE DEF row
  <2>3. Binds(d)
    BY <1>3, <2>1, <2>2, RecordMoves DEF Bind, Binds, Ops
  <2> QED
    BY <2>3 DEF SlotStep
<1>4. ASSUME seen' = seen \/ seen' = [seen EXCEPT ![d] = NoObservation]
      PROVE  seen' \in [Deliveries -> [revision : Nat, status : {"none", "open", "terminal"}]]
  <2>1. seen \in [Deliveries -> [revision : Nat, status : {"none", "open", "terminal"}]]
    BY DEF TypeInv
  <2>2. NoObservation \in [revision : Nat, status : {"none", "open", "terminal"}]
    BY DEF NoObservation
  <2> QED
    BY <1>4, <2>1, <2>2
<1>5. ASSUME Settlement(d)
      PROVE  /\ Moves(d, "settle") /\ demand' = Undemanded(d)
             /\ slot[d].state \in {"reserved", "processing", "open_only"}
             /\ slot'[d].fence = slot[d].fence /\ slot'[d].settled = Watermark(d)
             /\ \/ slot'[d].state = "open_only" /\ slot'[d].wait = "quarantine" /\ slot'[d].reason = slot[d].reason
                \/ slot'[d].state = "closing" /\ slot'[d].wait = "none" /\ slot'[d].reason # "none"
  <2>1. CASE Latest(d) = "quarantined"
    <3> DEFINE row == [slot[d] EXCEPT !.settled = Watermark(d), !.state = "open_only", !.wait = "quarantine"]
    <3>1. row \in Slots /\ row.state = "open_only" /\ row.wait = "quarantine" /\ row.fence = slot[d].fence
          /\ row.settled = Watermark(d) /\ row.reason = slot[d].reason
      BY <1>1 DEF Slots, States, Waits
    <3>2. Record(d, "settle", row)
      BY <1>5, <2>1 DEF Settlement
    <3> HIDE DEF row
    <3> QED
      BY <1>5, <3>1, <3>2, RecordMoves DEF Settlement, Ops
  <2>2. CASE Latest(d) # "quarantined"
    <3> DEFINE why == IF Latest(d) = "excluded" THEN "terminal_gap" ELSE "completed"
               row == [slot[d] EXCEPT !.settled = Watermark(d), !.state = "closing", !.wait = "none", !.reason = why]
    <3>1. row \in Slots /\ row.state = "closing" /\ row.wait = "none" /\ row.fence = slot[d].fence
          /\ row.settled = Watermark(d) /\ row.reason # "none"
      BY <1>1 DEF Slots, States, Waits, Reasons
    <3>2. Record(d, "settle", row)
      BY <1>5, <2>2 DEF Settlement
    <3> HIDE DEF row
    <3> QED
      BY <1>5, <3>1, <3>2, RecordMoves DEF Settlement, Ops
  <2> QED
    BY <2>1, <2>2
<1>6. ASSUME NEW reason \in Reasons, CloseState(d, reason)
      PROVE  /\ Moves(d, "close") /\ demand' = Undemanded(d) /\ lease' = LeaseDisposition(d) /\ Keeps(d)
             /\ slot'[d].state = "closing" /\ slot'[d].wait = "none" /\ slot'[d].reason # "none"
  <2> DEFINE row == [slot[d] EXCEPT !.state = "closing", !.wait = "none", !.reason = reason]
  <2>1. row \in Slots /\ row.state = "closing" /\ row.wait = "none" /\ row.fence = slot[d].fence
        /\ row.settled = slot[d].settled /\ row.reason # "none"
    BY <1>1 DEF Slots, States, Waits, Reasons
  <2>2. Record(d, "close", row)
    BY <1>6 DEF CloseState
  <2> HIDE DEF row
  <2> QED
    BY <1>6, <2>1, <2>2, RecordMoves DEF CloseState, Ops
<1>7. CASE Settle(d)
  <2>1. Settles(d)
    BY <1>4, <1>5, <1>7 DEF Settle, Settles
  <2> QED
    BY <2>1 DEF SlotStep
<1>8. CASE RequestResume(d)
  <2>1. Record(d, "request_resume", slot[d])
    BY <1>8 DEF RequestResume
  <2>2. RequestsResume(d)
    BY <1>1, <1>8, <2>1, RecordMoves DEF RequestResume, RequestsResume, Ops
  <2> QED
    BY <2>2 DEF SlotStep
<1>9. CASE Resume(d)
  <2> DEFINE row == [slot[d] EXCEPT !.state = "processing", !.wait = "none"]
  <2>1. row \in Slots /\ row.state = "processing" /\ row.wait = "none" /\ row.fence = slot[d].fence
        /\ row.settled = slot[d].settled /\ row.reason = slot[d].reason
    BY <1>1 DEF Slots, States, Waits
  <2>2. Record(d, "resume", row)
    BY <1>9 DEF Resume
  <2> HIDE DEF row
  <2>3. Resumes(d)
    BY <1>9, <2>1, <2>2, RecordMoves DEF Resume, Resumes, Ops
  <2> QED
    BY <2>3 DEF SlotStep
<1>10. ASSUME NEW reason \in CloseReasons, NEW control \in BOOLEAN, Close(d, reason, control) PROVE SlotStep(d)
  <2>1. reason \in Reasons
    BY DEF CloseReasons, Reasons
  <2>2. Closes(d)
    BY <1>4, <1>6, <1>10, <2>1 DEF Close, MayClose, Closes
  <2> QED
    BY <2>2 DEF SlotStep
<1>11. CASE Reconcile(d)
  <2> DEFINE status == seen[d].status
  <2>1. UNCHANGED <<epoch, config, turn, passed, acked, evidence, chain, permit>>
        /\ seen' = [seen EXCEPT ![d] = NoObservation]
        /\ slot[d].state \in {"reserved", "processing", "open_only", "closing"}
    BY <1>1, <1>11 DEF Reconcile, Slots, States
  <2>2. CASE Unsettled(d) /\ Settlement(d) /\ UNCHANGED lease
    <3>1. Settles(d)
      BY <1>4, <1>5, <2>1, <2>2 DEF Settles
    <3> QED
      BY <3>1 DEF SlotStep
  <2>3. CASE /\ ~Unsettled(d) /\ slot[d].state = "closing"
             /\ Record(d, "release", [slot[d] EXCEPT !.state = "released"])
             /\ UNCHANGED <<demand, lease>>
    <3> DEFINE row == [slot[d] EXCEPT !.state = "released"]
    <3>1. row \in Slots /\ row.state = "released" /\ row.wait = slot[d].wait /\ row.fence = slot[d].fence
          /\ row.settled = slot[d].settled /\ row.reason = slot[d].reason
      BY <1>1 DEF Slots, States
    <3>2. Record(d, "release", row)
      BY <2>3
    <3> HIDE DEF row
    <3>3. Releases(d)
      BY <1>4, <2>1, <2>3, <3>1, <3>2, RecordMoves DEF Releases, Ops
    <3> QED
      BY <3>3 DEF SlotStep
  <2>4. CASE ~Unsettled(d) /\ slot[d].state # "closing" /\ CloseState(d, "execution_failed")
    <3>1. "execution_failed" \in Reasons
      BY DEF Reasons
    <3>2. Closes(d)
      BY <1>4, <1>6, <2>1, <2>4, <3>1 DEF Closes
    <3> QED
      BY <3>2 DEF SlotStep
  <2>5. CASE /\ slot[d].state \in {"reserved", "processing"} /\ GrantLost(d)
             /\ WorkerLoss(d) /\ UNCHANGED lease
    <3> DEFINE row == [slot[d] EXCEPT !.state = "open_only", !.wait = "worker_loss"]
    <3>1. row \in Slots /\ row.state = "open_only" /\ row.wait = "worker_loss" /\ row.fence = slot[d].fence
          /\ row.settled = slot[d].settled /\ row.reason = slot[d].reason
      BY <1>1 DEF Slots, States, Waits
    <3>2. Record(d, "worker_loss", row)
      BY <2>5 DEF WorkerLoss
    <3> HIDE DEF row
    <3>3. LosesWorker(d)
      BY <1>4, <2>1, <2>5, <3>1, <3>2, RecordMoves DEF LosesWorker, WorkerLoss, Ops
    <3> QED
      BY <3>3 DEF SlotStep
  <2> QED
    BY <1>11, <2>2, <2>3, <2>4, <2>5 DEF Reconcile, ReconcileSlot
<1> QED
  BY <1>2, <1>3, <1>7, <1>8, <1>9, <1>10, <1>11 DEF Operation

Leases == [fence : 0 .. MaxFence, epoch : 0 .. MaxEpoch, expiry : {"ahead", "past"}, cancelledAt : {"null", "set"}]

LEMMA Types ==
    ASSUME TypeInv
    PROVE  /\ slot \in [Deliveries -> Slots] /\ ops \in [Deliveries -> SUBSET Ops]
           /\ lease \in [Versions -> Leases] /\ \A d \in Deliveries : Version[d] \in Versions
           /\ events \in [Deliveries -> Seq(Events)] /\ permit \in [Deliveries -> 0 .. MaxFence]
           /\ \A d \in Deliveries : Watermark(d) \in Nat /\ Watermark(d) <= MaxEvents
<1>1. \A d \in Deliveries : Watermark(d) \in Nat /\ Watermark(d) <= MaxEvents
  BY LenProperties DEF TypeInv, Watermark
<1> QED
  BY <1>1 DEF TypeInv, TypeOK, Slots, Leases, Versions

\* No lease gets better: the grants that are dead stay dead, the fences stay.
Fades ==
    /\ lease' \in [Versions -> Leases]
    /\ \A v \in Versions : lease'[v].fence = lease[v].fence /\ (Live(v)' => Live(v)) /\ lease'[v].epoch <= epoch'

\* A closure only cancels.
LEMMA DispositionFades ==
    ASSUME TypeInv, FenceInv, NEW d \in Deliveries, lease' = LeaseDisposition(d), epoch' = epoch
    PROVE  Fades
<1>1. lease \in [Versions -> Leases] /\ Version[d] \in Versions /\ \A v \in Versions : lease[v].epoch <= epoch
  BY Types DEF FenceInv
<1> DEFINE row == [lease[Version[d]] EXCEPT !.cancelledAt = "set"]
<1>2. row \in Leases /\ row.fence = lease[Version[d]].fence /\ row.epoch = lease[Version[d]].epoch
      /\ row.cancelledAt = "set"
  BY <1>1 DEF Leases
<1>3. lease' = lease \/ lease' = [lease EXCEPT ![Version[d]] = row]
  BY DEF LeaseDisposition
<1> HIDE DEF row
<1>4. CASE lease' = lease
  BY <1>1, <1>4 DEF Fades, Live, Unexpired
<1>5. CASE lease' = [lease EXCEPT ![Version[d]] = row]
  <2>1. lease' \in [Versions -> Leases] /\ lease'[Version[d]] = row
        /\ \A v \in Versions : v # Version[d] => lease'[v] = lease[v]
    BY <1>1, <1>2, <1>5
  <2>2. \A v \in Versions : Live(v)' => Live(v)
    BY <1>2, <2>1 DEF Live, Unexpired
  <2> QED
    BY <1>1, <1>2, <2>1, <2>2 DEF Fades
<1> QED
  BY <1>3, <1>4, <1>5

\* What every transition of a slot leaves alone.
LEMMA StepFrame ==
    ASSUME TypeInv, FenceInv, NEW d \in Deliveries, SlotStep(d)
    PROVE  /\ slot' \in [Deliveries -> Slots] /\ ops' \in [Deliveries -> SUBSET Ops]
           /\ \A e \in Deliveries \ {d} : slot'[e] = slot[e] /\ ops'[e] = ops[e]
           /\ ops[d] \subseteq ops'[d]
           /\ Same /\ Fades
           /\ \/ demand' = demand /\ (slot'[d].state = "open_only" <=> slot[d].state = "open_only")
              \/ demand' = Undemanded(d)
              \/ demand' = Append(demand, d) /\ RequestsResume(d)
           /\ seen' \in [Deliveries -> [revision : Nat, status : {"none", "open", "terminal"}]]
<1>1. ASSUME UNCHANGED <<lease, epoch>> PROVE Fades
  BY <1>1, Types DEF Fades, FenceInv, Live, Unexpired
<1>2. seen \in [Deliveries -> [revision : Nat, status : {"none", "open", "terminal"}]]
  BY DEF TypeInv
<1> USE DEF Moves, Same
<1>3. CASE Reserves(d)
  BY <1>1, <1>2, <1>3 DEF Reserves
<1>4. CASE Binds(d)
  BY <1>1, <1>2, <1>4 DEF Binds
<1>5. CASE Settles(d)
  BY <1>1, <1>5 DEF Settles
<1>6. CASE RequestsResume(d)
  <2>1. Moves(d, "request_resume") /\ Same /\ UNCHANGED <<lease, seen>> /\ demand' = Append(demand, d)
    BY <1>6 DEF RequestsResume
  <2> QED
    BY <1>1, <1>2, <1>6, <2>1
<1>7. CASE Resumes(d)
  BY <1>1, <1>2, <1>7 DEF Resumes
<1>8. CASE Closes(d)
  <2>1. Fades
    BY <1>8, DispositionFades DEF Closes
  <2> QED
    BY <1>8, <2>1 DEF Closes
<1>9. CASE Releases(d)
  BY <1>1, <1>9 DEF Releases
<1>10. CASE LosesWorker(d)
  BY <1>1, <1>10 DEF LosesWorker
<1> QED
  BY <1>3, <1>4, <1>5, <1>6, <1>7, <1>8, <1>9, <1>10 DEF SlotStep

-----------------------------------------------------------------------------
(***************************************************************************)
(* The transitions of a slot keep each part of the invariant.              *)
(***************************************************************************)
LEMMA StepFence ==
    ASSUME TypeInv, FenceInv, NEW d \in Deliveries, SlotStep(d)
    PROVE  FenceInv'
<1>1. Fades /\ permit' = permit
  BY StepFrame DEF Same
<1>2. \A e \in Deliveries : slot'[e].fence = slot[e].fence \/ slot'[e].fence = lease[Version[e]].fence
  <2>1. \A e \in Deliveries \ {d} : slot'[e] = slot[e]
    BY StepFrame
  <2>2. slot'[d].fence = slot[d].fence \/ slot'[d].fence = lease[Version[d]].fence
    BY DEF SlotStep, Reserves, Binds, Settles, RequestsResume, Resumes, Closes, Releases, LosesWorker, Keeps
  <2> QED
    BY <2>1, <2>2
<1>3. \A e \in Deliveries : Version[e] \in Versions /\ lease[Version[e]].fence \in Int
  BY Types DEF Leases
<1> QED
  BY <1>1, <1>2, <1>3 DEF FenceInv, Fades

LEMMA StepPermit ==
    ASSUME TypeInv, FenceInv, PermitInv, NEW d \in Deliveries, SlotStep(d)
    PROVE  PermitInv'
<1>1. Fades /\ permit' = permit /\ events' = events /\ \A e \in Deliveries \ {d} : slot'[e] = slot[e]
  BY StepFrame DEF Same
<1>2. \A e \in Deliveries : Version[e] \in Versions
  BY Types
<1> SUFFICES ASSUME NEW e \in Deliveries, MayApply(e)'
             PROVE  slot'[e].state = "processing" /\ slot'[e].fence = permit'[e] /\ ~Unsettled(e)'
  BY DEF PermitInv
<1>3. MayApply(e)
  BY <1>1, <1>2 DEF MayApply, Fades
<1>4. slot[e].state = "processing" /\ slot[e].fence = permit[e] /\ ~Unsettled(e)
      /\ permit[e] = lease[Version[e]].fence /\ Live(Version[e])
  BY <1>3 DEF PermitInv, MayApply
<1>5. CASE e # d
  BY <1>1, <1>4, <1>5 DEF Unsettled, Latest, Watermark
<1>6. CASE e = d
  <2>1. ~Reserves(d)
    BY <1>4, <1>6 DEF Reserves
  <2>2. ~Binds(d)
    BY <1>4, <1>6 DEF Binds
  <2>3. ~Settles(d)
    BY <1>4, <1>6 DEF Settles
  <2>4. ~RequestsResume(d)
    BY <1>4, <1>6 DEF RequestsResume
  <2>5. ~Resumes(d)
    BY <1>4, <1>6 DEF Resumes
  <2>6. ~Releases(d)
    BY <1>4, <1>6 DEF Releases
  <2>7. ~LosesWorker(d)
    BY <1>4, <1>6 DEF LosesWorker, GrantLost, LeaseMatches
  <2>8. ~Closes(d)
    <3>1. ASSUME Closes(d) PROVE ~Live(Version[d])'
      <4>1. lease' = [lease EXCEPT ![Version[d]] = [lease[Version[d]] EXCEPT !.cancelledAt = "set"]]
        BY <1>4, <1>6, <3>1 DEF Closes, LeaseDisposition, LeaseMatches
      <4>2. lease[Version[d]] \in Leases /\ lease \in [Versions -> Leases]
        BY <1>2, Types
      <4>3. lease'[Version[d]].cancelledAt = "set"
        BY <1>2, <4>1, <4>2 DEF Leases
      <4> QED
        BY <4>3 DEF Live
    <3>2. Live(Version[d])'
      BY <1>6 DEF MayApply
    <3> QED
      BY <3>1, <3>2
  <2> QED
    BY <2>1, <2>2, <2>3, <2>4, <2>5, <2>6, <2>7, <2>8 DEF SlotStep
<1> QED
  BY <1>5, <1>6

LEMMA StepEvidence ==
    ASSUME TypeInv, FenceInv, EvidenceInv, NEW d \in Deliveries, SlotStep(d)
    PROVE  EvidenceInv'
<1>1. events' = events /\ \A e \in Deliveries \ {d} : slot'[e] = slot[e]
  BY StepFrame DEF Same
<1>2. ASSUME slot'[d].state \in {"closing", "released"} PROVE ~Unsettled(d)'
  <2>1. CASE Settles(d)
    <3>1. slot'[d].settled = Watermark(d) /\ Watermark(d) \in Nat
      BY <2>1, Types DEF Settles
    <3> QED
      BY <1>1, <3>1 DEF Unsettled, Watermark
  <2>2. CASE Closes(d)
    BY <1>1, <2>2 DEF Closes, Keeps, Unsettled, Latest, Watermark
  <2>3. CASE Releases(d)
    BY <1>1, <2>3 DEF Releases, Keeps, EvidenceInv, EvidenceSettled, Unsettled, Latest, Watermark
  <2> QED
    BY <1>2, <2>1, <2>2, <2>3 DEF SlotStep, Reserves, Binds, RequestsResume, Resumes, LosesWorker
<1>3. ASSUME slot'[d].state \in {"none", "reserved"} PROVE events'[d] = <<>>
  <2>1. Reserves(d)
    BY <1>3 DEF SlotStep, Binds, Settles, RequestsResume, Resumes, Closes, Releases, LosesWorker
  <2> QED
    BY <1>1, <2>1 DEF Reserves, EvidenceInv
<1>4. \A e \in Deliveries \ {d} : slot'[e].state \in {"closing", "released"} => ~Unsettled(e)'
  BY <1>1 DEF EvidenceInv, EvidenceSettled, Unsettled, Latest, Watermark
<1>5. \A e \in Deliveries \ {d} : slot'[e].state \in {"none", "reserved"} => events'[e] = <<>>
  BY <1>1 DEF EvidenceInv
<1> QED
  BY <1>2, <1>3, <1>4, <1>5 DEF EvidenceInv, EvidenceSettled

LEMMA StepTurn ==
    ASSUME TypeInv, TurnInv, NEW d \in Deliveries, SlotStep(d)
    PROVE  TurnInv' /\ turn' \in {"launch", "resume"} /\ passed' \in [{"launch", "resume"} -> Nat]
<1>1. passed \in [{"launch", "resume"} -> Nat] /\ turn \in {"launch", "resume"}
  BY DEF TypeInv
<1>2. ASSUME NEW contested \in BOOLEAN, NEW q \in {"launch", "resume"}, Admit(q, contested)
      PROVE  TurnInv' /\ turn' \in {"launch", "resume"} /\ passed' \in [{"launch", "resume"} -> Nat]
  <2>1. CASE contested
    <3>1. turn = q /\ turn' = Flip(q) /\ Flip(q) \in {"launch", "resume"} /\ Flip(q) # q
          /\ passed' = [passed EXCEPT ![q] = 0, ![Flip(q)] = passed[Flip(q)] + 1]
      BY <1>2, <2>1 DEF Admit, Flip
    <3>2. passed[Flip(q)] = 0
      BY <1>1, <3>1 DEF TurnInv, FairTurns
    <3> QED
      BY <1>1, <3>1, <3>2 DEF TurnInv, FairTurns, Flip
  <2>2. CASE ~contested
    <3>1. turn' = turn /\ passed' = [passed EXCEPT ![q] = 0, ![Flip(q)] = 0]
      BY <1>2, <2>2 DEF Admit
    <3> QED
      BY <1>1, <3>1 DEF TurnInv, FairTurns, Flip
  <2> QED
    BY <2>1, <2>2
<1>3. ASSUME UNCHANGED <<turn, passed>>
      PROVE  TurnInv' /\ turn' \in {"launch", "resume"} /\ passed' \in [{"launch", "resume"} -> Nat]
  BY <1>1, <1>3 DEF TurnInv, FairTurns
<1>4. CASE Reserves(d)
  BY <1>2, <1>4 DEF Reserves
<1>5. CASE Resumes(d)
  BY <1>2, <1>5 DEF Resumes
<1> QED
  BY <1>3, <1>4, <1>5 DEF SlotStep, Binds, Settles, RequestsResume, Closes, Releases, LosesWorker, Queued

LEMMA StepOneSlot ==
    ASSUME TypeInv, OneLiveSlot, NEW d \in Deliveries, SlotStep(d)
    PROVE  OneLiveSlot'
<1>1. \A e \in Deliveries \ {d} : slot'[e] = slot[e]
  BY DEF SlotStep, Reserves, Binds, Settles, RequestsResume, Resumes, Closes, Releases, LosesWorker, Moves
<1>2. CASE Reserves(d)
  <2>1. \A e \in Open : Version[e] # Version[d]
    BY <1>2 DEF Reserves, VersionBusy
  <2> QED
    BY <1>1, <2>1 DEF OneLiveSlot, Open, InState
<1>3. CASE ~Reserves(d)
  <2>1. slot[d].state \in {"reserved", "processing", "open_only", "closing"}
    BY <1>3 DEF SlotStep, Binds, Settles, RequestsResume, Resumes, Closes, Releases, LosesWorker
  <2> QED
    BY <1>1, <2>1 DEF OneLiveSlot, Open, InState
<1> QED
  BY <1>2, <1>3

LEMMA StepEffect ==
    ASSUME TypeInv, FenceInv, EvidenceInv, EffectInv, NEW d \in Deliveries, SlotStep(d)
    PROVE  EffectInv'
<1>1. /\ \A e \in Deliveries \ {d} : slot'[e] = slot[e] /\ ops'[e] = ops[e]
      /\ ops[d] \subseteq ops'[d] /\ Fades /\ events' = events
      /\ \A e \in Deliveries : Version[e] \in Versions
  BY StepFrame, Types DEF Same
<1>2. \A e \in Deliveries : (Live(Version[e])' => Live(Version[e])) /\ lease'[Version[e]].fence = lease[Version[e]].fence
  BY <1>1 DEF Fades
<1> USE DEF Moves
<1>3. ASSUME NEW e \in Deliveries, slot'[e].state \in {"processing", "open_only"}, LeaseMatches(e)', Live(Version[e])'
      PROVE  "bind" \in ops'[e]
  <2>1. CASE e # d
    BY <1>1, <1>2, <1>3, <2>1 DEF EffectInv, EffectFound, LeaseMatches
  <2>2. CASE e = d
    <3>1. Live(Version[d])
      BY <1>2, <1>3, <2>2
    <3>2. ASSUME slot[d].state \in {"processing", "open_only"}, slot'[d].fence = slot[d].fence
          PROVE  "bind" \in ops'[d]
      <4>1. LeaseMatches(d)
        BY <1>2, <1>3, <2>2, <3>2 DEF LeaseMatches
      <4> QED
        BY <1>1, <3>1, <3>2, <4>1 DEF EffectInv, EffectFound
    <3>3. CASE Binds(d)
      BY <2>2, <3>3 DEF Binds
    <3>4. CASE Settles(d)
      <4>1. slot[d].state # "reserved"
        BY <3>4 DEF Settles, Unsettled, Latest, EvidenceInv
      <4> QED
        BY <1>3, <2>2, <3>2, <3>4, <4>1 DEF Settles
    <3>5. CASE RequestsResume(d)
      BY <2>2, <3>2, <3>5 DEF RequestsResume, Keeps
    <3>6. CASE Resumes(d)
      BY <2>2, <3>2, <3>6 DEF Resumes, Keeps
    <3>7. ~LosesWorker(d)
      <4>1. ASSUME LosesWorker(d) PROVE FALSE
        <5>1. lease' = lease /\ slot'[d].fence = slot[d].fence /\ GrantLost(d)
          BY <4>1 DEF LosesWorker, Keeps
        <5> QED
          BY <1>3, <2>2, <3>1, <5>1 DEF GrantLost, LeaseMatches
      <4> QED
        BY <4>1
    <3> QED
      BY <1>3, <2>2, <3>3, <3>4, <3>5, <3>6, <3>7 DEF SlotStep, Reserves, Closes, Releases
  <2> QED
    BY <2>1, <2>2
<1>4. ASSUME NEW e \in Deliveries, slot'[e].settled > 0 PROVE "settle" \in ops'[e]
  <2>1. CASE e # d
    BY <1>1, <1>4, <2>1 DEF EffectInv, EffectFound
  <2>2. CASE e = d
    <3>1. Settles(d) \/ slot'[d].settled = 0 \/ slot'[d].settled = slot[d].settled
      BY DEF SlotStep, Reserves, Binds, RequestsResume, Resumes, Closes, Releases, LosesWorker, Keeps
    <3>2. CASE Settles(d)
      BY <2>2, <3>2 DEF Settles
    <3> QED
      BY <1>1, <1>4, <2>2, <3>1, <3>2 DEF EffectInv, EffectFound
  <2> QED
    BY <2>1, <2>2
<1>5. ASSUME NEW e \in Deliveries, Demanded(e)' PROVE "request_resume" \in ops'[e]
  <2>1. CASE demand' = demand
    BY <1>1, <1>5, <2>1 DEF EffectInv, EffectFound, Demanded
  <2>2. CASE demand' = Undemanded(d)
    <3>1. e # d /\ Demanded(e)
      BY <1>5, <2>2, UndemandedKeeps DEF Demanded, TypeInv
    <3> QED
      BY <1>1, <3>1 DEF EffectInv, EffectFound
  <2>3. CASE demand' = Append(demand, d) /\ RequestsResume(d)
    <3>1. e = d \/ Demanded(e)
      <4>1. PICK i \in DOMAIN demand' : demand'[i] = e
        BY <1>5 DEF Demanded
      <4>2. /\ DOMAIN demand = 1 .. Len(demand) /\ Len(demand) \in Nat
            /\ DOMAIN demand' = 1 .. Len(demand) + 1
            /\ demand'[Len(demand) + 1] = d /\ \A j \in 1 .. Len(demand) : demand'[j] = demand[j]
        BY <2>3, AppendProperties, LenProperties DEF TypeInv
      <4>3. i = Len(demand) + 1 \/ i \in DOMAIN demand
        BY <4>1, <4>2
      <4> QED
        BY <4>1, <4>2, <4>3 DEF Demanded
    <3>2. "request_resume" \in ops'[d]
      BY <2>3 DEF RequestsResume
    <3> QED
      BY <1>1, <3>1, <3>2 DEF EffectInv, EffectFound
  <2> QED
    BY <2>1, <2>2, <2>3, StepFrame
<1>6. ASSUME NEW e \in Deliveries, slot'[e].state = "processing" PROVE "bind" \in ops'[e]
  <2>1. CASE e # d
    BY <1>1, <1>6, <2>1 DEF EffectInv
  <2>2. CASE e = d
    <3>1. CASE Binds(d)
      BY <2>2, <3>1 DEF Binds
    <3>2. CASE Resumes(d)
      BY <1>1, <2>2, <3>2 DEF Resumes, EffectInv, EffectFound
    <3> QED
      BY <1>6, <2>2, <3>1, <3>2
      DEF SlotStep, Reserves, Settles, RequestsResume, Closes, Releases, LosesWorker
  <2> QED
    BY <2>1, <2>2
<1> QED
  BY <1>3, <1>4, <1>5, <1>6 DEF EffectInv, EffectFound

LEMMA StepType ==
    ASSUME TypeInv, FenceInv, TurnInv, NEW d \in Deliveries, SlotStep(d)
    PROVE  TypeInv'
<1>1. /\ slot' \in [Deliveries -> Slots] /\ ops' \in [Deliveries -> SUBSET Ops]
      /\ \A e \in Deliveries \ {d} : slot'[e] = slot[e]
      /\ Same /\ lease' \in [Versions -> Leases]
      /\ seen' \in [Deliveries -> [revision : Nat, status : {"none", "open", "terminal"}]]
  BY StepFrame DEF Fades
<1>2. turn' \in {"launch", "resume"} /\ passed' \in [{"launch", "resume"} -> Nat]
  BY StepTurn
<1>3. /\ slot'[d].state = "open_only" <=> slot'[d].wait # "none"
      /\ slot'[d].state \in {"closing", "released"} <=> slot'[d].reason # "none"
  <2>1. /\ slot[d].state = "open_only" <=> slot[d].wait # "none"
        /\ slot[d].state \in {"closing", "released"} <=> slot[d].reason # "none"
    BY DEF TypeInv, TypeOK
  <2> QED
    BY <2>1 DEF SlotStep, Reserves, Binds, Settles, RequestsResume, Resumes, Closes, Releases, LosesWorker
<1>4. demand \in Seq(Deliveries) /\ \A i, j \in DOMAIN demand : demand[i] = demand[j] => i = j
  BY DEF TypeInv
<1>5. \A i \in DOMAIN demand : slot[demand[i]].state = "open_only" /\ demand[i] \in Deliveries
  BY ElementOfSeq, LenProperties DEF TypeInv, TypeOK
<1>6. /\ demand' \in Seq(Deliveries)
      /\ \A i, j \in DOMAIN demand' : demand'[i] = demand'[j] => i = j
      /\ \A i \in DOMAIN demand' : slot'[demand'[i]].state = "open_only"
  <2>1. CASE demand' = demand /\ (slot'[d].state = "open_only" <=> slot[d].state = "open_only")
    BY <1>1, <1>4, <1>5, <2>1
  <2>2. CASE demand' = Undemanded(d)
    <3>1. \A i \in DOMAIN demand' : demand'[i] # d /\ \E j \in DOMAIN demand : demand[j] = demand'[i]
      BY <1>4, <2>2, UndemandedKeeps
    <3>2. demand' \in Seq(Deliveries) /\ \A i, j \in DOMAIN demand' : demand'[i] = demand'[j] => i = j
      BY <1>4, <2>2, UndemandedKeeps
    <3> QED
      BY <1>1, <1>5, <3>1, <3>2
  <2>3. CASE demand' = Append(demand, d) /\ RequestsResume(d)
    <3>1. slot'[d].state = "open_only" /\ \A i \in DOMAIN demand : demand[i] # d
      BY <2>3 DEF RequestsResume, Demanded
    <3>2. /\ demand' \in Seq(Deliveries) /\ Len(demand) \in Nat /\ DOMAIN demand = 1 .. Len(demand)
          /\ DOMAIN demand' = 1 .. Len(demand) + 1
          /\ demand'[Len(demand) + 1] = d /\ \A i \in 1 .. Len(demand) : demand'[i] = demand[i]
      BY <1>4, <2>3, AppendProperties, LenProperties
    <3>3. \A i \in DOMAIN demand' : i \in DOMAIN demand \/ i = Len(demand) + 1
      BY <3>2
    <3>4. \A i, j \in DOMAIN demand' : demand'[i] = demand'[j] => i = j
      BY <1>4, <3>1, <3>2, <3>3
    <3>5. \A i \in DOMAIN demand' : slot'[demand'[i]].state = "open_only"
      BY <1>1, <1>5, <3>1, <3>2, <3>3
    <3> QED
      BY <3>2, <3>4, <3>5
  <2> QED
    BY <2>1, <2>2, <2>3, StepFrame
<1>7. TypeOK'
  <2>1. \A e \in Deliveries : /\ slot'[e].state = "open_only" <=> slot'[e].wait # "none"
                              /\ slot'[e].state \in {"closing", "released"} <=> slot'[e].reason # "none"
    <3>1. \A e \in Deliveries : /\ slot[e].state = "open_only" <=> slot[e].wait # "none"
                                /\ slot[e].state \in {"closing", "released"} <=> slot[e].reason # "none"
      BY DEF TypeInv, TypeOK
    <3> QED
      BY <1>1, <1>3, <3>1
  <2>2. epoch' \in 1 .. MaxEpoch /\ \A e \in Deliveries : events'[e] \in Seq(Events)
    BY <1>1 DEF TypeInv, TypeOK, Same
  <2> QED
    BY <1>1, <1>6, <2>1, <2>2 DEF TypeOK, Slots, Leases, Events
<1> QED
  BY <1>1, <1>2, <1>6, <1>7 DEF TypeInv, Same

LEMMA StepInv ==
    ASSUME IInv, NEW d \in Deliveries, SlotStep(d)
    PROVE  IInv'
BY StepType, StepFence, StepPermit, StepEvidence, StepEffect, StepTurn, StepOneSlot DEF IInv

-----------------------------------------------------------------------------
(***************************************************************************)
(* The steps of the world around the slots keep the invariant.             *)
(***************************************************************************)
Idles == UNCHANGED <<slot, ops, demand, turn, passed>>

Typed ==
    /\ epoch' \in 1 .. MaxEpoch
    /\ limits' \in [revision : Nat, processing : Nat, open : Nat]
    /\ seen' \in [Deliveries -> [revision : Nat, status : {"none", "open", "terminal"}]]

LEMMA IdleParts ==
    ASSUME TypeInv, TurnInv, OneLiveSlot, Idles, Typed, lease' \in [Versions -> Leases],
           permit' \in [Deliveries -> 0 .. MaxFence],
           events' \in [Deliveries -> Seq(Events)], \A d \in Deliveries : Len(events'[d]) <= MaxEvents
    PROVE  TypeInv' /\ TurnInv' /\ OneLiveSlot'
<1>1. TurnInv' /\ OneLiveSlot'
  BY DEF Idles, TurnInv, FairTurns, OneLiveSlot, Open, InState
<1>2. \A d \in Deliveries : events'[d] \in Seq(Events)
  OBVIOUS
<1>3. TypeOK'
  BY <1>2 DEF TypeInv, TypeOK, Idles, Typed, Leases, Events
<1> QED
  BY <1>1, <1>3 DEF TypeInv, Idles, Typed

\* Clocks, rotations, cancellations, observations and the sources: no lease gets better.
LEMMA FadingInv ==
    ASSUME IInv, Idles, Typed, Fades, UNCHANGED <<events, permit>>
    PROVE  IInv'
<1>1. TypeInv /\ FenceInv /\ PermitInv /\ EvidenceInv /\ EffectInv /\ TurnInv /\ OneLiveSlot
  BY DEF IInv
<1>2. \A e \in Deliveries : Version[e] \in Versions
  BY <1>1, Types
<1>3. \A e \in Deliveries : (Live(Version[e])' => Live(Version[e])) /\ lease'[Version[e]].fence = lease[Version[e]].fence
  BY <1>2 DEF Fades
<1>4. TypeInv' /\ TurnInv' /\ OneLiveSlot'
  <2>1. lease' \in [Versions -> Leases] /\ permit' \in [Deliveries -> 0 .. MaxFence]
        /\ events' \in [Deliveries -> Seq(Events)] /\ \A d \in Deliveries : Len(events'[d]) <= MaxEvents
    BY <1>1 DEF Fades, TypeInv
  <2> QED
    BY <1>1, <2>1, IdleParts
<1>5. FenceInv'
  BY <1>1, <1>3 DEF FenceInv, Fades, Idles
<1>6. PermitInv'
  BY <1>1, <1>3 DEF PermitInv, MayApply, Idles, Unsettled, Latest, Watermark
<1>7. EvidenceInv'
  BY <1>1 DEF EvidenceInv, EvidenceSettled, Idles, Unsettled, Latest, Watermark
<1>8. EffectInv'
  BY <1>1, <1>3 DEF EffectInv, EffectFound, Idles, LeaseMatches, Demanded
<1> QED
  BY <1>4, <1>5, <1>6, <1>7, <1>8 DEF IInv

\* A new grant has a fence that no slot and no permission names.
LEMMA GrantInv ==
    ASSUME IInv, NEW v \in Versions, GrantLease(v)
    PROVE  IInv'
<1>1. TypeInv /\ FenceInv /\ PermitInv /\ EvidenceInv /\ EffectInv /\ TurnInv /\ OneLiveSlot
  BY DEF IInv
<1>2. /\ \A e \in Deliveries : Version[e] \in Versions
      /\ lease \in [Versions -> Leases] /\ slot \in [Deliveries -> Slots] /\ permit \in [Deliveries -> 0 .. MaxFence]
  BY <1>1, Types
<1> DEFINE row == [fence |-> lease[v].fence + 1, epoch |-> epoch, expiry |-> "ahead", cancelledAt |-> "null"]
<1>3. row \in Leases /\ row.fence = lease[v].fence + 1 /\ row.epoch = epoch
  <2>1. lease[v].fence \in 0 .. MaxFence /\ lease[v].fence < MaxFence /\ epoch \in 1 .. MaxEpoch
    BY <1>1, <1>2 DEF GrantLease, TypeInv, TypeOK, Leases
  <2>2. MaxFence \in Nat /\ MaxEpoch \in Nat
    BY AdmissionAssumption
  <2> QED
    BY <2>1, <2>2 DEF Leases
<1>4. lease' = [lease EXCEPT ![v] = row] /\ Idles /\ UNCHANGED <<epoch, limits, events, permit, seen>>
  BY DEF GrantLease, Idles, queues, config, evidence
<1> HIDE DEF row
<1>5. lease' \in [Versions -> Leases] /\ lease'[v] = row /\ \A w \in Versions \ {v} : lease'[w] = lease[w]
  BY <1>2, <1>3, <1>4
<1>6. TypeInv' /\ TurnInv' /\ OneLiveSlot'
  <2>1. Typed /\ permit' \in [Deliveries -> 0 .. MaxFence]
        /\ events' \in [Deliveries -> Seq(Events)] /\ \A d \in Deliveries : Len(events'[d]) <= MaxEvents
    BY <1>1, <1>4 DEF Typed, TypeInv, TypeOK
  <2> QED
    BY <1>1, <1>4, <1>5, <2>1, IdleParts
<1>7. \A e \in Deliveries : /\ slot[e].fence \in Int /\ permit[e] \in Int /\ lease[Version[e]].fence \in Int
                            /\ slot[e].fence <= lease[Version[e]].fence /\ permit[e] <= lease[Version[e]].fence
  BY <1>1, <1>2 DEF FenceInv, Slots, Leases
<1>8. \A e \in Deliveries : /\ Version[e] = v => lease'[Version[e]].fence = lease[Version[e]].fence + 1
                            /\ Version[e] # v => lease'[Version[e]] = lease[Version[e]]
  BY <1>2, <1>3, <1>5
<1>9. FenceInv'
  <2>1. \A e \in Deliveries : slot'[e].fence <= lease'[Version[e]].fence /\ permit'[e] <= lease'[Version[e]].fence
    BY <1>4, <1>7, <1>8 DEF Idles
  <2>2. \A w \in Versions : lease'[w].epoch <= epoch'
    BY <1>1, <1>3, <1>4, <1>5 DEF FenceInv, TypeInv, TypeOK
  <2> QED
    BY <2>1, <2>2 DEF FenceInv
<1>10. \A e \in Deliveries : Version[e] = v => ~LeaseMatches(e)' /\ ~MayApply(e)'
  BY <1>4, <1>7, <1>8 DEF Idles, LeaseMatches, MayApply
<1>11. \A e \in Deliveries : Version[e] # v => /\ Live(Version[e])' => Live(Version[e])
                                              /\ lease'[Version[e]].fence = lease[Version[e]].fence
  BY <1>4, <1>8 DEF Live, Unexpired
<1>12. PermitInv'
  BY <1>1, <1>4, <1>10, <1>11 DEF PermitInv, MayApply, Idles, Unsettled, Latest, Watermark
<1>13. EvidenceInv'
  BY <1>1, <1>4 DEF EvidenceInv, EvidenceSettled, Idles, Unsettled, Latest, Watermark
<1>14. EffectInv'
  BY <1>1, <1>4, <1>10, <1>11 DEF EffectInv, EffectFound, Idles, LeaseMatches, Demanded
<1> QED
  BY <1>6, <1>9, <1>12, <1>13, <1>14 DEF IInv

\* A quarantine grows old: its watermark and its state stay.
LEMMA AgeInv ==
    ASSUME IInv, NEW d \in Deliveries, AgeQuarantine(d)
    PROVE  IInv'
<1>1. TypeInv /\ FenceInv /\ PermitInv /\ EvidenceInv /\ EffectInv /\ TurnInv /\ OneLiveSlot
  BY DEF IInv
<1>2. events \in [Deliveries -> Seq(Events)] /\ lease \in [Versions -> Leases] /\ permit \in [Deliveries -> 0 .. MaxFence]
  BY <1>1, Types
<1>3. Idles /\ UNCHANGED <<lease, epoch, limits, permit, seen>>
  BY DEF AgeQuarantine, Idles, queues, config
<1> DEFINE row == [state |-> "quarantined", age |-> "old"]
           aged == [events[d] EXCEPT ![Watermark(d)] = row]
<1>4. Latest(d) = "quarantined" /\ events' = [events EXCEPT ![d] = aged]
  BY DEF AgeQuarantine
<1>5. events[d] # <<>> /\ events[d] \in Seq(Events)
  BY <1>2, <1>4 DEF Latest
<1>6. aged \in Seq(Events) /\ Len(aged) = Len(events[d]) /\ aged # <<>> /\ aged[Len(aged)] = row
  <2>1. Watermark(d) \in 1 .. Len(events[d])
    BY <1>5, EmptySeq, LenProperties DEF Watermark
  <2>2. row \in Events
    BY DEF Events, Acceptances
  <2>3. aged \in Seq(Events) /\ Len(aged) = Len(events[d]) /\ aged[Watermark(d)] = row
    BY <1>5, <2>1, <2>2, ExceptSeq
  <2> QED
    BY <2>1, <2>3, EmptySeq DEF Watermark
<1> HIDE DEF aged
<1>7. events' \in [Deliveries -> Seq(Events)] /\ events'[d] = aged /\ \A e \in Deliveries \ {d} : events'[e] = events[e]
  BY <1>2, <1>4, <1>6
<1>8. \A e \in Deliveries : Watermark(e)' = Watermark(e) /\ Latest(e)' = Latest(e)
  <2>1. Watermark(d)' = Watermark(d) /\ Latest(d)' = "quarantined"
    BY <1>6, <1>7 DEF Watermark, Latest
  <2> QED
    BY <1>4, <1>7, <2>1 DEF Watermark, Latest
<1>9. TypeInv' /\ TurnInv' /\ OneLiveSlot'
  <2>1. Typed
    BY <1>1, <1>3 DEF Typed, TypeInv, TypeOK
  <2>2. \A e \in Deliveries : Len(events'[e]) <= MaxEvents
    BY <1>1, <1>8 DEF TypeInv, Watermark
  <2> QED
    BY <1>1, <1>2, <1>3, <1>7, <2>1, <2>2, IdleParts
<1>10. FenceInv'
  BY <1>1, <1>3 DEF FenceInv, Idles
<1>11. \A e \in Deliveries : (Unsettled(e)' <=> Unsettled(e)) /\ (Live(Version[e])' <=> Live(Version[e]))
  BY <1>3, <1>8 DEF Unsettled, Idles, Live, Unexpired
<1>12. PermitInv'
  BY <1>1, <1>3, <1>11 DEF PermitInv, MayApply, Idles
<1>13. EvidenceInv'
  BY <1>1, <1>3, <1>5, <1>7, <1>11 DEF EvidenceInv, EvidenceSettled, Idles
<1>14. EffectInv'
  BY <1>1, <1>3, <1>11 DEF EffectInv, EffectFound, Idles, LeaseMatches, Demanded
<1> QED
  BY <1>9, <1>10, <1>12, <1>13, <1>14 DEF IInv

\* A permission is given to the holder of the slot, and spent by what it applies.
LEMMA PermissionInv ==
    ASSUME IInv, NEW d \in Deliveries,
           CheckPermission(d) \/ ApplyTerminalGap(d) \/ \E state \in Acceptances : ApplyAcceptance(d, state)
    PROVE  IInv'
<1>1. TypeInv /\ FenceInv /\ PermitInv /\ EvidenceInv /\ EffectInv /\ TurnInv /\ OneLiveSlot
  BY DEF IInv
<1>2. /\ events \in [Deliveries -> Seq(Events)] /\ lease \in [Versions -> Leases]
      /\ permit \in [Deliveries -> 0 .. MaxFence]
      /\ \A e \in Deliveries : Version[e] \in Versions
  BY <1>1, Types
<1>3. Idles /\ UNCHANGED <<lease, epoch, limits, seen>>
  BY DEF CheckPermission, ApplyTerminalGap, ApplyAcceptance, Idles, queues, config
<1>4. /\ events' \in [Deliveries -> Seq(Events)] /\ \A e \in Deliveries \ {d} : events'[e] = events[e]
      /\ Len(events'[d]) <= MaxEvents
      /\ events'[d] = events[d] \/ MayApply(d)
  <2>1. CASE \E state \in Acceptances : ApplyAcceptance(d, state)
    <3>1. PICK state \in Acceptances : ApplyAcceptance(d, state)
      BY <2>1
    <3> DEFINE row == [state |-> state, age |-> "young"]
    <3>2. row \in Events
      BY DEF Events
    <3>3. events' = [events EXCEPT ![d] = Append(events[d], row)] /\ Len(events[d]) < MaxEvents /\ MayApply(d)
      BY <3>1 DEF ApplyAcceptance, Watermark
    <3>4. Append(events[d], row) \in Seq(Events) /\ Len(Append(events[d], row)) = Len(events[d]) + 1
          /\ Len(events[d]) \in Nat
      BY <1>2, <3>2, AppendProperties, LenProperties
    <3> HIDE DEF row
    <3>5. MaxEvents \in Nat
      BY AdmissionAssumption
    <3> QED
      BY <1>2, <3>3, <3>4, <3>5
  <2>2. CASE CheckPermission(d) \/ ApplyTerminalGap(d)
    <3>1. events' = events
      BY <2>2 DEF CheckPermission, ApplyTerminalGap, evidence
    <3> QED
      BY <1>1, <1>2, <3>1 DEF TypeInv
  <2> QED
    BY <2>1, <2>2
<1>5. /\ permit' \in [Deliveries -> 0 .. MaxFence] /\ \A e \in Deliveries \ {d} : permit'[e] = permit[e]
      /\ \/ permit'[d] = 0
         \/ CheckPermission(d) /\ permit'[d] = lease[Version[d]].fence /\ events'[d] = events[d]
  <2>1. lease[Version[d]].fence \in 0 .. MaxFence /\ 0 \in 0 .. MaxFence
    BY <1>2, AdmissionAssumption DEF Leases
  <2>2. \/ permit' = [permit EXCEPT ![d] = 0]
        \/ CheckPermission(d) /\ permit' = [permit EXCEPT ![d] = lease[Version[d]].fence] /\ events' = events
    BY DEF CheckPermission, ApplyTerminalGap, ApplyAcceptance, evidence
  <2>3. CASE permit' = [permit EXCEPT ![d] = 0]
    BY <1>2, <2>1, <2>3
  <2>4. CASE CheckPermission(d) /\ permit' = [permit EXCEPT ![d] = lease[Version[d]].fence] /\ events' = events
    BY <1>2, <2>1, <2>4
  <2> QED
    BY <2>2, <2>3, <2>4
<1>6. TypeInv' /\ TurnInv' /\ OneLiveSlot'
  <2>1. Typed
    BY <1>1, <1>3 DEF Typed, TypeInv, TypeOK
  <2>2. \A e \in Deliveries : Len(events'[e]) <= MaxEvents
    BY <1>1, <1>4 DEF TypeInv
  <2> QED
    BY <1>1, <1>2, <1>3, <1>4, <1>5, <2>1, <2>2, IdleParts
<1>7. FenceInv'
  <2>1. \A e \in Deliveries : lease[Version[e]].fence \in Nat
    BY <1>2, AdmissionAssumption DEF Leases
  <2> QED
    BY <1>1, <1>3, <1>5, <2>1 DEF FenceInv, Idles
<1>8. PermitInv'
  <2> SUFFICES ASSUME NEW e \in Deliveries, MayApply(e)'
               PROVE  slot'[e].state = "processing" /\ slot'[e].fence = permit'[e] /\ ~Unsettled(e)'
    BY DEF PermitInv
  <2>1. CASE e # d
    <3>1. MayApply(e)
      BY <1>3, <1>5, <2>1 DEF MayApply, Live, Unexpired
    <3> QED
      BY <1>1, <1>3, <1>4, <1>5, <2>1, <3>1 DEF PermitInv, Idles, Unsettled, Latest, Watermark
  <2>2. CASE e = d
    <3>1. CheckPermission(d) /\ permit'[d] = lease[Version[d]].fence /\ events'[d] = events[d]
      BY <1>5, <2>2 DEF MayApply
    <3> QED
      BY <1>3, <2>2, <3>1 DEF CheckPermission, Idles, LeaseMatches, Unsettled, Latest, Watermark
  <2> QED
    BY <2>1, <2>2
<1>9. EvidenceInv'
  <2>1. \A e \in Deliveries : slot[e].state # "processing" => events'[e] = events[e]
    BY <1>1, <1>4 DEF PermitInv
  <2> QED
    BY <1>1, <1>3, <2>1 DEF EvidenceInv, EvidenceSettled, Idles, Unsettled, Latest, Watermark
<1>10. EffectInv'
  BY <1>1, <1>3 DEF EffectInv, EffectFound, Idles, LeaseMatches, Demanded, Live, Unexpired
<1> QED
  BY <1>6, <1>7, <1>8, <1>9, <1>10 DEF IInv

-----------------------------------------------------------------------------
(***************************************************************************)
(* The invariant.                                                          *)
(***************************************************************************)
LEMMA InitInv == Init => IInv
<1> SUFFICES ASSUME Init PROVE IInv
  OBVIOUS
<1>1. /\ 0 \in 0 .. MaxFence /\ 0 \in 0 .. MaxEpoch /\ 0 \in 0 .. MaxEvents /\ 1 \in 1 .. MaxEpoch /\ 0 <= MaxEvents
  BY AdmissionAssumption
<1>2. NoSlot \in Slots /\ NoSlot.state = "none" /\ NoSlot.wait = "none" /\ NoSlot.reason = "none"
      /\ NoSlot.fence = 0 /\ NoSlot.settled = 0
  BY <1>1 DEF NoSlot, Slots, States, Waits
<1>3. /\ slot \in [Deliveries -> Slots] /\ \A d \in Deliveries : slot[d] = NoSlot /\ events[d] = <<>> /\ ops[d] = {}
      /\ \A d \in Deliveries : permit[d] = 0 /\ Version[d] \in Versions
      /\ \A v \in Versions : lease[v].fence = 0 /\ lease[v].epoch = 0 /\ lease[v].expiry = "past"
  BY <1>2 DEF Init, Versions
<1>4. <<>> \in Seq(Events) /\ Len(<<>>) = 0 /\ demand = <<>> /\ demand \in Seq(Deliveries) /\ DOMAIN demand = {}
  BY EmptySeq DEF Init
<1>5. TypeInv
  <2>1. lease \in [Versions -> Leases]
    BY <1>1 DEF Init, Leases
  <2>2. NoObservation \in [revision : Nat, status : {"none", "open", "terminal"}]
    BY DEF NoObservation
  <2>3. TypeOK
    BY <1>1, <1>2, <1>3, <1>4, <2>1 DEF Init, TypeOK, Slots, Leases, Events
  <2>4. events \in [Deliveries -> Seq(Events)] /\ \A d \in Deliveries : Len(events[d]) <= MaxEvents
    BY <1>1, <1>3, <1>4 DEF Init
  <2> QED
    BY <1>1, <1>4, <2>2, <2>3, <2>4 DEF Init, TypeInv, Ops
<1>6. FenceInv
  BY <1>2, <1>3 DEF Init, FenceInv
<1>7. PermitInv
  BY <1>3 DEF PermitInv, MayApply
<1>8. EvidenceInv
  BY <1>2, <1>3 DEF EvidenceInv, EvidenceSettled
<1>9. EffectInv
  BY <1>2, <1>3, <1>4 DEF EffectInv, EffectFound, Demanded
<1>10. TurnInv /\ OneLiveSlot
  BY <1>2, <1>3 DEF Init, TurnInv, FairTurns, OneLiveSlot, Open, InState
<1> QED
  BY <1>5, <1>6, <1>7, <1>8, <1>9, <1>10 DEF IInv

\* An expiry and a cancellation from outside change one row and no fence.
LEMMA RowFades ==
    ASSUME IInv, NEW v \in Versions, NEW row \in Leases, lease' = [lease EXCEPT ![v] = row], epoch' = epoch,
           row.fence = lease[v].fence, row.epoch = lease[v].epoch,
           row.expiry = lease[v].expiry \/ row.expiry = "past", row.cancelledAt = lease[v].cancelledAt \/ row.cancelledAt = "set"
    PROVE  Fades
<1>1. lease \in [Versions -> Leases] /\ \A w \in Versions : lease[w].epoch <= epoch
  BY Types DEF IInv, FenceInv
<1>2. lease' \in [Versions -> Leases] /\ lease'[v] = row /\ \A w \in Versions \ {v} : lease'[w] = lease[w]
  BY <1>1
<1>3. \A w \in Versions : Live(w)' => Live(w)
  BY <1>2 DEF Live, Unexpired
<1> QED
  BY <1>1, <1>2, <1>3 DEF Fades

LEMMA NextInv == IInv /\ [Next]_vars => IInv'
<1> SUFFICES ASSUME IInv, [Next]_vars PROVE IInv'
  OBVIOUS
<1>1. /\ epoch \in 1 .. MaxEpoch /\ limits \in [revision : Nat, processing : Nat, open : Nat]
      /\ seen \in [Deliveries -> [revision : Nat, status : {"none", "open", "terminal"}]]
      /\ lease \in [Versions -> Leases] /\ slot \in [Deliveries -> Slots]
      /\ \A v \in Versions : lease[v].epoch <= epoch
  BY Types DEF IInv, TypeInv, TypeOK, FenceInv
<1>2. ASSUME UNCHANGED <<lease, epoch>> PROVE Fades
  BY <1>1, <1>2 DEF Fades, Live, Unexpired
<1> USE DEF queues, evidence, config
<1>3. CASE UNCHANGED vars
  <2>1. Idles /\ Typed /\ Fades /\ UNCHANGED <<events, permit>>
    BY <1>1, <1>2, <1>3 DEF vars, Idles, Typed
  <2> QED
    BY <2>1, FadingInv
<1>4. CASE RotateAdmission
  <2>1. Idles /\ Typed /\ UNCHANGED <<events, permit>>
    BY <1>1, <1>4, AdmissionAssumption DEF RotateAdmission, Idles, Typed
  <2>2. Fades
    <3>1. lease' = lease /\ epoch' = epoch + 1
      BY <1>4 DEF RotateAdmission
    <3>2. \A v \in Versions : lease[v].epoch \in Int /\ lease[v].epoch <= epoch
      BY <1>1 DEF Leases
    <3>3. \A v \in Versions : ~Live(v)'
      BY <1>1, <3>1, <3>2 DEF Live, Unexpired
    <3> QED
      BY <1>1, <3>1, <3>2, <3>3 DEF Fades
  <2> QED
    BY <2>1, <2>2, FadingInv
<1>5. CASE FallDue
  <2>1. Idles /\ Typed /\ Fades /\ UNCHANGED <<events, permit>>
    BY <1>1, <1>2, <1>5 DEF FallDue, Idles, Typed
  <2> QED
    BY <2>1, FadingInv
<1>6. ASSUME NEW l \in LimitChoices, Configure(l) PROVE IInv'
  <2>1. limits' \in [revision : Nat, processing : Nat, open : Nat]
    BY <1>1, <1>6, AdmissionAssumption DEF Configure
  <2>2. Idles /\ Typed /\ Fades /\ UNCHANGED <<events, permit>>
    BY <1>1, <1>2, <1>6, <2>1 DEF Configure, Idles, Typed
  <2> QED
    BY <2>2, FadingInv
<1>7. ASSUME NEW v \in Versions, GrantLease(v) PROVE IInv'
  BY <1>7, GrantInv
<1>8. ASSUME NEW v \in Versions, ExpireLease(v) \/ CancelLease(v) PROVE IInv'
  <2>1. Idles /\ Typed /\ UNCHANGED <<events, permit, epoch>>
    BY <1>1, <1>8 DEF ExpireLease, CancelLease, Idles, Typed
  <2>2. Fades
    <3>1. CASE ExpireLease(v)
      <4> DEFINE row == [lease[v] EXCEPT !.expiry = "past"]
      <4>1. row \in Leases /\ row.fence = lease[v].fence /\ row.epoch = lease[v].epoch
            /\ row.expiry = "past" /\ row.cancelledAt = lease[v].cancelledAt
        BY <1>1 DEF Leases
      <4>2. lease' = [lease EXCEPT ![v] = row]
        BY <3>1 DEF ExpireLease
      <4> HIDE DEF row
      <4> QED
        BY <2>1, <4>1, <4>2, RowFades
    <3>2. CASE CancelLease(v)
      <4> DEFINE row == [lease[v] EXCEPT !.cancelledAt = "set"]
      <4>1. row \in Leases /\ row.fence = lease[v].fence /\ row.epoch = lease[v].epoch
            /\ row.expiry = lease[v].expiry /\ row.cancelledAt = "set"
        BY <1>1 DEF Leases
      <4>2. lease' = [lease EXCEPT ![v] = row]
        BY <3>2 DEF CancelLease
      <4> HIDE DEF row
      <4> QED
        BY <2>1, <4>1, <4>2, RowFades
    <3> QED
      BY <1>8, <3>1, <3>2
  <2> QED
    BY <2>1, <2>2, FadingInv
<1>9. ASSUME NEW d \in Deliveries, Ledger(d) PROVE IInv'
  <2>1. CASE Terminate(d) \/ Withdraw(d) \/ AcknowledgeLaunch(d)
    <3>1. Idles /\ Typed /\ Fades /\ UNCHANGED <<events, permit>>
      BY <1>1, <1>2, <2>1 DEF Terminate, Withdraw, AcknowledgeLaunch, Idles, Typed
    <3> QED
      BY <3>1, FadingInv
  <2>2. CASE AgeQuarantine(d)
    BY <2>2, AgeInv
  <2>3. CASE CheckPermission(d) \/ ApplyTerminalGap(d) \/ \E state \in Acceptances : ApplyAcceptance(d, state)
    BY <2>3, PermissionInv
  <2> QED
    BY <1>9, <2>1, <2>2, <2>3 DEF Ledger
<1>10. ASSUME NEW d \in Deliveries, NEW status \in {"open", "terminal"}, Observe(d, status) PROVE IInv'
  <2>1. [revision |-> slot[d].revision, status |-> status] \in [revision : Nat, status : {"none", "open", "terminal"}]
    BY <1>1 DEF Slots
  <2>2. seen' \in [Deliveries -> [revision : Nat, status : {"none", "open", "terminal"}]]
    BY <1>1, <1>10, <2>1 DEF Observe
  <2>3. Idles /\ Typed /\ Fades /\ UNCHANGED <<events, permit>>
    BY <1>1, <1>2, <1>10, <2>2 DEF Observe, Idles, Typed
  <2> QED
    BY <2>3, FadingInv
<1>11. ASSUME NEW d \in Deliveries, Operation(d) PROVE IInv'
  <2>1. TypeInv
    BY DEF IInv
  <2> QED
    BY <1>10, <1>11, <2>1, Transitions, StepInv
<1> QED
  BY <1>3, <1>4, <1>5, <1>6, <1>7, <1>8, <1>9, <1>11 DEF Next

\* The inductive invariant holds in every reachable state.
THEOREM Invariance == Spec => []IInv
<1>1. Init => IInv
  BY InitInv
<1>2. IInv /\ [Next]_vars => IInv'
  BY NextInv
<1> QED
  BY <1>1, <1>2, PTL DEF Spec

\* Evidence is settled before a slot closes, every answered replay has its
\* receipt, the row is one the database accepts, and the queues take turns.
THEOREM AdmissionSoundHolds == Spec => []AdmissionSound
<1>1. IInv => AdmissionSound
  BY DEF IInv, TypeInv, EvidenceInv, EffectInv, TurnInv, AdmissionSound
<1> QED
  BY <1>1, Invariance, PTL

\* Two attempts never occupy one document version.
THEOREM OneLiveSlotHolds == Spec => []OneLiveSlot
<1>1. IInv => OneLiveSlot
  BY DEF IInv
<1> QED
  BY <1>1, Invariance, PTL

\* Whoever may still apply a result holds the processing slot bound to its grant.
THEOREM WorkersHoldCapacityHolds == Spec => []WorkersHoldCapacity
<1>1. IInv => WorkersHoldCapacity
  BY DEF IInv, PermitInv, WorkersHoldCapacity
<1> QED
  BY <1>1, Invariance, PTL

-----------------------------------------------------------------------------
(***************************************************************************)
(* Action properties.                                                      *)
(***************************************************************************)

\* A slot changes only in one of its transitions, the limits only when configured.
LEMMA SlotSteps ==
    ASSUME IInv, [Next]_vars, slot' # slot
    PROVE  \E d \in Deliveries : SlotStep(d)
<1>1. TypeInv
  BY DEF IInv
<1>2. PICK d \in Deliveries : Operation(d)
  BY DEF Next, vars, queues, config, evidence, RotateAdmission, FallDue, Configure, GrantLease, ExpireLease,
         CancelLease, Ledger, Terminate, AgeQuarantine, ApplyTerminalGap, Withdraw, AcknowledgeLaunch,
         CheckPermission, ApplyAcceptance
<1>3. \A status \in {"open", "terminal"} : ~Observe(d, status)
  BY DEF Observe
<1> QED
  BY <1>1, <1>2, <1>3, Transitions

\* One more slot in a state is one more member of its set.
LEMMA OneMore ==
    ASSUME NEW S, IsFiniteSet(S), NEW x, NEW T, T \subseteq S \cup {x}, NEW limit \in Nat, Cardinality(S) < limit
    PROVE  Cardinality(T) <= limit
<1>1. IsFiniteSet(S \cup {x}) /\ Cardinality(S \cup {x}) <= Cardinality(S) + 1
  <2>1. IsFiniteSet(S \cup {x})
        /\ Cardinality(S \cup {x}) = IF x \in S THEN Cardinality(S) ELSE Cardinality(S) + 1
    BY FS_AddElement
  <2>2. Cardinality(S) \in Nat
    BY FS_CardinalityType
  <2> QED
    BY <2>1, <2>2
<1>2. IsFiniteSet(T) /\ Cardinality(T) <= Cardinality(S \cup {x})
  BY <1>1, FS_Subset
<1> QED
  BY <1>1, <1>2, FS_CardinalityType

\* Reserving and resuming never push a count past the limits in force; nothing else adds occupancy.
THEOREM WithinLimitsHolds == Spec => WithinLimits
<1> DEFINE Within == /\ Cardinality(Processing') > Cardinality(Processing) => Cardinality(Processing') <= limits.processing
                     /\ Cardinality(Open') > Cardinality(Open) => Cardinality(Open') <= limits.open
<1>1. ASSUME IInv, [Next]_vars PROVE Within
  <2>1. /\ IsFiniteSet(Processing) /\ IsFiniteSet(Open) /\ limits.processing \in Nat /\ limits.open \in Nat
        /\ Cardinality(Processing) \in Nat /\ Cardinality(Open) \in Nat
    <3>1. Processing \subseteq Deliveries /\ Open \subseteq Deliveries /\ IsFiniteSet(Deliveries)
      BY AdmissionAssumption DEF Processing, Open, InState
    <3>2. limits.processing \in Nat /\ limits.open \in Nat
      BY <1>1 DEF IInv, TypeInv
    <3>3. IsFiniteSet(Processing) /\ IsFiniteSet(Open)
      BY <3>1, FS_Subset
    <3> QED
      BY <3>2, <3>3, FS_CardinalityType
  <2>2. ASSUME NEW S, NEW T, IsFiniteSet(S), T \subseteq S PROVE ~(Cardinality(T) > Cardinality(S))
    <3>1. IsFiniteSet(T) /\ Cardinality(T) <= Cardinality(S)
      BY <2>2, FS_Subset
    <3> QED
      BY <2>2, <3>1, FS_CardinalityType
  <2>3. CASE slot' = slot
    <3>1. Processing' = Processing /\ Open' = Open
      BY <2>3 DEF Processing, Open, InState
    <3> QED
      BY <2>1, <3>1
  <2>4. CASE slot' # slot
    <3>1. PICK d \in Deliveries : SlotStep(d)
      BY <1>1, <2>4, SlotSteps
    <3>2. \A e \in Deliveries \ {d} : slot'[e] = slot[e]
      BY <3>1 DEF SlotStep, Reserves, Binds, Settles, RequestsResume, Resumes, Closes, Releases, LosesWorker, Moves
    <3>3. Processing' \subseteq Processing \cup {d} /\ Open' \subseteq Open \cup {d}
      BY <3>2 DEF Processing, Open, InState
    <3>4. CASE Reserves(d)
      <4>1. Cardinality(Processing) < limits.processing /\ Cardinality(Open) < limits.open
        BY <3>4 DEF Reserves
      <4> QED
        BY <2>1, <3>3, <4>1, OneMore
    <3>5. CASE Resumes(d)
      <4>1. Cardinality(Processing) < limits.processing /\ slot[d].state = "open_only"
        BY <3>5 DEF Resumes
      <4>2. Open' \subseteq Open
        BY <3>3, <4>1 DEF Open, InState
      <4>3. Cardinality(Processing') <= limits.processing
        BY <2>1, <3>3, <4>1, OneMore
      <4> QED
        BY <2>1, <2>2, <4>2, <4>3
    <3>6. CASE ~Reserves(d) /\ ~Resumes(d)
      <4>1. Processing' \subseteq Processing /\ Open' \subseteq Open
        <5>1. d \in Processing' => d \in Processing
          BY <3>1, <3>6
          DEF SlotStep, Binds, Settles, RequestsResume, Closes, Releases, LosesWorker, Processing, InState
        <5>2. d \in Open
          BY <3>1, <3>6
          DEF SlotStep, Binds, Settles, RequestsResume, Closes, Releases, LosesWorker, Open, InState
        <5> QED
          BY <3>3, <5>1, <5>2
      <4> QED
        BY <2>1, <2>2, <4>1
    <3> QED
      BY <3>4, <3>5, <3>6
  <2> QED
    BY <2>3, <2>4
<1> QED
  BY <1>1, Invariance, PTL DEF Spec, WithinLimits

\* A closure cancels the lease the slot is bound to, and no operation on a slot touches another lease.
THEOREM ReplacementSparedHolds == Spec => ReplacementSpared
<1> DEFINE Spared == slot' # slot =>
              \A v \in Versions : lease'[v] # lease[v] =>
                  \E d \in Deliveries : Version[d] = v /\ slot[d].fence = lease[v].fence
                                        /\ slot[d].state # "closing" /\ slot'[d].state = "closing"
<1>1. ASSUME IInv, [Next]_vars PROVE Spared
  <2> SUFFICES ASSUME slot' # slot, NEW v \in Versions, lease'[v] # lease[v]
               PROVE  \E d \in Deliveries : Version[d] = v /\ slot[d].fence = lease[v].fence
                                            /\ slot[d].state # "closing" /\ slot'[d].state = "closing"
    OBVIOUS
  <2>1. PICK d \in Deliveries : SlotStep(d)
    BY <1>1, SlotSteps
  <2>2. Closes(d)
    BY <2>1 DEF SlotStep, Reserves, Binds, Settles, RequestsResume, Resumes, Releases, LosesWorker
  <2>3. lease \in [Versions -> Leases] /\ Version[d] \in Versions
    BY <1>1, Types DEF IInv
  <2>4. LeaseMatches(d) /\ Version[d] = v
    BY <2>2, <2>3 DEF Closes, LeaseDisposition
  <2> QED
    BY <2>2, <2>4 DEF Closes, LeaseMatches
<1> QED
  BY <1>1, Invariance, PTL DEF Spec, ReplacementSpared
=============================================================================
