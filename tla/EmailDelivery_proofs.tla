------------------------ MODULE EmailDelivery_proofs ------------------------
(***************************************************************************)
(* What holds of EmailDelivery for every number of deliveries, slots and   *)
(* reconcile() calls, every limit of attempts and any number of faults.    *)
(***************************************************************************)
EXTENDS EmailDelivery, TLAPS

-----------------------------------------------------------------------------
(* Type correctness.                                                       *)

LEMMA IdleTyped == Idle \in SlotRecords
BY DEF Idle, SlotRecords

LEMMA InitTyped == Init => TypeOK
<1> SUFFICES ASSUME Init PROVE TypeOK
  OBVIOUS
<1>1. slot \in [Slots -> SlotRecords] /\ \A s \in Slots : slot[s].pc = "idle"
  BY IdleTyped DEF Init, Idle
<1>2. delivery \in [Deliveries -> RowRecords]
  BY DEF Init, RowRecords, Statuses
<1>3. reconciler \in [Reconcilers -> ReconcilerRecords]
  BY DEF Init, ReconcilerRecords
<1> QED
  BY <1>1, <1>2, <1>3 DEF Init, TypeOK

LEMMA JobTyped ==
    ASSUME TypeOK, NEW s \in Slots, slot[s].pc # "idle"
    PROVE  slot[s].job \in Jobs /\ slot[s].job[1] \in Deliveries
BY DEF TypeOK, Jobs

LEMMA GotoTyped ==
    ASSUME TypeOK, NEW s \in Slots, slot[s].pc # "idle",
           NEW pc \in Claimed \cup {"claim", "end"}, Goto(s, pc)
    PROVE  /\ slot' \in [Slots -> SlotRecords]
           /\ \A t \in Slots : slot'[t].pc # "idle" => slot'[t].job \in Jobs
BY DEF TypeOK, SlotRecords, Claimed, Goto

LEMMA SettleTyped ==
    ASSUME TypeOK, NEW s \in Slots, slot[s].pc # "idle", NEW status \in Statuses \ {"PROCESSING"},
           Settle(s, status)
    PROVE  /\ delivery' \in [Deliveries -> RowRecords]
           /\ stale' \subseteq {d \in Deliveries : delivery'[d].status = "PROCESSING"}
           /\ slot' \in [Slots -> SlotRecords]
           /\ \A t \in Slots : slot'[t].pc # "idle" => slot'[t].job \in Jobs
<1>1. slot[s].job[1] \in Deliveries
  BY JobTyped
<1> QED
  BY <1>1, GotoTyped DEF TypeOK, RowRecords, Statuses, Settle

LEMMA RetryDecisionTyped ==
    ASSUME NEW attempts, NEW retryable
    PROVE  RetryDecision(attempts, retryable) \in {"PENDING", "FAILED"}
BY DEF RetryDecision

LEMMA TypeStep == TypeOK /\ [Next]_vars => TypeOK'
<1> SUFFICES ASSUME TypeOK, [Next]_vars PROVE TypeOK'
  OBVIOUS
<1>a. slot \in [Slots -> SlotRecords] /\ reconciler \in [Reconcilers -> ReconcilerRecords]
      /\ delivery \in [Deliveries -> RowRecords]
  BY DEF TypeOK
<1>1. ASSUME NEW s \in Slots, NEW j \in waiting, TakeJob(s, j) PROVE TypeOK'
  <2>1. [pc |-> "claim", job |-> j, attempts |-> 0] \in SlotRecords /\ j \in Jobs
    BY DEF TypeOK, SlotRecords
  <2>2. slot' \in [Slots -> SlotRecords] /\ \A t \in Slots : slot'[t].pc # "idle" => slot'[t].job \in Jobs
    BY <1>1, <2>1 DEF TypeOK, TakeJob
  <2> QED
    BY <1>1, <2>1, <2>2 DEF TypeOK, TakeJob
<1>2. ASSUME NEW s \in Slots, Claim(s) PROVE TypeOK'
  <2> DEFINE d == slot[s].job[1]
  <2>1. d \in Deliveries /\ delivery[d].attempts + 1 \in Nat
    BY <1>2, JobTyped DEF TypeOK, RowRecords, Claim
  <2>2. slot[s].pc # "idle"
    BY <1>2 DEF Claim
  <2>3. CASE delivery[d].status = "PENDING" /\ d \in due
    <3>1. delivery' = [delivery EXCEPT ![d] =
                         [status |-> "PROCESSING", attempts |-> delivery[d].attempts + 1]]
      BY <1>2, <2>3 DEF Claim
    <3>2. [status |-> "PROCESSING", attempts |-> delivery[d].attempts + 1] \in RowRecords
      BY <2>1 DEF RowRecords, Statuses
    <3>3. stale' = stale \ {d} /\ Goto(s, "load")
      BY <1>2, <2>3 DEF Claim
    <3> HIDE DEF d
    <3> QED
      BY <1>2, <2>1, <2>2, <3>1, <3>2, <3>3, GotoTyped DEF TypeOK, Claim, queue, Claimed
  <2>4. CASE ~ (delivery[d].status = "PENDING" /\ d \in due)
    BY <1>2, <2>2, <2>4, GotoTyped DEF TypeOK, Claim, queue
  <2> QED
    BY <2>3, <2>4
<1>3. ASSUME NEW s \in Slots, Load(s) PROVE TypeOK'
  <2> DEFINE d == slot[s].job[1]
  <2>1. slot[s].job \in Jobs /\ d \in Deliveries /\ delivery[d].attempts \in Nat
    BY <1>3, JobTyped DEF TypeOK, RowRecords, Load
  <2> PICK pc \in {"cancel", "send", "fail"} :
         slot' = [slot EXCEPT ![s] = [pc |-> pc, job |-> slot[s].job,
                                      attempts |-> delivery[d].attempts]]
    BY <1>3 DEF Load
  <2>2. [pc |-> pc, job |-> slot[s].job, attempts |-> delivery[d].attempts] \in SlotRecords
    BY <2>1 DEF SlotRecords, Claimed
  <2> HIDE DEF d
  <2> QED
    BY <1>3, <2>1, <2>2 DEF TypeOK, Load, queue
<1>4. ASSUME NEW s \in Slots, Cancel(s) \/ MarkSent(s) PROVE TypeOK'
  BY <1>4, SettleTyped DEF TypeOK, Cancel, MarkSent, queue, Statuses, Final
<1>5. ASSUME NEW s \in Slots, SendAccepted(s) \/ SendFails(s) \/ MarkSentFails(s) PROVE TypeOK'
  BY <1>5, GotoTyped DEF TypeOK, SendAccepted, SendFails, MarkSentFails, queue, Claimed
<1>6. ASSUME NEW s \in Slots, Fail(s) PROVE TypeOK'
  <2> DEFINE status == RetryDecision(slot[s].attempts, slot[s].pc = "retry")
  <2>1. status \in Statuses \ {"PROCESSING"}
    BY RetryDecisionTyped DEF Statuses, Final
  <2>2. slot[s].pc # "idle" /\ Settle(s, status) /\ due' \subseteq due
    BY <1>6 DEF Fail
  <2> HIDE DEF status
  <2> QED
    BY <1>6, <2>1, <2>2, SettleTyped DEF TypeOK, Fail, queue
<1>7. ASSUME NEW s \in Slots, EndJob(s) \/ Throws(s) \/ Crash(s) PROVE TypeOK'
  <2>1. slot' \in [Slots -> SlotRecords] /\ \A t \in Slots : slot'[t].pc # "idle" => slot'[t].job \in Jobs
    BY <1>7, IdleTyped DEF TypeOK, EndJob, Throws, Crash, Idle
  <2>2. slot[s].job \in Jobs
    BY <1>7, JobTyped DEF EndJob, Throws, Crash
  <2> QED
    BY <1>7, <2>1, <2>2 DEF TypeOK, EndJob, Throws, Crash, queue
<1>8. ASSUME NEW j, (j \in active /\ StallJob(j)) \/ (j \in failed /\ ExpireJob(j)) PROVE TypeOK'
  BY <1>8 DEF TypeOK, StallJob, ExpireJob
<1>9. ASSUME NEW d \in Deliveries, BecomeDue(d) \/ AgeClaim(d) PROVE TypeOK'
  BY <1>9 DEF TypeOK, BecomeDue, AgeClaim, queue
<1>10. ASSUME NEW p \in Reconcilers, Recover(p) PROVE TypeOK'
  <2>1. \A d \in Deliveries : recovered[d] + 1 \in Nat
    BY DEF TypeOK
  <2>2. \A d \in Deliveries : [delivery[d] EXCEPT !.status = "PENDING"] \in RowRecords
    BY <1>a DEF RowRecords, Statuses
  <2>3. [pc |-> "list", listed |-> {}] \in ReconcilerRecords
    BY DEF ReconcilerRecords
  <2>4. recovered' \in [Deliveries -> Nat] /\ delivery' \in [Deliveries -> RowRecords]
        /\ reconciler' \in [Reconcilers -> ReconcilerRecords]
    BY <1>10, <1>a, <2>1, <2>2, <2>3 DEF TypeOK, Recover, GiveBack
  <2> QED
    BY <1>10, <2>4 DEF TypeOK, Recover, GiveBack, queue
<1>11. ASSUME NEW p \in Reconcilers, List(p) PROVE TypeOK'
  <2> DEFINE listed == {<<d, delivery[d].attempts>> : d \in {e \in due : delivery[e].status = "PENDING"}}
  <2>1. listed \subseteq Jobs
    BY DEF TypeOK, RowRecords, Jobs
  <2>2. [pc |-> "add", listed |-> listed] \in ReconcilerRecords
    BY <2>1 DEF ReconcilerRecords
  <2>3. reconciler' = [reconciler EXCEPT ![p] = [pc |-> "add", listed |-> listed]]
    BY <1>11 DEF List
  <2> HIDE DEF listed
  <2> QED
    BY <1>11, <2>2, <2>3 DEF TypeOK, List, queue
<1>12. ASSUME NEW p \in Reconcilers, NEW j \in reconciler[p].listed, Add(p, j) PROVE TypeOK'
  BY <1>12 DEF TypeOK, ReconcilerRecords, Add
<1>13. ASSUME NEW p \in Reconcilers, EndReconcile(p) \/ ReconcileFails(p) PROVE TypeOK'
  BY <1>13 DEF TypeOK, ReconcilerRecords, EndReconcile, ReconcileFails, queue
<1>14. ASSUME NEW d \in Deliveries, CloseInvitation(d) \/ LapseInvitation(d) \/ HookLost(d)
       PROVE  TypeOK'
  BY <1>14 DEF TypeOK, CloseInvitation, LapseInvitation, HookLost, queue
<1>15. ASSUME NEW d \in Deliveries, CancelPending(d) PROVE TypeOK'
  BY <1>15 DEF TypeOK, RowRecords, Statuses, Final, CancelPending, queue
<1>16. CASE UNCHANGED vars
  BY <1>16 DEF TypeOK, vars, queue
<1> QED
  BY <1>1, <1>2, <1>3, <1>4, <1>5, <1>6, <1>7, <1>8, <1>9, <1>10, <1>11, <1>12, <1>13,
     <1>14, <1>15, <1>16
     DEF Next, SlotStep, QueueStep, ReconcilerStep, InvitationStep

\* The state of the outbox stays well typed, whatever the interleaving
\* (email-delivery.processor.ts, the whole file).
THEOREM TypeCorrect == Spec => []TypeOK
BY InitTyped, TypeStep, PTL DEF Spec

-----------------------------------------------------------------------------
(* The inductive invariant.                                                *)

\* A pending row may still be claimed once more without exceeding the cap.
PendingCapped ==
    \A d \in Deliveries :
        delivery[d].status = "PENDING" => delivery[d].attempts < MaxAttempts + recovered[d]

IInv == TypeOK /\ ClaimExclusive /\ RetriesCapped /\ PendingCapped

\* ClaimExclusive, slot by slot.
Owns(s) ==
    LET d == slot[s].job[1] IN
    /\ delivery[d].status = "PROCESSING"
    /\ d \notin stale
    /\ slot[s].pc # "load" => slot[s].attempts = delivery[d].attempts
    /\ \A t \in Slots \ {s} : ~Works(t, d)

LEMMA ClaimsOwned ==
    /\ ClaimExclusive <=> \A s \in Slots : slot[s].pc \in Claimed => Owns(s)
    /\ ClaimExclusive' <=> \A s \in Slots : slot'[s].pc \in Claimed => Owns(s)'
BY DEF ClaimExclusive, Owns

LEMMA InitInv == Init => IInv
<1> SUFFICES ASSUME Init PROVE IInv
  OBVIOUS
<1>1. ClaimExclusive
  BY DEF Init, ClaimExclusive, Claimed, Idle
<1>2. RetriesCapped /\ PendingCapped
  BY AttemptsAssumption DEF Init, RetriesCapped, PendingCapped
<1> QED
  BY <1>1, <1>2, InitTyped DEF IInv

\* The attempt of slot s goes on, or ends, without a write to a row.
LEMMA SlotMoves ==
    ASSUME IInv, NEW s \in Slots, NEW x,
           slot' = [slot EXCEPT ![s] = x], delivery' = delivery, stale' = stale,
           \/ x.pc \notin Claimed
           \/ /\ slot[s].pc \in Claimed /\ x.pc # "load" /\ x.job = slot[s].job
              /\ x.attempts = delivery[x.job[1]].attempts
    PROVE  ClaimExclusive'
<1>1. slot'[s] = x /\ \A t \in Slots \ {s} : slot'[t] = slot[t]
  BY DEF IInv, TypeOK
<1>2. \A t \in Slots : \A d : Works(t, d)' => Works(t, d)
  BY <1>1 DEF Works
<1>3. ASSUME NEW t \in Slots, slot'[t].pc \in Claimed
      PROVE  Owns(t)'
  BY <1>1, <1>2, <1>3, ClaimsOwned DEF IInv, Owns
<1> QED
  BY <1>3, ClaimsOwned

\* Slot s writes the last status of its claim.
LEMMA SettleExclusive ==
    ASSUME IInv, NEW s \in Slots, slot[s].pc \in Claimed,
           NEW status \in Statuses, Settle(s, status)
    PROVE  /\ ClaimExclusive'
           /\ delivery[slot[s].job[1]].status = "PROCESSING"
           /\ delivery'[slot[s].job[1]] = [delivery[slot[s].job[1]] EXCEPT !.status = status]
           /\ \A d \in Deliveries \ {slot[s].job[1]} : delivery'[d] = delivery[d]
<1> DEFINE d == slot[s].job[1]
<1>1. d \in Deliveries /\ Owns(s)
  BY JobTyped, ClaimsOwned DEF IInv, Claimed
<1>2. delivery'[d] = [delivery[d] EXCEPT !.status = status]
      /\ \A e \in Deliveries \ {d} : delivery'[e] = delivery[e]
  BY <1>1 DEF IInv, TypeOK, RowRecords, Settle
<1>3. slot'[s].pc = "end" /\ \A t \in Slots \ {s} : slot'[t] = slot[t]
  BY DEF IInv, TypeOK, SlotRecords, Settle, Goto
<1>4. "end" \notin Claimed
  BY DEF Claimed
<1>5. \A t \in Slots : \A e : Works(t, e)' => Works(t, e)
  BY <1>3, <1>4 DEF Works
<1>6. ASSUME NEW t \in Slots, slot'[t].pc \in Claimed PROVE Owns(t)'
  <2>1. t # s /\ slot'[t] = slot[t]
    BY <1>3, <1>4, <1>6
  <2>2. slot[t].job[1] \in Deliveries /\ Owns(t)
    BY <1>6, <2>1, JobTyped, ClaimsOwned DEF IInv, Claimed
  <2>3. slot[t].job[1] # d
    BY <1>1, <1>6, <2>1 DEF Owns, Works
  <2>4. stale' = stale \ {d}
    BY DEF Settle
  <2> QED
    BY <1>2, <1>5, <2>1, <2>2, <2>3, <2>4 DEF Owns
<1> QED
  BY <1>1, <1>2, <1>6, ClaimsOwned DEF Owns

\* Rows change, but not the ones that a slot works on.
LEMMA OthersMove ==
    ASSUME IInv, slot' = slot,
           \A d \in Deliveries : delivery[d].status = "PROCESSING" /\ d \notin stale
              /\ (\E s \in Slots : Works(s, d)) => delivery'[d] = delivery[d] /\ d \notin stale'
    PROVE  ClaimExclusive'
<1>1. \A t \in Slots : \A d : Works(t, d)' <=> Works(t, d)
  BY DEF Works
<1>2. ASSUME NEW t \in Slots, slot'[t].pc \in Claimed PROVE Owns(t)'
  <2>1. slot[t].job[1] \in Deliveries /\ Owns(t) /\ Works(t, slot[t].job[1])
    BY <1>2, JobTyped, ClaimsOwned DEF IInv, Claimed, Works
  <2> QED
    BY <1>1, <2>1 DEF Owns
<1> QED
  BY <1>2, ClaimsOwned

LEMMA ExclusiveStep == IInv /\ [Next]_vars => ClaimExclusive'
<1> SUFFICES ASSUME IInv, [Next]_vars PROVE ClaimExclusive'
  OBVIOUS
<1>a. slot \in [Slots -> SlotRecords] /\ delivery \in [Deliveries -> RowRecords]
  BY DEF IInv, TypeOK
<1>1. ASSUME NEW s \in Slots, NEW j \in waiting, TakeJob(s, j) PROVE ClaimExclusive'
  <2> DEFINE x == [pc |-> "claim", job |-> j, attempts |-> 0]
  <2>1. x.pc \notin Claimed
    BY DEF Claimed
  <2>2. slot' = [slot EXCEPT ![s] = x] /\ delivery' = delivery /\ stale' = stale
    BY <1>1 DEF TakeJob
  <2> HIDE DEF x
  <2> QED
    BY <2>1, <2>2, SlotMoves
<1>2. ASSUME NEW s \in Slots, Claim(s) PROVE ClaimExclusive'
  <2> DEFINE d == slot[s].job[1]
             x == [slot[s] EXCEPT !.pc = "load"]
             y == [slot[s] EXCEPT !.pc = "end"]
  <2>1. d \in Deliveries
    BY <1>2, JobTyped DEF IInv, Claim
  <2>2. CASE delivery[d].status = "PENDING" /\ d \in due
    <3>1. /\ delivery'[d].status = "PROCESSING"
          /\ \A e \in Deliveries \ {d} : delivery'[e] = delivery[e]
          /\ stale' = stale \ {d}
      BY <1>2, <1>a, <2>1, <2>2 DEF Claim
    <3>2. slot' = [slot EXCEPT ![s] = x]
      BY <1>2, <2>2 DEF Claim, Goto
    <3>3. slot'[s].pc = "load" /\ slot'[s].job = slot[s].job
          /\ \A t \in Slots \ {s} : slot'[t] = slot[t]
      BY <3>2, <1>a DEF SlotRecords
    <3>4. \A t \in Slots : ~ Works(t, d)
      BY <2>2, ClaimsOwned DEF IInv, Works, Owns
    <3>5. \A t \in Slots \ {s} : \A e : Works(t, e)' <=> Works(t, e)
      BY <3>3 DEF Works
    <3>6. ASSUME NEW t \in Slots, slot'[t].pc \in Claimed PROVE Owns(t)'
      <4>1. CASE t = s
        BY <3>1, <3>3, <3>4, <3>5, <4>1 DEF Owns
      <4>2. CASE t # s
        <5>1. slot'[t] = slot[t] /\ slot[t].job[1] \in Deliveries /\ Owns(t)
              /\ Works(t, slot[t].job[1])
          BY <3>3, <3>6, <4>2, JobTyped, ClaimsOwned DEF IInv, Claimed, Works
        <5>2. slot[t].job[1] # d
          BY <3>4, <5>1
        <5>3. ~ Works(s, slot[t].job[1])'
          BY <3>3, <5>2 DEF Works
        <5> QED
          BY <3>1, <3>5, <5>1, <5>2, <5>3 DEF Owns
      <4> QED
        BY <4>1, <4>2
    <3> QED
      BY <3>6, ClaimsOwned
  <2>3. CASE ~ (delivery[d].status = "PENDING" /\ d \in due)
    <3>1. slot' = [slot EXCEPT ![s] = y] /\ delivery' = delivery /\ stale' = stale
      BY <1>2, <2>3 DEF Claim, Goto
    <3>2. y.pc \notin Claimed
      BY <1>a DEF SlotRecords, Claimed
    <3> HIDE DEF y
    <3> QED
      BY <3>1, <3>2, SlotMoves
  <2> QED
    BY <2>2, <2>3
<1>3. ASSUME NEW s \in Slots, Load(s) PROVE ClaimExclusive'
  <2> PICK pc \in {"cancel", "send", "fail"} :
         slot' = [slot EXCEPT ![s] = [pc |-> pc, job |-> slot[s].job,
                                      attempts |-> delivery[slot[s].job[1]].attempts]]
    BY <1>3 DEF Load
  <2> QED
    BY <1>3, SlotMoves DEF Load, Claimed
<1>4. ASSUME NEW s \in Slots, NEW pc \in {"mark", "retry", "fail"}, Goto(s, pc),
             slot[s].pc \in Claimed \ {"load"}, delivery' = delivery, stale' = stale
      PROVE  ClaimExclusive'
  <2> DEFINE x == [slot[s] EXCEPT !.pc = pc]
  <2>1. x.pc = pc /\ x.job = slot[s].job /\ x.attempts = slot[s].attempts
    BY <1>a DEF SlotRecords
  <2>2. slot[s].attempts = delivery[slot[s].job[1]].attempts
    BY <1>4, ClaimsOwned DEF IInv, Owns
  <2>3. slot' = [slot EXCEPT ![s] = x]
    BY <1>4 DEF Goto
  <2> HIDE DEF x
  <2> QED
    BY <1>4, <2>1, <2>2, <2>3, SlotMoves
<1>5. ASSUME NEW s \in Slots, SendAccepted(s) \/ SendFails(s) \/ MarkSentFails(s)
      PROVE  ClaimExclusive'
  BY <1>4, <1>5 DEF SendAccepted, SendFails, MarkSentFails, Claimed
<1>6. ASSUME NEW s \in Slots, Cancel(s) \/ MarkSent(s) PROVE ClaimExclusive'
  BY <1>6, SettleExclusive DEF Cancel, MarkSent, Claimed, Statuses, Final
<1>7. ASSUME NEW s \in Slots, Fail(s) PROVE ClaimExclusive'
  <2> DEFINE status == RetryDecision(slot[s].attempts, slot[s].pc = "retry")
  <2>1. status \in Statuses
    BY RetryDecisionTyped DEF Statuses, Final
  <2>2. Settle(s, status) /\ slot[s].pc \in Claimed
    BY <1>7 DEF Fail, Claimed
  <2> HIDE DEF status
  <2> QED
    BY <2>1, <2>2, SettleExclusive
<1>8. ASSUME NEW s \in Slots, EndJob(s) \/ Throws(s) \/ Crash(s) PROVE ClaimExclusive'
  <2>1. Idle.pc \notin Claimed
    BY DEF Idle, Claimed
  <2> QED
    BY <1>8, <2>1, SlotMoves DEF EndJob, Throws, Crash
<1>9. ASSUME slot' = slot, delivery' = delivery, stale' = stale PROVE ClaimExclusive'
  BY <1>9, OthersMove
<1>10. ASSUME NEW j, StallJob(j) \/ ExpireJob(j) PROVE ClaimExclusive'
  BY <1>9, <1>10 DEF StallJob, ExpireJob
<1>11. ASSUME NEW d \in Deliveries, BecomeDue(d) PROVE ClaimExclusive'
  BY <1>9, <1>11 DEF BecomeDue
<1>12. ASSUME NEW d \in Deliveries, AgeClaim(d) PROVE ClaimExclusive'
  BY <1>12, OthersMove DEF AgeClaim
<1>13. ASSUME NEW p \in Reconcilers, Recover(p) PROVE ClaimExclusive'
  BY <1>13, OthersMove DEF Recover, GiveBack
<1>14. ASSUME NEW p \in Reconcilers,
              \/ List(p) \/ EndReconcile(p) \/ ReconcileFails(p)
              \/ \E j \in reconciler[p].listed : Add(p, j)
       PROVE  ClaimExclusive'
  BY <1>9, <1>14 DEF List, EndReconcile, ReconcileFails, Add
<1>15. ASSUME NEW d \in Deliveries, CloseInvitation(d) \/ LapseInvitation(d) \/ HookLost(d)
       PROVE  ClaimExclusive'
  BY <1>9, <1>15 DEF CloseInvitation, LapseInvitation, HookLost
<1>16. ASSUME NEW d \in Deliveries, CancelPending(d) PROVE ClaimExclusive'
  <2>1. \A e \in Deliveries : delivery[e].status = "PROCESSING" => delivery'[e] = delivery[e]
    BY <1>16, <1>a DEF CancelPending, RowRecords
  <2> QED
    BY <1>16, <2>1, OthersMove DEF CancelPending
<1>17. CASE UNCHANGED vars
  BY <1>9, <1>17 DEF vars
<1> QED
  BY <1>1, <1>2, <1>3, <1>5, <1>6, <1>7, <1>8, <1>10, <1>11, <1>12, <1>13, <1>14, <1>15,
     <1>16, <1>17
     DEF Next, SlotStep, QueueStep, ReconcilerStep, InvitationStep

-----------------------------------------------------------------------------
(* Outcomes and attempts.                                                  *)

\* How one row moves in a step: it stays; it is claimed; its claim is settled by
\* the slot that read its attempts; its claim is taken back; or it is cancelled
\* before any claim.
RowMoves(d) ==
    \/ delivery'[d] = delivery[d] /\ recovered'[d] = recovered[d]
    \/ /\ delivery[d].status = "PENDING"
       /\ delivery'[d].status = "PROCESSING"
       /\ delivery'[d].attempts = delivery[d].attempts + 1
       /\ recovered'[d] = recovered[d]
    \/ /\ delivery[d].status = "PROCESSING"
       /\ delivery'[d].status \in Final \cup {"PENDING"}
       /\ delivery'[d].status = "PENDING" => delivery[d].attempts < MaxAttempts
       /\ delivery'[d].attempts = delivery[d].attempts
       /\ recovered'[d] = recovered[d]
    \/ /\ delivery[d].status = "PROCESSING"
       /\ delivery'[d].status = "PENDING"
       /\ delivery'[d].attempts = delivery[d].attempts
       /\ recovered'[d] = recovered[d] + 1
    \/ /\ delivery[d].status = "PENDING"
       /\ delivery'[d].status = "CANCELLED"
       /\ delivery'[d].attempts = delivery[d].attempts
       /\ recovered'[d] = recovered[d]

LEMMA SettleMoves ==
    ASSUME IInv, NEW s \in Slots, slot[s].pc \in Claimed,
           NEW status \in Final \cup {"PENDING"}, Settle(s, status), recovered' = recovered,
           status = "PENDING" => delivery[slot[s].job[1]].attempts < MaxAttempts,
           NEW d \in Deliveries
    PROVE  RowMoves(d)
<1>1. status \in Statuses
  BY DEF Statuses
<1>2. delivery[d] \in RowRecords
  BY DEF IInv, TypeOK
<1>3. CASE d = slot[s].job[1]
  <2>1. delivery[d].status = "PROCESSING" /\ delivery'[d] = [delivery[d] EXCEPT !.status = status]
    BY <1>1, <1>3, SettleExclusive
  <2> QED
    BY <1>2, <1>3, <2>1 DEF RowRecords, RowMoves
<1>4. CASE d # slot[s].job[1]
  BY <1>1, <1>4, SettleExclusive DEF RowMoves
<1> QED
  BY <1>3, <1>4

LEMMA RowStep ==
    ASSUME IInv, [Next]_vars, NEW d \in Deliveries
    PROVE  RowMoves(d)
<1>a. delivery \in [Deliveries -> RowRecords] /\ delivery[d] \in RowRecords
  BY DEF IInv, TypeOK
<1>1. ASSUME delivery' = delivery, recovered' = recovered PROVE RowMoves(d)
  BY <1>1 DEF RowMoves
<1>2. ASSUME NEW s \in Slots, Claim(s) PROVE RowMoves(d)
  BY <1>2, <1>a DEF Claim, RowRecords, RowMoves
<1>3. ASSUME NEW s \in Slots, Cancel(s) \/ MarkSent(s) PROVE RowMoves(d)
  BY <1>3, SettleMoves DEF Cancel, MarkSent, Claimed, Final
<1>4. ASSUME NEW s \in Slots, Fail(s) PROVE RowMoves(d)
  <2> DEFINE status == RetryDecision(slot[s].attempts, slot[s].pc = "retry")
  <2>1. status \in {"PENDING", "FAILED"} /\ (status = "PENDING" => slot[s].attempts < MaxAttempts)
    BY DEF RetryDecision
  <2>2. slot[s].pc \in Claimed \ {"load"} /\ Settle(s, status) /\ recovered' = recovered
    BY <1>4 DEF Fail, Claimed
  <2>3. slot[s].attempts = delivery[slot[s].job[1]].attempts
    BY <2>2, ClaimsOwned DEF IInv, Owns
  <2> HIDE DEF status
  <2> QED
    BY <2>1, <2>2, <2>3, SettleMoves DEF Final
<1>5. ASSUME NEW p \in Reconcilers, Recover(p) PROVE RowMoves(d)
  <2>1. d \in stale => delivery[d].status = "PROCESSING"
    BY DEF IInv, TypeOK
  <2> QED
    BY <1>5, <1>a, <2>1 DEF Recover, GiveBack, RowRecords, RowMoves
<1>6. ASSUME NEW e \in Deliveries, CancelPending(e) PROVE RowMoves(d)
  BY <1>6, <1>a DEF CancelPending, RowRecords, RowMoves
<1>7. ASSUME NEW s \in Slots,
             \/ \E j \in waiting : TakeJob(s, j)
             \/ Load(s) \/ SendAccepted(s) \/ SendFails(s) \/ MarkSentFails(s)
             \/ EndJob(s) \/ Throws(s) \/ Crash(s)
      PROVE  RowMoves(d)
  BY <1>1, <1>7 DEF TakeJob, Load, SendAccepted, SendFails, MarkSentFails, EndJob, Throws, Crash
<1>8. ASSUME NEW j, StallJob(j) \/ ExpireJob(j) PROVE RowMoves(d)
  BY <1>1, <1>8 DEF StallJob, ExpireJob
<1>9. ASSUME NEW p \in Reconcilers,
             \/ List(p) \/ EndReconcile(p) \/ ReconcileFails(p)
             \/ \E j \in reconciler[p].listed : Add(p, j)
      PROVE  RowMoves(d)
  BY <1>1, <1>9 DEF List, EndReconcile, ReconcileFails, Add
<1>10. ASSUME NEW e \in Deliveries,
              \/ BecomeDue(e) \/ AgeClaim(e)
              \/ CloseInvitation(e) \/ LapseInvitation(e) \/ HookLost(e)
       PROVE  RowMoves(d)
  BY <1>1, <1>10 DEF BecomeDue, AgeClaim, CloseInvitation, LapseInvitation, HookLost
<1>11. CASE UNCHANGED vars
  BY <1>1, <1>11 DEF vars
<1> QED
  BY <1>2, <1>3, <1>4, <1>5, <1>6, <1>7, <1>8, <1>9, <1>10, <1>11
     DEF Next, SlotStep, QueueStep, ReconcilerStep, InvitationStep

LEMMA InvStep == IInv /\ [Next]_vars => IInv'
<1> SUFFICES ASSUME IInv, [Next]_vars PROVE IInv'
  OBVIOUS
<1>1. TypeOK' /\ ClaimExclusive'
  BY TypeStep, ExclusiveStep DEF IInv
<1>2. ASSUME NEW d \in Deliveries
      PROVE  /\ delivery'[d].attempts <= MaxAttempts + recovered'[d]
             /\ delivery'[d].status = "PENDING" =>
                  delivery'[d].attempts < MaxAttempts + recovered'[d]
  <2>1. delivery[d].attempts \in Nat /\ recovered[d] \in Nat
    BY DEF IInv, TypeOK, RowRecords
  <2>2. delivery[d].attempts <= MaxAttempts + recovered[d]
        /\ (delivery[d].status = "PENDING" => delivery[d].attempts < MaxAttempts + recovered[d])
    BY DEF IInv, RetriesCapped, PendingCapped
  <2> QED
    BY <2>1, <2>2, RowStep, AttemptsAssumption DEF RowMoves, Final
<1> QED
  BY <1>1, <1>2 DEF IInv, RetriesCapped, PendingCapped

LEMMA Invariance == Spec => []IInv
BY InitInv, InvStep, PTL DEF Spec

\* From its claim to its last write an attempt owns its row, although no write
\* after the claim checks it (email-delivery.processor.ts:65-69, 79, 100, 121).
THEOREM ClaimsExclusive == Spec => []ClaimExclusive
<1>1. IInv => ClaimExclusive
  BY DEF IInv
<1> QED
  BY <1>1, Invariance, PTL

\* The attempts of a row exceed the limit of emailRetryDecision at most by the
\* number of claims taken back (email-delivery.processor.ts:20-27, 162-169).
THEOREM RetriesAreCapped == Spec => []RetriesCapped
<1>1. IInv => RetriesCapped
  BY DEF IInv
<1> QED
  BY <1>1, Invariance, PTL

\* SENT, FAILED and CANCELLED are never left, although MarkSent, fail and the
\* cancellation write by id alone (email-delivery.processor.ts:79, 100, 121).
THEOREM OutcomesFinal == Spec => OutcomeFinal
<1>1. ASSUME IInv, [Next]_vars, NEW d \in Deliveries, delivery[d].status \in Final
      PROVE  delivery'[d].status = delivery[d].status
  BY <1>1, RowStep DEF RowMoves, Final
<1>2. IInv /\ [Next]_vars =>
        [\A d \in Deliveries : delivery[d].status \in Final =>
             delivery'[d].status = delivery[d].status]_vars
  BY <1>1
<1> QED
  BY <1>2, Invariance, PTL DEF Spec, OutcomeFinal
=============================================================================
