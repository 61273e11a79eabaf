--------------------------- MODULE EmailDelivery ---------------------------
(***************************************************************************)
(* The email outbox: rows of email_deliveries, the job processor that      *)
(* mails them, and the reconciler that keeps the queue "notifications"     *)
(* filled from the table.                                                  *)
(*                                                                         *)
(* A row is claimed by one conditional update, PENDING to PROCESSING.      *)
(* Every later write of the attempt is unconditional: that nobody else     *)
(* writes meanwhile rests on the claim, on the ten minutes after which the *)
(* reconciler takes a claim back, and on the hooks of an invitation        *)
(* touching PENDING rows only.                                             *)
(*                                                                         *)
(* One action is one database statement, one call of the provider or one   *)
(* operation of the queue, with the local computation after it.  The       *)
(* creation of rows, the templates and the deletion of an organization are *)
(* left out; every delivery starts as createEmailDelivery leaves it.       *)
(***************************************************************************)
EXTENDS Integers

CONSTANTS
    Deliveries,     \* rows of the outbox
    Invitations,    \* deliveries that carry an invitation
    Slots,          \* job slots of the worker processes (concurrency 8)
    Reconcilers,    \* reconcile() calls in progress: two timers per process
    MaxAttempts,    \* 5 in emailRetryDecision
    MaxMishaps,     \* bound on crashes and database errors together
    None            \* no value

ASSUME AttemptsAssumption == MaxAttempts \in Nat \ {0}
ASSUME InvitationsAssumption == Invitations \subseteq Deliveries
ASSUME MishapsAssumption == MaxMishaps \in Nat

VARIABLES
    delivery,     \* status and attempts of a row
    due,          \* rows whose nextAttemptAt has passed
    stale,        \* PROCESSING rows untouched for ten minutes
    invitation,   \* the invitation of a row
    waiting,      \* BullMQ: waiting jobs
    active,       \* BullMQ: jobs that a slot has taken and not ended
    failed,       \* BullMQ: failed jobs, kept for 24 hours
    stalledOnce,  \* BullMQ: jobs whose lock has expired once
    slot,         \* what a slot remembers of the job that it runs
    lock,         \* slots that still own the lock of their job
    reconciler,   \* where a reconcile() call is, and what it has listed
    recovered,    \* how often a claim on a row was taken back
    mishaps       \* crashes and database errors so far

queue == <<waiting, active, failed, stalledOnce>>
vars == <<delivery, due, stale, invitation, queue, slot, lock, reconciler,
          recovered, mishaps>>

\* jobId `${delivery.id}-${delivery.attempts}`
Jobs == Deliveries \X Nat

Final == {"SENT", "FAILED", "CANCELLED"}
Statuses == Final \cup {"PENDING", "PROCESSING"}

\* Between the claim and the last write of an attempt.
Claimed == {"load", "cancel", "send", "mark", "retry", "fail"}

Idle == [pc |-> "idle", job |-> None, attempts |-> 0]

\* Does slot s work on the claim of d?
Works(s, d) == slot[s].pc \in Claimed /\ slot[s].job[1] = d

Init ==
    /\ delivery = [d \in Deliveries |-> [status |-> "PENDING", attempts |-> 0]]
    /\ due = Deliveries
    /\ stale = {}
    /\ invitation = [d \in Deliveries |-> IF d \in Invitations THEN "pending" ELSE "none"]
    /\ waiting = {} /\ active = {} /\ failed = {} /\ stalledOnce = {}
    /\ slot = [s \in Slots |-> Idle]
    /\ lock = {}
    /\ reconciler = [p \in Reconcilers |-> [pc |-> "idle", listed |-> {}]]
    /\ recovered = [d \in Deliveries |-> 0]
    /\ mishaps = 0

-----------------------------------------------------------------------------
(* The processor.                                                          *)

Goto(s, pc) == slot' = [slot EXCEPT ![s].pc = pc]

TakeJob(s, j) ==
    /\ slot[s].pc = "idle"
    /\ j \in waiting
    /\ waiting' = waiting \ {j}
    /\ active' = active \cup {j}
    /\ slot' = [slot EXCEPT ![s] = [pc |-> "claim", job |-> j, attempts |-> 0]]
    /\ lock' = lock \cup {s}
    /\ UNCHANGED <<delivery, due, stale, invitation, failed, stalledOnce,
                   reconciler, recovered, mishaps>>

\* Mutant of Claim: the update does not ask for the status PENDING.
ClaimAnyStatus(s) ==
    LET d == slot[s].job[1] IN
    /\ slot[s].pc = "claim"
    /\ IF d \in due
       THEN /\ delivery' = [delivery EXCEPT ![d] =
                              [status |-> "PROCESSING", attempts |-> @.attempts + 1]]
            /\ stale' = stale \ {d}
            /\ Goto(s, "load")
       ELSE Goto(s, "end") /\ UNCHANGED <<delivery, stale>>
    /\ UNCHANGED <<due, invitation, queue, lock, reconciler, recovered, mishaps>>

\* The conditional update; a row that is not pending or not due ends the job.
Claim(s) ==
    LET d == slot[s].job[1] IN
    /\ slot[s].pc = "claim"
    /\ IF delivery[d].status = "PENDING" /\ d \in due
       THEN /\ delivery' = [delivery EXCEPT ![d] =
                              [status |-> "PROCESSING", attempts |-> @.attempts + 1]]
            /\ stale' = stale \ {d}
            /\ Goto(s, "load")
       ELSE Goto(s, "end") /\ UNCHANGED <<delivery, stale>>
    /\ UNCHANGED <<due, invitation, queue, lock, reconciler, recovered, mishaps>>

\* The row, its invitation and the API key are read.  An invitation that is no
\* longer pending cancels the delivery; without a key it fails for good.
Load(s) ==
    LET d == slot[s].job[1] IN
    /\ slot[s].pc = "load"
    /\ \E pc \in IF invitation[d] \in {"closing", "closed"} THEN {"cancel"}
                                                             ELSE {"send", "fail"} :
         slot' = [slot EXCEPT ![s] = [pc |-> pc, job |-> @.job,
                                      attempts |-> delivery[d].attempts]]
    /\ UNCHANGED <<delivery, due, stale, invitation, queue, lock, reconciler,
                   recovered, mishaps>>

\* An unconditional write of the status by the slot, the last of its attempt.
Settle(s, status) ==
    LET d == slot[s].job[1] IN
    /\ delivery' = [delivery EXCEPT ![d].status = status]
    /\ stale' = stale \ {d}
    /\ Goto(s, "end")

Cancel(s) ==
    /\ slot[s].pc = "cancel"
    /\ Settle(s, "CANCELLED")
    /\ UNCHANGED <<due, invitation, queue, lock, reconciler, recovered, mishaps>>

\* The provider accepts the mail and answers in time.
SendAccepted(s) ==
    /\ slot[s].pc = "send"
    /\ Goto(s, "mark")
    /\ UNCHANGED <<delivery, due, stale, invitation, queue, lock, reconciler,
                   recovered, mishaps>>

\* No answer in 15 s, or status 429 or 5xx: retryable.  Another status, or a
\* body that cannot be read: not.  The mail may have gone out all the same.
SendFails(s) ==
    /\ slot[s].pc = "send"
    /\ \E pc \in {"retry", "fail"} : Goto(s, pc)
    /\ UNCHANGED <<delivery, due, stale, invitation, queue, lock, reconciler,
                   recovered, mishaps>>

MarkSent(s) ==
    /\ slot[s].pc = "mark"
    /\ Settle(s, "SENT")
    /\ UNCHANGED <<due, invitation, queue, lock, reconciler, recovered, mishaps>>

\* The update to SENT is inside the try block: its error is taken for a failed
\* send that must not be retried.
MarkSentFails(s) ==
    /\ slot[s].pc = "mark"
    /\ mishaps < MaxMishaps
    /\ mishaps' = mishaps + 1
    /\ Goto(s, "fail")
    /\ UNCHANGED <<delivery, due, stale, invitation, queue, lock, reconciler, recovered>>

\* Mutant of RetryDecision: one attempt too many.
RetryDecisionLate(attempts, retryable) ==
    IF retryable /\ attempts <= MaxAttempts THEN "PENDING" ELSE "FAILED"

\* emailRetryDecision
RetryDecision(attempts, retryable) ==
    IF retryable /\ attempts < MaxAttempts THEN "PENDING" ELSE "FAILED"

\* fail(): a retry is due after a delay, a failure has no next attempt.
Fail(s) ==
    LET status == RetryDecision(slot[s].attempts, slot[s].pc = "retry") IN
    /\ slot[s].pc \in {"retry", "fail"}
    /\ Settle(s, status)
    /\ due' = IF status = "PENDING" THEN due \ {slot[s].job[1]} ELSE due
    /\ UNCHANGED <<invitation, queue, lock, reconciler, recovered, mishaps>>

\* process() returns: the job is removed, unless its lock was lost.
EndJob(s) ==
    /\ slot[s].pc = "end"
    /\ IF s \in lock
       THEN /\ active' = active \ {slot[s].job}
            /\ stalledOnce' = stalledOnce \ {slot[s].job}
       ELSE UNCHANGED <<active, stalledOnce>>
    /\ slot' = [slot EXCEPT ![s] = Idle]
    /\ lock' = lock \ {s}
    /\ UNCHANGED <<delivery, due, stale, invitation, waiting, failed, reconciler,
                   recovered, mishaps>>

\* A database statement outside the try block fails: process() throws and the
\* job, which has one attempt, fails.
Throws(s) ==
    /\ slot[s].pc \in {"claim", "load", "cancel", "retry", "fail"}
    /\ mishaps < MaxMishaps
    /\ mishaps' = mishaps + 1
    /\ IF s \in lock
       THEN active' = active \ {slot[s].job} /\ failed' = failed \cup {slot[s].job}
       ELSE UNCHANGED <<active, failed>>
    /\ slot' = [slot EXCEPT ![s] = Idle]
    /\ lock' = lock \ {s}
    /\ UNCHANGED <<delivery, due, stale, invitation, waiting, stalledOnce, reconciler,
                   recovered>>

\* The process of the slot dies; the job stays active and without a lock.
Crash(s) ==
    /\ slot[s].pc # "idle"
    /\ mishaps < MaxMishaps
    /\ mishaps' = mishaps + 1
    /\ slot' = [slot EXCEPT ![s] = Idle]
    /\ lock' = lock \ {s}
    /\ UNCHANGED <<delivery, due, stale, invitation, queue, reconciler, recovered>>

-----------------------------------------------------------------------------
(* The queue and time.                                                     *)

\* A job without a valid lock, of a dead slot or of a blocked one, waits again
\* the first time (maxStalledCount 1) and fails the second time.
StallJob(j) ==
    /\ j \in active
    /\ active' = active \ {j}
    /\ lock' = {s \in lock : slot[s].job # j}
    /\ IF j \in stalledOnce
       THEN failed' = failed \cup {j} /\ UNCHANGED <<waiting, stalledOnce>>
       ELSE /\ waiting' = waiting \cup {j}
            /\ stalledOnce' = stalledOnce \cup {j}
            /\ UNCHANGED failed
    /\ UNCHANGED <<delivery, due, stale, invitation, slot, reconciler, recovered, mishaps>>

\* removeOnFail: a failed job older than a day goes when another job fails.
ExpireJob(j) ==
    /\ j \in failed
    /\ failed' = failed \ {j}
    /\ stalledOnce' = stalledOnce \ {j}
    /\ UNCHANGED <<delivery, due, stale, invitation, waiting, active, slot, lock,
                   reconciler, recovered, mishaps>>

\* nextAttemptAt passes.
BecomeDue(d) ==
    /\ delivery[d].status = "PENDING"
    /\ d \notin due
    /\ due' = due \cup {d}
    /\ UNCHANGED <<delivery, stale, invitation, queue, slot, lock, reconciler,
                   recovered, mishaps>>

\* Ten minutes pass over a claim.  The attempt of a live slot is shorter: its
\* only long step, the send, is cut off after 15 seconds.
AgeClaim(d) ==
    /\ delivery[d].status = "PROCESSING"
    /\ d \notin stale
    /\ \A s \in Slots : ~Works(s, d)
    /\ stale' = stale \cup {d}
    /\ UNCHANGED <<delivery, due, invitation, queue, slot, lock, reconciler,
                   recovered, mishaps>>

-----------------------------------------------------------------------------
(* The reconciler, every 15 seconds.                                       *)

\* Stale claims are given back, without a look at the attempts.
GiveBack(p, rows) ==
    /\ reconciler[p].pc = "idle"
    /\ delivery' = [d \in Deliveries |->
                      IF d \in rows THEN [delivery[d] EXCEPT !.status = "PENDING"]
                                    ELSE delivery[d]]
    /\ due' = due \cup rows
    /\ recovered' = [d \in Deliveries |-> IF d \in rows THEN recovered[d] + 1 ELSE recovered[d]]
    /\ reconciler' = [reconciler EXCEPT ![p] = [pc |-> "list", listed |-> {}]]

\* Mutant of Recover: the age of a claim is not looked at.
RecoverAtOnce(p) ==
    LET rows == {d \in Deliveries : delivery[d].status = "PROCESSING"} IN
    /\ GiveBack(p, rows)
    /\ stale' = stale \ rows
    /\ UNCHANGED <<invitation, queue, slot, lock, mishaps>>

\* Mutant of Recover: rows are given back without touching updatedAt.
RecoverUntouched(p) ==
    /\ GiveBack(p, stale)
    /\ UNCHANGED <<stale, invitation, queue, slot, lock, mishaps>>

\* Mutant of Recover: nothing is given back.
RecoverNothing(p) ==
    /\ GiveBack(p, {})
    /\ UNCHANGED <<stale, invitation, queue, slot, lock, mishaps>>

Recover(p) ==
    /\ GiveBack(p, stale)
    /\ stale' = {}
    /\ UNCHANGED <<invitation, queue, slot, lock, mishaps>>

\* The rows that are pending and due, with the attempts they have now.
List(p) ==
    /\ reconciler[p].pc = "list"
    /\ reconciler' = [reconciler EXCEPT ![p] =
         [pc |-> "add", listed |-> {<<d, delivery[d].attempts>> :
             d \in {e \in due : delivery[e].status = "PENDING"}}]]
    /\ UNCHANGED <<delivery, due, stale, invitation, queue, slot, lock, recovered, mishaps>>

\* queue.add, in any order; the queue ignores a job id that it still knows.
Add(p, j) ==
    /\ reconciler[p].pc = "add"
    /\ j \in reconciler[p].listed
    /\ waiting' = IF j \in active \cup failed THEN waiting ELSE waiting \cup {j}
    /\ reconciler' = [reconciler EXCEPT ![p].listed = @ \ {j}]
    /\ UNCHANGED <<delivery, due, stale, invitation, active, failed, stalledOnce, slot,
                   lock, recovered, mishaps>>

EndReconcile(p) ==
    /\ reconciler[p].pc = "add"
    /\ reconciler[p].listed = {}
    /\ reconciler' = [reconciler EXCEPT ![p].pc = "idle"]
    /\ UNCHANGED <<delivery, due, stale, invitation, queue, slot, lock, recovered, mishaps>>

\* A statement or an add fails, or the process dies: the next timer starts anew.
ReconcileFails(p) ==
    /\ reconciler[p].pc # "idle"
    /\ mishaps < MaxMishaps
    /\ mishaps' = mishaps + 1
    /\ reconciler' = [reconciler EXCEPT ![p] = [pc |-> "idle", listed |-> {}]]
    /\ UNCHANGED <<delivery, due, stale, invitation, queue, slot, lock, recovered>>

-----------------------------------------------------------------------------
(* Invitations.                                                            *)

\* The invitation is accepted or cancelled; its hook runs afterwards.
CloseInvitation(d) ==
    /\ invitation[d] = "pending"
    /\ invitation' = [invitation EXCEPT ![d] = "closing"]
    /\ UNCHANGED <<delivery, due, stale, queue, slot, lock, reconciler, recovered, mishaps>>

\* It expires or is rejected, and nothing runs.
LapseInvitation(d) ==
    /\ invitation[d] = "pending"
    /\ invitation' = [invitation EXCEPT ![d] = "closed"]
    /\ UNCHANGED <<delivery, due, stale, queue, slot, lock, reconciler, recovered, mishaps>>

\* afterAcceptInvitation, afterCancelInvitation: only PENDING rows.
CancelPending(d) ==
    /\ invitation[d] = "closing"
    /\ invitation' = [invitation EXCEPT ![d] = "closed"]
    /\ delivery' = [delivery EXCEPT ![d].status = IF @ = "PENDING" THEN "CANCELLED" ELSE @]
    /\ UNCHANGED <<due, stale, queue, slot, lock, reconciler, recovered, mishaps>>

\* The hook fails or the API dies before it.
HookLost(d) ==
    /\ invitation[d] = "closing"
    /\ mishaps < MaxMishaps
    /\ mishaps' = mishaps + 1
    /\ invitation' = [invitation EXCEPT ![d] = "closed"]
    /\ UNCHANGED <<delivery, due, stale, queue, slot, lock, reconciler, recovered>>

-----------------------------------------------------------------------------
SlotStep(s) ==
    \/ \E j \in waiting : TakeJob(s, j)
    \/ Claim(s) \/ Load(s) \/ Cancel(s) \/ SendAccepted(s) \/ SendFails(s)
    \/ MarkSent(s) \/ MarkSentFails(s) \/ Fail(s) \/ EndJob(s) \/ Throws(s) \/ Crash(s)

QueueStep ==
    \/ \E j \in active : StallJob(j)
    \/ \E j \in failed : ExpireJob(j)
    \/ \E d \in Deliveries : BecomeDue(d) \/ AgeClaim(d)

ReconcilerStep(p) ==
    \/ Recover(p) \/ List(p) \/ EndReconcile(p) \/ ReconcileFails(p)
    \/ \E j \in reconciler[p].listed : Add(p, j)

InvitationStep(d) ==
    CloseInvitation(d) \/ LapseInvitation(d) \/ CancelPending(d) \/ HookLost(d)

Next ==
    \/ \E s \in Slots : SlotStep(s)
    \/ QueueStep
    \/ \E p \in Reconcilers : ReconcilerStep(p)
    \/ \E d \in Deliveries : InvitationStep(d)

Spec == Init /\ [][Next]_vars

\* Processes are scheduled, timers fire, time passes and the queue is served in
\* order, so no waiting job is passed over for ever.  Nothing is assumed of
\* people, of the provider's answer, of faults or of the expiry of failed jobs.
Fairness ==
    /\ \A s \in Slots :
         WF_vars(Claim(s) \/ Load(s) \/ Cancel(s) \/ SendAccepted(s) \/ SendFails(s)
                 \/ MarkSent(s) \/ Fail(s) \/ EndJob(s))
    /\ \A d \in Deliveries :
         /\ SF_vars(\E s \in Slots : \E j \in waiting : j[1] = d /\ TakeJob(s, j))
         /\ WF_vars(BecomeDue(d))
         /\ WF_vars(AgeClaim(d))
         /\ WF_vars(\E j \in active :
                      j[1] = d /\ (\A s \in lock : slot[s].job # j) /\ StallJob(j))
    /\ \A p \in Reconcilers :
         WF_vars(Recover(p) \/ List(p) \/ EndReconcile(p)
                 \/ \E j \in reconciler[p].listed : Add(p, j))

FairSpec == Spec /\ Fairness

-----------------------------------------------------------------------------
(* Properties.                                                             *)

RowRecords == [status : Statuses, attempts : Nat]
SlotRecords == [pc : Claimed \cup {"idle", "claim", "end"}, job : Jobs \cup {None},
                attempts : Nat]
ReconcilerRecords == [pc : {"idle", "list", "add"}, listed : SUBSET Jobs]

\* Types; only a claimed row counts as stale (email-delivery.processor.ts:162).
TypeOK ==
    /\ delivery \in [Deliveries -> RowRecords]
    /\ due \subseteq Deliveries
    /\ stale \subseteq {d \in Deliveries : delivery[d].status = "PROCESSING"}
    /\ invitation \in [Deliveries -> {"none", "pending", "closing", "closed"}]
    /\ waiting \subseteq Jobs /\ active \subseteq Jobs
    /\ failed \subseteq Jobs /\ stalledOnce \subseteq Jobs
    /\ slot \in [Slots -> SlotRecords]
    /\ \A s \in Slots : slot[s].pc # "idle" => slot[s].job \in Jobs
    /\ lock \subseteq Slots
    /\ reconciler \in [Reconcilers -> ReconcilerRecords]
    /\ recovered \in [Deliveries -> Nat]
    /\ mishaps \in Nat

\* From its claim to its last write an attempt owns the row: the status is
\* PROCESSING, the attempts are the ones it read, the claim has not been given
\* up, and no other slot is at work on the row.  Nothing in the code checks
\* this after the claim (processor:79, 100, 121 write by id).
ClaimExclusive ==
    \A s \in Slots : slot[s].pc \in Claimed =>
        LET d == slot[s].job[1] IN
        /\ delivery[d].status = "PROCESSING"
        /\ d \notin stale
        /\ slot[s].pc # "load" => slot[s].attempts = delivery[d].attempts
        /\ \A t \in Slots \ {s} : ~Works(t, d)

\* Retries end: the attempts exceed the limit at most by the number of times a
\* claim was taken back, which the code does not count (processor:162-169).
RetriesCapped ==
    \A d \in Deliveries : delivery[d].attempts <= MaxAttempts + recovered[d]

\* An outcome is never taken back: not by a duplicate job, a late slot, the
\* reconciler or the hook of an invitation.
OutcomeFinal ==
    [][\A d \in Deliveries : delivery[d].status \in Final =>
           delivery'[d].status = delivery[d].status]_vars

\* A failed job of the same id keeps the reconciler from adding the next one.
Blocked(d) == <<d, delivery[d].attempts>> \in failed

\* Every delivery is settled, or stands behind a failed job of its own id,
\* through retries, crashes, lost locks and errors.
DeliveryEnds ==
    \A d \in Deliveries :
        delivery[d].status = "PENDING" ~> (delivery[d].status \in Final \/ Blocked(d))
=============================================================================
