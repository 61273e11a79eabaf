---------------------------- MODULE JobDelivery ----------------------------
(***************************************************************************)
(* What the processors may count on from the queue: a job that was added   *)
(* is delivered at most Deliveries times, and no more once it is done or   *)
(* was given up.  WorkQueue implements this.                               *)
(***************************************************************************)
EXTENDS Integers

CONSTANTS
    Jobs,        \* ids of jobs, made from the idempotency key
    Deliveries   \* attempts of a job and stalls that are forgiven

VARIABLE job  \* of each job, what becomes of it and the deliveries that are left

Init == job = [j \in Jobs |-> [status |-> "none", left |-> Deliveries]]

\* A second job with the same id is not added.
Add(j) ==
    /\ job[j].status = "none"
    /\ job' = [job EXCEPT ![j].status = "queued"]

Deliver(j) ==
    /\ job[j].status = "queued" /\ job[j].left > 0
    /\ job' = [job EXCEPT ![j].left = @ - 1]

Complete(j) ==
    /\ job[j].status = "queued"
    /\ job' = [job EXCEPT ![j].status = "done"]

\* A job that was never delivered is not given up.
GiveUp(j) ==
    /\ job[j].status = "queued" /\ job[j].left < Deliveries
    /\ job' = [job EXCEPT ![j].status = "failed"]

Next == \E j \in Jobs : Add(j) \/ Deliver(j) \/ Complete(j) \/ GiveUp(j)

Spec == Init /\ [][Next]_job
=============================================================================
