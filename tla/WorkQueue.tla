----------------------------- MODULE WorkQueue -----------------------------
(***************************************************************************)
(* The work queues: BullMQ with the job options of the repository.         *)
(*                                                                         *)
(* The API adds a job under an id made from its idempotency key, a slot of *)
(* a worker takes it and holds its lock, an attempt ends or throws, and    *)
(* the stalled-job checker takes back the jobs whose lock has expired,     *)
(* because the slot died or was too slow to renew it.  A slot that lost    *)
(* its lock goes on with its work all the same.                            *)
(*                                                                         *)
(* BullMQ itself is external.  JobDelivery is what the processors may      *)
(* count on.                                                               *)
(***************************************************************************)
EXTENDS Integers

CONSTANTS
    Jobs,        \* idempotency keys
    Slots,       \* slots of the worker: its concurrency
    Attempts,    \* defaultJobOptions.attempts, 5 in the code
    MaxStalled,  \* maxStalledCount, 1 by default
    None         \* no value

VARIABLE job     \* the record of each job

NoJob == [status |-> "none", made |-> 0, stalled |-> 0, holder |-> None]

\* A second job with the same id is not added.
Added(j) == IF j.status = "none" THEN [j EXCEPT !.status = "waiting"] ELSE j

Taken(j, s) == [j EXCEPT !.status = "active", !.holder = s]

\* Only the holder of the lock can finish the job.
Completed(j, s) ==
    IF j.holder = s THEN [j EXCEPT !.status = "completed", !.holder = None] ELSE j

\* A thrown attempt waits for the next one, or the job is out of attempts.
Thrown(j, s) ==
    IF j.holder # s THEN j
    ELSE [j EXCEPT !.made = j.made + 1, !.holder = None,
                   !.status = IF j.made + 1 < Attempts THEN "waiting" ELSE "failed"]

\* Mutant of Recovered: a stalled job is delivered again without end.
RecoveredAlways(j) ==
    [j EXCEPT !.stalled = j.stalled + 1, !.status = "waiting", !.holder = None]

\* A stalled job is delivered again, or failed without a call of the processor.
Recovered(j) ==
    [j EXCEPT !.stalled = j.stalled + 1, !.holder = None,
              !.status = IF j.stalled < MaxStalled THEN "waiting" ELSE "failed"]

-----------------------------------------------------------------------------
Init == job = [i \in Jobs |-> NoJob]

Add(i) == job' = [job EXCEPT ![i] = Added(job[i])]

Take(i, s) ==
    /\ job[i].status = "waiting"
    /\ job' = [job EXCEPT ![i] = Taken(job[i], s)]

Complete(i, s) == job' = [job EXCEPT ![i] = Completed(job[i], s)]

Throw(i, s) == job' = [job EXCEPT ![i] = Thrown(job[i], s)]

Stall(i) ==
    /\ job[i].status = "active"
    /\ job' = [job EXCEPT ![i] = Recovered(job[i])]

Next ==
    \E i \in Jobs :
      \/ Add(i) \/ Stall(i)
      \/ \E s \in Slots : Take(i, s) \/ Complete(i, s) \/ Throw(i, s)

Spec == Init /\ [][Next]_job

-----------------------------------------------------------------------------
TypeOK ==
    job \in [Jobs ->
      [status : {"none", "waiting", "active", "completed", "failed"},
       made : 0..Attempts, stalled : 0..(MaxStalled + 1), holder : Slots \cup {None}]]

\* What a job is to its processor: whether it will still be delivered, and how often.
\* The delivery of an active job, and the one that completed it, has been used.
Progress(j) ==
    [status |-> IF j.status = "completed" THEN "done"
                ELSE IF j.status \in {"none", "failed"} THEN j.status ELSE "queued",
     left |-> Attempts + MaxStalled - j.made - j.stalled
                - (IF j.status \in {"active", "completed"} THEN 1 ELSE 0)]

Delivery == INSTANCE JobDelivery WITH
    Deliveries <- Attempts + MaxStalled,
    job <- [i \in Jobs |-> Progress(job[i])]

\* The queue delivers a job at most once for every attempt and every stall it forgives,
\* and not at all once somebody has completed it or it was given up.
DeliveryImplemented == Delivery!Spec
=============================================================================
