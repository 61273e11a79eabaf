------------------------- MODULE AnalysisRun_proofs -------------------------
(***************************************************************************)
(* What holds of the queue of the analyses for every number of runs,       *)
(* slots, attempts and stalls that are forgiven; and what the steps of     *)
(* AnalysisRun keep, whatever the runs, the launches and the results of a  *)
(* module are: the wiring between requests, jobs, slots and runs, that the *)
(* proofs about the modules rest on.                                       *)
(***************************************************************************)
EXTENDS AnalysisRun, TLAPS

-----------------------------------------------------------------------------
(* The queue.                                                              *)

\* At least one attempt; None stands for no slot.
Parameters == Attempts \in Nat \ {0} /\ MaxStalled \in Nat /\ None \notin Slots

\* A job that may still be delivered is below both limits, and a lock is that of
\* an active job.
JobInv(j) ==
    /\ j.status \in {"none", "waiting", "active"} => j.made < Attempts /\ j.stalled <= MaxStalled
    /\ j.holder # None => j.status = "active"
    /\ j.status = "none" => j.made = 0 /\ j.stalled = 0

QueueInv == Queue!TypeOK /\ \A i \in Runs : JobInv(job[i])

JobRecords ==
    [status : {"none", "waiting", "active", "completed", "failed"},
     made : 0..Attempts, stalled : 0..(MaxStalled + 1), holder : Slots \cup {None}]

-----------------------------------------------------------------------------
(* One lemma for each operation on a job: what it returns is a job again,  *)
(* and the abstract job of JobDelivery makes the step named, or none.      *)

LEMMA NewJob ==
    ASSUME Parameters
    PROVE  Queue!NoJob \in JobRecords /\ JobInv(Queue!NoJob)
BY DEF Parameters, Queue!NoJob, JobRecords, JobInv

LEMMA AddedJob ==
    ASSUME Parameters, NEW j \in JobRecords, JobInv(j)
    PROVE  /\ Queue!Added(j) \in JobRecords /\ JobInv(Queue!Added(j))
           /\ \/ Queue!Progress(Queue!Added(j)) = Queue!Progress(j)
              \/ Queue!Progress(j).status = "none"
                 /\ Queue!Progress(Queue!Added(j)) =
                      [status |-> "queued", left |-> Queue!Progress(j).left]
BY DEF Parameters, JobRecords, JobInv, Queue!Added, Queue!Progress

LEMMA TakenJob ==
    ASSUME Parameters, NEW j \in JobRecords, JobInv(j), NEW s \in Slots, j.status = "waiting"
    PROVE  /\ Queue!Taken(j, s) \in JobRecords /\ JobInv(Queue!Taken(j, s))
           /\ Queue!Progress(j).status = "queued" /\ Queue!Progress(j).left > 0
           /\ Queue!Progress(Queue!Taken(j, s)) =
                [status |-> "queued", left |-> Queue!Progress(j).left - 1]
<1> DEFINE k == Queue!Taken(j, s)
<1>1. /\ k \in JobRecords /\ k.status = "active" /\ k.holder = s
      /\ k.made = j.made /\ k.stalled = j.stalled
  BY DEF JobRecords, Queue!Taken
<1> HIDE DEF k
<1>2. JobInv(k)
  BY <1>1 DEF JobInv
<1>3. PICK n \in Int : n = Attempts + MaxStalled - j.made - j.stalled /\ n > 0
  BY DEF Parameters, JobRecords, JobInv
<1>4. Queue!Progress(j) = [status |-> "queued", left |-> n] /\ Queue!Progress(j).left = n
  BY <1>3 DEF Parameters, JobRecords, Queue!Progress
<1>5. Queue!Progress(k) = [status |-> "queued", left |-> n - 1]
  BY <1>1, <1>3 DEF Parameters, JobRecords, Queue!Progress
<1>6. /\ k \in JobRecords /\ JobInv(k)
      /\ Queue!Progress(j).status = "queued" /\ Queue!Progress(j).left > 0
      /\ Queue!Progress(k) = [status |-> "queued", left |-> Queue!Progress(j).left - 1]
  BY <1>1, <1>2, <1>3, <1>4, <1>5
<1> QED
  BY <1>6 DEF k

LEMMA CompletedJob ==
    ASSUME Parameters, NEW j \in JobRecords, JobInv(j), NEW s \in Slots
    PROVE  /\ Queue!Completed(j, s) \in JobRecords /\ JobInv(Queue!Completed(j, s))
           /\ \/ Queue!Progress(Queue!Completed(j, s)) = Queue!Progress(j)
              \/ Queue!Progress(j).status = "queued"
                 /\ Queue!Progress(Queue!Completed(j, s)) =
                      [status |-> "done", left |-> Queue!Progress(j).left]
<1>1. CASE j.holder # s
  BY <1>1 DEF Queue!Completed
<1>2. CASE j.holder = s
  <2> DEFINE k == Queue!Completed(j, s)
  <2>1. /\ k \in JobRecords /\ k.status = "completed" /\ k.holder = None
        /\ k.made = j.made /\ k.stalled = j.stalled
    BY <1>2 DEF JobRecords, Queue!Completed
  <2> HIDE DEF k
  <2>2. j.status = "active"
    BY <1>2 DEF Parameters, JobInv
  <2>3. JobInv(k)
    BY <2>1 DEF JobInv
  <2>4. Queue!Progress(j) =
          [status |-> "queued", left |-> Attempts + MaxStalled - j.made - j.stalled - 1]
    BY <2>2 DEF Queue!Progress
  <2>5. Queue!Progress(k) =
          [status |-> "done", left |-> Attempts + MaxStalled - j.made - j.stalled - 1]
    BY <2>1 DEF Queue!Progress
  <2> QED
    BY <2>1, <2>3, <2>4, <2>5 DEF k
<1> QED
  BY <1>1, <1>2

\* An active job that is taken back has used the delivery it was on: it waits for one
\* of those that are left, or is given up.
LEMMA TakenBack ==
    ASSUME Parameters, NEW j \in JobRecords, JobInv(j), j.status = "active",
           NEW k \in JobRecords, k.made + k.stalled = j.made + j.stalled + 1,
           k.status \in {"waiting", "failed"}
    PROVE  \/ Queue!Progress(k) = Queue!Progress(j)
           \/ /\ Queue!Progress(j).status = "queued" /\ Queue!Progress(j).left < Attempts + MaxStalled
              /\ Queue!Progress(k) = [status |-> "failed", left |-> Queue!Progress(j).left]
<1>1. Queue!Progress(j) =
        [status |-> "queued", left |-> Attempts + MaxStalled - j.made - j.stalled - 1]
  BY DEF Queue!Progress
<1>2. /\ Attempts + MaxStalled - j.made - j.stalled - 1 < Attempts + MaxStalled
      /\ Attempts + MaxStalled - k.made - k.stalled - 0
           = Attempts + MaxStalled - j.made - j.stalled - 1
  BY DEF Parameters, JobRecords
<1>3. Queue!Progress(k) = [status |-> IF k.status = "waiting" THEN "queued" ELSE "failed",
                     left |-> Attempts + MaxStalled - k.made - k.stalled - 0]
  BY DEF Queue!Progress
<1> QED
  BY <1>1, <1>2, <1>3

LEMMA ThrownJob ==
    ASSUME Parameters, NEW j \in JobRecords, JobInv(j), NEW s \in Slots
    PROVE  /\ Queue!Thrown(j, s) \in JobRecords /\ JobInv(Queue!Thrown(j, s))
           /\ \/ Queue!Progress(Queue!Thrown(j, s)) = Queue!Progress(j)
              \/ /\ Queue!Progress(j).status = "queued" /\ Queue!Progress(j).left < Attempts + MaxStalled
                 /\ Queue!Progress(Queue!Thrown(j, s)) =
                      [status |-> "failed", left |-> Queue!Progress(j).left]
<1>1. CASE j.holder # s
  BY <1>1 DEF Queue!Thrown
<1>2. CASE j.holder = s
  <2> DEFINE status == IF j.made + 1 < Attempts THEN "waiting" ELSE "failed"
             k == Queue!Thrown(j, s)
  <2>1. j.status = "active"
    BY <1>2 DEF Parameters, JobInv
  <2>2. /\ j.made + 1 \in 0..Attempts /\ j.stalled \in 0..(MaxStalled + 1)
        /\ j.stalled <= MaxStalled /\ j.made \in Nat
        /\ status \in {"waiting", "failed"}
        /\ status = "waiting" => j.made + 1 < Attempts
    BY <2>1 DEF Parameters, JobRecords, JobInv
  <2>3. ASSUME NEW st \in {"waiting", "failed"}
        PROVE  LET r == [j EXCEPT !.made = j.made + 1, !.holder = None, !.status = st] IN
               /\ r \in JobRecords /\ r.status = st /\ r.holder = None
               /\ r.made = j.made + 1 /\ r.stalled = j.stalled
    BY <2>2 DEF JobRecords
  <2>4. /\ k \in JobRecords /\ k.status = status /\ k.holder = None
        /\ k.made = j.made + 1 /\ k.stalled = j.stalled
    <3>1. k = [j EXCEPT !.made = j.made + 1, !.holder = None, !.status = status]
      BY <1>2 DEF Queue!Thrown
    <3> QED
      BY <2>2, <2>3, <3>1
  <2> HIDE DEF status, k
  <2>5. JobInv(k)
    BY <2>2, <2>4 DEF JobInv
  <2>6. k.made + k.stalled = j.made + j.stalled + 1
    BY <2>2, <2>4
  <2>7. \/ Queue!Progress(k) = Queue!Progress(j)
        \/ /\ Queue!Progress(j).status = "queued" /\ Queue!Progress(j).left < Attempts + MaxStalled
           /\ Queue!Progress(k) = [status |-> "failed", left |-> Queue!Progress(j).left]
    BY <2>1, <2>2, <2>4, <2>6, TakenBack
  <2> QED
    BY <2>4, <2>5, <2>7 DEF k
<1> QED
  BY <1>1, <1>2

LEMMA RecoveredJob ==
    ASSUME Parameters, NEW j \in JobRecords, JobInv(j), j.status = "active"
    PROVE  /\ Queue!Recovered(j) \in JobRecords /\ JobInv(Queue!Recovered(j))
           /\ \/ Queue!Progress(Queue!Recovered(j)) = Queue!Progress(j)
              \/ /\ Queue!Progress(j).status = "queued" /\ Queue!Progress(j).left < Attempts + MaxStalled
                 /\ Queue!Progress(Queue!Recovered(j)) =
                      [status |-> "failed", left |-> Queue!Progress(j).left]
<1> DEFINE status == IF j.stalled < MaxStalled THEN "waiting" ELSE "failed"
           k == Queue!Recovered(j)
<1>1. /\ j.made \in Nat /\ j.made < Attempts /\ j.stalled + 1 \in 0..(MaxStalled + 1)
      /\ j.stalled \in Nat
      /\ status \in {"waiting", "failed"}
      /\ status = "waiting" => j.stalled + 1 <= MaxStalled
  BY DEF Parameters, JobRecords, JobInv
<1>2. ASSUME NEW st \in {"waiting", "failed"}
      PROVE  LET r == [j EXCEPT !.stalled = j.stalled + 1, !.holder = None, !.status = st] IN
             /\ r \in JobRecords /\ r.status = st /\ r.holder = None
             /\ r.made = j.made /\ r.stalled = j.stalled + 1
  BY <1>1 DEF JobRecords
<1>3. /\ k \in JobRecords /\ k.status = status /\ k.holder = None
      /\ k.made = j.made /\ k.stalled = j.stalled + 1
  <2>1. k = [j EXCEPT !.stalled = j.stalled + 1, !.holder = None, !.status = status]
    BY DEF Queue!Recovered
  <2> QED
    BY <1>1, <1>2, <2>1
<1> HIDE DEF status, k
<1>4. JobInv(k)
  BY <1>1, <1>3 DEF JobInv
<1>5. k.made + k.stalled = j.made + j.stalled + 1
  BY <1>1, <1>3
<1>6. \/ Queue!Progress(k) = Queue!Progress(j)
      \/ /\ Queue!Progress(j).status = "queued" /\ Queue!Progress(j).left < Attempts + MaxStalled
         /\ Queue!Progress(k) = [status |-> "failed", left |-> Queue!Progress(j).left]
  BY <1>1, <1>3, <1>5, TakenBack
<1> QED
  BY <1>3, <1>4, <1>6 DEF k

-----------------------------------------------------------------------------
\* The jobs as JobDelivery sees them.
Deliveries == [i \in Runs |-> Queue!Progress(job[i])]

\* The steps of JobDelivery, by the records that they leave.
LEMMA DeliverySteps ==
    ASSUME QueueInv, NEW i \in Runs, NEW d, Deliveries' = [Deliveries EXCEPT ![i] = d]
    PROVE  LET status == Queue!Progress(job[i]).status
               left == Queue!Progress(job[i]).left IN
           /\ status = "none" /\ d = [status |-> "queued", left |-> left] => Queue!Delivery!Add(i)
           /\ status = "queued" /\ left > 0 /\ d = [status |-> "queued", left |-> left - 1]
                => Queue!Delivery!Deliver(i)
           /\ status = "queued" /\ d = [status |-> "done", left |-> left]
                => Queue!Delivery!Complete(i)
           /\ (status = "queued" /\ left < Attempts + MaxStalled
                /\ d = [status |-> "failed", left |-> left])
                => Queue!Delivery!GiveUp(i)
<1>1. Deliveries[i] = Queue!Progress(job[i]) /\ Deliveries = [x \in Runs |-> Queue!Progress(job[x])]
  BY DEF Deliveries
<1>2. PICK status, left : Queue!Progress(job[i]) = [status |-> status, left |-> left]
  BY DEF Queue!Progress
<1>3. /\ [Deliveries[i] EXCEPT !.status = "queued"] = [status |-> "queued", left |-> left]
      /\ [Deliveries[i] EXCEPT !.status = "done"] = [status |-> "done", left |-> left]
      /\ [Deliveries[i] EXCEPT !.status = "failed"] = [status |-> "failed", left |-> left]
      /\ [Deliveries[i] EXCEPT !.left = Deliveries[i].left - 1]
           = [status |-> status, left |-> left - 1]
      /\ Queue!Progress(job[i]).left = left /\ Queue!Progress(job[i]).status = status
  BY <1>1, <1>2
<1>4. /\ Queue!Delivery!Add(i) <=>
           /\ Deliveries[i].status = "none"
           /\ Deliveries' = [Deliveries EXCEPT ![i] = [Deliveries[i] EXCEPT !.status = "queued"]]
      /\ Queue!Delivery!Deliver(i) <=>
           /\ Deliveries[i].status = "queued" /\ Deliveries[i].left > 0
           /\ Deliveries' = [Deliveries EXCEPT ![i] =
                 [Deliveries[i] EXCEPT !.left = Deliveries[i].left - 1]]
      /\ Queue!Delivery!Complete(i) <=>
           /\ Deliveries[i].status = "queued"
           /\ Deliveries' = [Deliveries EXCEPT ![i] = [Deliveries[i] EXCEPT !.status = "done"]]
      /\ Queue!Delivery!GiveUp(i) <=>
           /\ Deliveries[i].status = "queued" /\ Deliveries[i].left < Attempts + MaxStalled
           /\ Deliveries' = [Deliveries EXCEPT ![i] = [Deliveries[i] EXCEPT !.status = "failed"]]
  BY DEF Queue!Delivery!Add, Queue!Delivery!Deliver, Queue!Delivery!Complete,
         Queue!Delivery!GiveUp, Deliveries
<1>5. Deliveries[i].status = status /\ Deliveries[i].left = left
  BY <1>1, <1>3
<1>6. Queue!Progress(job[i]).left = left /\ Queue!Progress(job[i]).status = status
  BY <1>3
<1>7. status = "none" /\ d = [status |-> "queued", left |-> left] => Queue!Delivery!Add(i)
  BY <1>3, <1>4, <1>5
<1>8. status = "queued" /\ left > 0 /\ d = [status |-> "queued", left |-> left - 1]
        => Queue!Delivery!Deliver(i)
  BY <1>3, <1>4, <1>5
<1>9. status = "queued" /\ d = [status |-> "done", left |-> left] => Queue!Delivery!Complete(i)
  BY <1>3, <1>4, <1>5
<1>10. (status = "queued" /\ left < Attempts + MaxStalled
          /\ d = [status |-> "failed", left |-> left])
         => Queue!Delivery!GiveUp(i)
  BY <1>3, <1>4, <1>5
<1> QED
  BY <1>6, <1>7, <1>8, <1>9, <1>10

\* A step replaces one job; it keeps the invariant and makes a step of JobDelivery
\* when the abstract job does.
LEMMA OneJob ==
    ASSUME QueueInv, NEW i \in Runs, NEW j \in JobRecords, JobInv(j), job' = [job EXCEPT ![i] = j]
    PROVE  QueueInv' /\ Deliveries' = [Deliveries EXCEPT ![i] = Queue!Progress(j)]
<1>1. job \in [Runs -> JobRecords]
  BY DEF QueueInv, Queue!TypeOK, JobRecords
<1>2. job' \in [Runs -> JobRecords] /\ \A x \in Runs : job'[x] = IF x = i THEN j ELSE job[x]
  BY <1>1
<1>3. QueueInv'
  BY <1>2 DEF QueueInv, Queue!TypeOK, JobRecords
<1> QED
  BY <1>2, <1>3 DEF Deliveries

LEMMA SameDeliveries ==
    ASSUME NEW i \in Runs, Deliveries' = [Deliveries EXCEPT ![i] = Queue!Progress(job[i])]
    PROVE  Deliveries' = Deliveries
BY DEF Deliveries

LEMMA StepImplemented ==
    ASSUME Parameters, QueueInv, Queue!Next
    PROVE  QueueInv' /\ [Queue!Delivery!Next]_Deliveries
<1>1. job \in [Runs -> JobRecords] /\ \A i \in Runs : job[i] \in JobRecords /\ JobInv(job[i])
  BY DEF QueueInv, Queue!TypeOK, JobRecords
<1>2. \A i \in Runs : Deliveries[i] = Queue!Progress(job[i])
  BY DEF Deliveries
<1>3. ASSUME NEW i \in Runs, Queue!Add(i) PROVE QueueInv' /\ [Queue!Delivery!Next]_Deliveries
  <2>1. QueueInv' /\ Deliveries' = [Deliveries EXCEPT ![i] = Queue!Progress(Queue!Added(job[i]))]
    BY <1>1, <1>3, AddedJob, OneJob DEF Queue!Add
  <2>2. Deliveries' = Deliveries \/ Queue!Delivery!Add(i)
    BY <1>1, <1>2, <2>1, AddedJob, DeliverySteps, SameDeliveries
  <2> QED
    BY <2>1, <2>2 DEF Queue!Delivery!Next, Deliveries
<1>4. ASSUME NEW i \in Runs, NEW s \in Slots, Queue!Take(i, s)
      PROVE  QueueInv' /\ [Queue!Delivery!Next]_Deliveries
  <2>1. QueueInv' /\ Deliveries' = [Deliveries EXCEPT ![i] = Queue!Progress(Queue!Taken(job[i], s))]
    BY <1>1, <1>4, TakenJob, OneJob DEF Queue!Take
  <2>2. Queue!Delivery!Deliver(i)
    BY <1>1, <1>4, <2>1, TakenJob, DeliverySteps DEF Queue!Take
  <2> QED
    BY <2>1, <2>2 DEF Queue!Delivery!Next
<1>5. ASSUME NEW i \in Runs, NEW s \in Slots, Queue!Complete(i, s)
      PROVE  QueueInv' /\ [Queue!Delivery!Next]_Deliveries
  <2>1. /\ QueueInv'
        /\ Deliveries' = [Deliveries EXCEPT ![i] = Queue!Progress(Queue!Completed(job[i], s))]
    BY <1>1, <1>5, CompletedJob, OneJob DEF Queue!Complete
  <2>2. Deliveries' = Deliveries \/ Queue!Delivery!Complete(i)
    BY <1>1, <1>2, <2>1, CompletedJob, DeliverySteps, SameDeliveries
  <2> QED
    BY <2>1, <2>2 DEF Queue!Delivery!Next, Deliveries
<1>6. ASSUME NEW i \in Runs, NEW s \in Slots, Queue!Throw(i, s)
      PROVE  QueueInv' /\ [Queue!Delivery!Next]_Deliveries
  <2>1. /\ QueueInv'
        /\ Deliveries' = [Deliveries EXCEPT ![i] = Queue!Progress(Queue!Thrown(job[i], s))]
    BY <1>1, <1>6, ThrownJob, OneJob DEF Queue!Throw
  <2>2. Deliveries' = Deliveries \/ Queue!Delivery!GiveUp(i)
    BY <1>1, <1>2, <2>1, ThrownJob, DeliverySteps, SameDeliveries
  <2> QED
    BY <2>1, <2>2 DEF Queue!Delivery!Next, Deliveries
<1>7. ASSUME NEW i \in Runs, Queue!Stall(i) PROVE QueueInv' /\ [Queue!Delivery!Next]_Deliveries
  <2>1. /\ QueueInv'
        /\ Deliveries' = [Deliveries EXCEPT ![i] = Queue!Progress(Queue!Recovered(job[i]))]
    BY <1>1, <1>7, RecoveredJob, OneJob DEF Queue!Stall
  <2>2. Deliveries' = Deliveries \/ Queue!Delivery!GiveUp(i)
    BY <1>1, <1>2, <1>7, <2>1, RecoveredJob, DeliverySteps, SameDeliveries DEF Queue!Stall
  <2> QED
    BY <2>1, <2>2 DEF Queue!Delivery!Next, Deliveries
<1> QED
  BY <1>3, <1>4, <1>5, <1>6, <1>7 DEF Queue!Next

LEMMA QueueStarts ==
    ASSUME Parameters, Queue!Init
    PROVE  QueueInv /\ Queue!Delivery!Init
<1>1. Queue!NoJob \in JobRecords /\ JobInv(Queue!NoJob)
  BY NewJob
<1>2. QueueInv
  BY <1>1 DEF Queue!Init, QueueInv, Queue!TypeOK, JobRecords
<1>3. Queue!Progress(Queue!NoJob) = [status |-> "none", left |-> Attempts + MaxStalled]
  BY DEF Parameters, Queue!Progress, Queue!NoJob
<1> QED
  BY <1>2, <1>3 DEF Queue!Init, Queue!Delivery!Init

LEMMA StepOrStutter ==
    ASSUME Parameters, QueueInv, [Queue!Next]_job
    PROVE  QueueInv' /\ [Queue!Delivery!Next]_Deliveries
<1>1. CASE Queue!Next
  BY <1>1, StepImplemented
<1>2. CASE UNCHANGED job
  BY <1>2 DEF QueueInv, Queue!TypeOK, Deliveries
<1> QED
  BY <1>1, <1>2

\* A job stays within its attempts and the stalls that are forgiven, for any
\* numbers of both, of jobs and of slots.
THEOREM QueueTypes ==
    ASSUME Parameters
    PROVE  Queue!Spec => []Queue!TypeOK
<1>1. Queue!Init => QueueInv
  BY QueueStarts
<1>2. QueueInv /\ [Queue!Next]_job => QueueInv'
  BY StepOrStutter
<1>3. QueueInv => Queue!TypeOK
  BY DEF QueueInv
<1> QED
  BY <1>1, <1>2, <1>3, PTL DEF Queue!Spec

\* BullMQ as it is used here implements JobDelivery: what a processor may count on
\* holds whatever slots finish, throw, die or lose their lock.
THEOREM DeliveryIsImplemented ==
    ASSUME Parameters
    PROVE  Queue!Spec => Queue!DeliveryImplemented
<1>1. Queue!Init => QueueInv /\ Queue!Delivery!Init
  BY QueueStarts
<1>2. QueueInv /\ [Queue!Next]_job => QueueInv' /\ [Queue!Delivery!Next]_Deliveries
  BY StepOrStutter
<1> QED
  BY <1>1, <1>2, PTL DEF Queue!Spec, Queue!DeliveryImplemented, Queue!Delivery!Spec, Deliveries

-----------------------------------------------------------------------------
(* The wiring.                                                             *)

JobsTyped == job \in [Runs -> JobRecords] /\ \A r \in Runs : JobInv(job[r])

\* A request that has created a run is the only one of it, and nobody else knows of the
\* job before it is added.
RequestsWired(reads) ==
    /\ request \in [Requests -> RequestTypes(reads)]
    /\ \A q \in Requests : request[q].pc = "read" => request[q].read \in reads
    /\ \A q \in Requests : request[q].pc = "enqueue" =>
         /\ request[q].run \in Runs
         /\ run[request[q].run].status # "none" /\ job[request[q].run].status = "none"
    /\ \A q, p \in Requests :
         request[q].pc = "enqueue" /\ request[p].pc = "enqueue" /\ request[q].run = request[p].run
           => q = p

\* A slot works on a run whose job was added.
SlotsWired(founds) ==
    /\ slot \in [Slots -> SlotTypes(founds)]
    /\ \A w \in Slots : slot[w].pc # "idle" =>
         /\ slot[w].run \in Runs /\ job[slot[w].run].status # "none"

\* The job of a run is added after the run was created.
JobsHaveRuns == \A r \in Runs : job[r].status # "none" => run[r].status # "none"

Wired(reads, founds) ==
    JobsTyped /\ RequestsWired(reads) /\ SlotsWired(founds) /\ JobsHaveRuns

\* No step of AnalysisRun takes a run away.
RunsKept == \A r \in Runs : run[r].status # "none" => run'[r].status # "none"

\* What a step does to the wiring: a slot goes on with its work.
SlotMoves ==
    /\ \E w \in Slots : \E pc \in {"generate", "persist", "fail", "throw", "end"} :
         slot[w].pc # "idle" /\ Goto(w, pc)
    /\ UNCHANGED <<job, request>>

-----------------------------------------------------------------------------
\* A job stays a job; none but the job that is added is new.
JobsStep(r) ==
    /\ JobsTyped'
    /\ \A s \in Runs : s # r => job'[s] = job[s]
    /\ job[r].status # "none" => job'[r].status # "none"

LEMMA JobReplaced ==
    ASSUME JobsTyped, NEW r \in Runs, NEW j \in JobRecords, JobInv(j),
           job[r].status # "none" => j.status # "none", job' = [job EXCEPT ![r] = j]
    PROVE  JobsStep(r)
BY DEF JobsTyped, JobsStep

LEMMA AddStep ==
    ASSUME Parameters, JobsTyped, NEW r \in Runs, Queue!Add(r)
    PROVE  JobsStep(r)
<1>1. Queue!Added(job[r]) \in JobRecords /\ JobInv(Queue!Added(job[r]))
  BY AddedJob DEF JobsTyped
<1>2. job[r].status # "none" => Queue!Added(job[r]).status # "none"
  BY DEF Queue!Added
<1>3. job' = [job EXCEPT ![r] = Queue!Added(job[r])]
  BY DEF Queue!Add
<1> QED
  BY <1>1, <1>2, <1>3, JobReplaced

LEMMA TakeStep ==
    ASSUME Parameters, JobsTyped, NEW r \in Runs, NEW w \in Slots, Queue!Take(r, w)
    PROVE  JobsStep(r) /\ job[r].status = "waiting" /\ job'[r].status # "none"
<1>1. job[r].status = "waiting"
  BY DEF Queue!Take
<1>2. Queue!Taken(job[r], w) \in JobRecords /\ JobInv(Queue!Taken(job[r], w))
  BY <1>1, TakenJob DEF JobsTyped
<1>3. Queue!Taken(job[r], w).status = "active"
  BY DEF JobsTyped, Queue!Taken, JobRecords
<1>4. job' = [job EXCEPT ![r] = Queue!Taken(job[r], w)]
  BY DEF Queue!Take
<1> QED
  BY <1>1, <1>2, <1>3, <1>4, JobReplaced DEF JobsStep

LEMMA CompleteStep ==
    ASSUME Parameters, JobsTyped, NEW r \in Runs, NEW w \in Slots, Queue!Complete(r, w)
    PROVE  JobsStep(r)
<1>1. Queue!Completed(job[r], w) \in JobRecords /\ JobInv(Queue!Completed(job[r], w))
  BY CompletedJob DEF JobsTyped
<1>2. job[r].status # "none" => Queue!Completed(job[r], w).status # "none"
  BY DEF JobsTyped, Queue!Completed, JobRecords
<1>3. job' = [job EXCEPT ![r] = Queue!Completed(job[r], w)]
  BY DEF Queue!Complete
<1> QED
  BY <1>1, <1>2, <1>3, JobReplaced

LEMMA ThrowStep ==
    ASSUME Parameters, JobsTyped, NEW r \in Runs, NEW w \in Slots, Queue!Throw(r, w)
    PROVE  JobsStep(r)
<1>1. Queue!Thrown(job[r], w) \in JobRecords /\ JobInv(Queue!Thrown(job[r], w))
  BY ThrownJob DEF JobsTyped
<1>2. job[r].status # "none" => Queue!Thrown(job[r], w).status # "none"
  BY DEF JobsTyped, Queue!Thrown, JobRecords
<1>3. job' = [job EXCEPT ![r] = Queue!Thrown(job[r], w)]
  BY DEF Queue!Throw
<1> QED
  BY <1>1, <1>2, <1>3, JobReplaced

LEMMA StallStep ==
    ASSUME Parameters, JobsTyped, NEW r \in Runs, Queue!Stall(r)
    PROVE  JobsStep(r)
<1>1. job[r].status = "active"
  BY DEF Queue!Stall
<1>2. Queue!Recovered(job[r]) \in JobRecords /\ JobInv(Queue!Recovered(job[r]))
  BY <1>1, RecoveredJob DEF JobsTyped
<1>3. Queue!Recovered(job[r]).status # "none"
  BY DEF JobsTyped, Queue!Recovered, JobRecords
<1>4. job' = [job EXCEPT ![r] = Queue!Recovered(job[r])]
  BY DEF Queue!Stall
<1> QED
  BY <1>2, <1>3, <1>4, JobReplaced

-----------------------------------------------------------------------------
\* The wiring does not look further into the runs than whether they are there.
LEMMA JobsStillHaveRuns ==
    ASSUME NEW r \in Runs, JobsHaveRuns, RunsKept, JobsStep(r), run[r].status # "none"
    PROVE  JobsHaveRuns'
BY DEF JobsHaveRuns, RunsKept, JobsStep

LEMMA InitWired ==
    ASSUME Parameters, NEW reads, NEW founds, Init,
           \A r \in Runs : run[r].status = "none"
    PROVE  Wired(reads, founds)
<1>1. JobsTyped
  BY NewJob DEF JobsTyped, Init, Queue!Init
<1>2. \A r \in Runs : job[r].status = "none"
  BY DEF Init, Queue!Init, Queue!NoJob
<1>3. RequestsWired(reads)
  BY DEF Init, Free, RequestsWired, RequestTypes
<1>4. SlotsWired(founds)
  BY DEF Init, Idle, SlotsWired, SlotTypes, Parameters
<1> QED
  BY <1>1, <1>2, <1>3, <1>4 DEF Wired, JobsHaveRuns

\* A step that leaves jobs, requests and slots alone.
LEMMA RunsMoveWired ==
    ASSUME NEW reads, NEW founds, Wired(reads, founds), RunsKept,
           UNCHANGED <<job, request, slot>>
    PROVE  Wired(reads, founds)'
<1>1. JobsTyped'
  BY DEF Wired, JobsTyped
<1>2. RequestsWired(reads)'
  BY DEF Wired, RequestsWired, RunsKept
<1>3. SlotsWired(founds)'
  BY DEF Wired, SlotsWired
<1> QED
  BY <1>1, <1>2, <1>3 DEF Wired, JobsHaveRuns, RunsKept

LEMMA ReadWired ==
    ASSUME NEW reads, NEW founds, Wired(reads, founds), RunsKept, UNCHANGED <<job, slot>>,
           NEW q \in Requests, NEW what \in reads, Read(q, what)
    PROVE  Wired(reads, founds)'
<1> DEFINE new == [Free EXCEPT !.pc = "read", !.read = what]
<1>1. JobsTyped' /\ SlotsWired(founds)' /\ JobsHaveRuns'
  BY DEF Wired, JobsTyped, SlotsWired, JobsHaveRuns, RunsKept
<1>2. new \in RequestTypes(reads) /\ new.pc = "read" /\ new.read = what
  BY DEF Free, RequestTypes
<1>3. request' = [request EXCEPT ![q] = new]
  BY DEF Read
<1> HIDE DEF new
<1>4. RequestsWired(reads)'
  BY <1>2, <1>3 DEF Wired, RequestsWired, RunsKept
<1> QED
  BY <1>1, <1>4 DEF Wired

\* A request is over.
LEMMA DoneWired ==
    ASSUME NEW reads, RequestsWired(reads), RunsKept, NEW q \in Requests, Done(q),
           \A p \in Requests : p # q /\ request[p].pc = "enqueue" =>
             job'[request[p].run] = job[request[p].run]
    PROVE  RequestsWired(reads)'
<1>1. request' = [request EXCEPT ![q] = [pc |-> "idle", run |-> None, read |-> None]]
  BY DEF Done, Free
<1> QED
  BY <1>1 DEF RequestsWired, RequestTypes, RunsKept

LEMMA RequestEndsWired ==
    ASSUME NEW reads, NEW founds, Wired(reads, founds), RunsKept, UNCHANGED <<job, slot>>,
           NEW q \in Requests, Done(q)
    PROVE  Wired(reads, founds)'
<1>1. JobsTyped' /\ SlotsWired(founds)' /\ JobsHaveRuns'
  BY DEF Wired, JobsTyped, SlotsWired, JobsHaveRuns, RunsKept
<1> QED
  BY <1>1, DoneWired DEF Wired

LEMMA CreateWired ==
    ASSUME NEW reads, NEW founds, Wired(reads, founds), UNCHANGED <<job, slot>>,
           NEW rows, run \in [Runs -> rows],
           NEW q \in Requests, NEW row, row.status # "none", Create(q, row)
    PROVE  RunsKept /\ Wired(reads, founds)'
<1>1. PICK r \in Runs : IsNext(r) /\ run' = [run EXCEPT ![r] = row]
                        /\ request' = [request EXCEPT ![q] = [Free EXCEPT !.pc = "enqueue", !.run = r]]
  BY DEF Create
<1>2. RunsKept
  BY <1>1 DEF RunsKept
<1>3. JobsTyped' /\ SlotsWired(founds)' /\ JobsHaveRuns'
  BY <1>2 DEF Wired, JobsTyped, SlotsWired, JobsHaveRuns, RunsKept
<1> DEFINE new == [Free EXCEPT !.pc = "enqueue", !.run = r]
<1>4. new \in RequestTypes(reads) /\ new.pc = "enqueue" /\ new.run = r
  BY DEF Free, RequestTypes
<1>5. request' = [request EXCEPT ![q] = new]
  BY <1>1
<1> HIDE DEF new
<1>6. run[r].status = "none" /\ job[r].status = "none" /\ run'[r].status # "none"
  BY <1>1 DEF IsNext, Wired, JobsHaveRuns
<1>7. \A p \in Requests : request[p].pc = "enqueue" => request[p].run # r
  BY <1>6 DEF Wired, RequestsWired
<1>8. RequestsWired(reads)'
  <2>1. request' \in [Requests -> RequestTypes(reads)]
    BY <1>4, <1>5 DEF Wired, RequestsWired
  <2>2. \A p \in Requests : request'[p].pc = "read" => request'[p].read \in reads
    BY <1>4, <1>5 DEF Wired, RequestsWired
  <2>3. \A p \in Requests : request'[p].pc = "enqueue" =>
          /\ request'[p].run \in Runs
          /\ run'[request'[p].run].status # "none" /\ job[request'[p].run].status = "none"
    BY <1>2, <1>4, <1>5, <1>6 DEF Wired, RequestsWired, RunsKept
  <2>4. \A p, o \in Requests :
          request'[p].pc = "enqueue" /\ request'[o].pc = "enqueue" /\ request'[p].run = request'[o].run
            => p = o
    BY <1>4, <1>5, <1>7 DEF Wired, RequestsWired
  <2> QED
    BY <2>1, <2>2, <2>3, <2>4 DEF RequestsWired
<1> QED
  BY <1>2, <1>3, <1>8 DEF Wired

LEMMA EnqueueWired ==
    ASSUME Parameters, NEW reads, NEW founds, Wired(reads, founds), RunsKept,
           NEW q \in Requests, Enqueue(q)
    PROVE  Wired(reads, founds)'
<1> DEFINE r == request[q].run
<1>1. r \in Runs /\ run[r].status # "none" /\ request[q].pc = "enqueue"
  BY DEF Enqueue, Wired, RequestsWired
<1>2. JobsStep(r)
  BY <1>1, AddStep DEF Enqueue, Wired
<1>3. JobsHaveRuns'
  BY <1>1, <1>2, JobsStillHaveRuns DEF Wired
<1>4. \A p \in Requests : p # q /\ request[p].pc = "enqueue" =>
        job'[request[p].run] = job[request[p].run]
  BY <1>1, <1>2 DEF Wired, RequestsWired, JobsStep
<1>5. RequestsWired(reads)'
  BY <1>4, DoneWired DEF Enqueue, Wired
<1>6. SlotsWired(founds)'
  BY <1>2 DEF Enqueue, Wired, SlotsWired, JobsStep
<1> QED
  BY <1>2, <1>3, <1>5, <1>6 DEF Wired, JobsStep

\* A step of a slot on the job of its run, after which the slot is idle or not.
LEMMA SlotWired ==
    ASSUME Parameters, NEW reads, NEW founds, Wired(reads, founds), RunsKept,
           NEW r \in Runs, job[r].status # "none", JobsStep(r), UNCHANGED request
    PROVE  JobsTyped' /\ RequestsWired(reads)' /\ JobsHaveRuns'
           /\ \A w \in Slots : slot[w].pc # "idle" => job'[slot[w].run].status # "none"
<1>1. run[r].status # "none"
  BY DEF Wired, JobsHaveRuns
<1>2. JobsHaveRuns'
  BY <1>1, JobsStillHaveRuns DEF Wired
<1>3. \A p \in Requests : request[p].pc = "enqueue" => request[p].run # r
  BY DEF Wired, RequestsWired
<1>4. RequestsWired(reads)'
  BY <1>3 DEF Wired, RequestsWired, RunsKept, JobsStep
<1>5. \A w \in Slots : slot[w].pc # "idle" => job'[slot[w].run].status # "none"
  BY DEF Wired, SlotsWired, JobsStep
<1> QED
  BY <1>2, <1>4, <1>5 DEF JobsStep

LEMMA TakeJobWired ==
    ASSUME Parameters, NEW reads, NEW founds, Wired(reads, founds), RunsKept,
           NEW w \in Slots, NEW r \in Runs, TakeJob(w, r)
    PROVE  Wired(reads, founds)'
<1>1. JobsStep(r) /\ job[r].status # "none" /\ job'[r].status # "none"
  BY TakeStep DEF TakeJob, Wired
<1>2. JobsTyped' /\ RequestsWired(reads)' /\ JobsHaveRuns'
      /\ \A v \in Slots : slot[v].pc # "idle" => job'[slot[v].run].status # "none"
  BY <1>1, SlotWired DEF TakeJob
<1>3. job[r].made \in 0..Attempts
  BY DEF Wired, JobsTyped, JobRecords
<1>4. PICK pc \in {"end", "mark"} :
        slot' = [slot EXCEPT ![w] = [Idle EXCEPT !.pc = pc, !.run = r, !.made = job[r].made]]
  BY DEF TakeJob
<1> DEFINE new == [Idle EXCEPT !.pc = pc, !.run = r, !.made = job[r].made]
<1>5. new \in SlotTypes(founds) /\ new.run = r
  BY <1>3 DEF Idle, SlotTypes
<1>6. slot' = [slot EXCEPT ![w] = new]
  BY <1>4
<1> HIDE DEF new
<1>7. slot' \in [Slots -> SlotTypes(founds)]
  BY <1>5, <1>6 DEF Wired, SlotsWired
<1>8. \A v \in Slots : slot'[v].pc # "idle" =>
        slot'[v].run \in Runs /\ job'[slot'[v].run].status # "none"
  BY <1>1, <1>2, <1>5, <1>6 DEF Wired, SlotsWired
<1> QED
  BY <1>2, <1>7, <1>8 DEF Wired, SlotsWired

LEMMA IdleWired ==
    ASSUME NEW founds, SlotsWired(founds), Attempts \in Nat, NEW w \in Slots,
           slot' = [slot EXCEPT ![w] = Idle],
           \A v \in Slots : slot[v].pc # "idle" => job'[slot[v].run].status # "none"
    PROVE  SlotsWired(founds)'
<1>1. slot' = [slot EXCEPT ![w] = [pc |-> "idle", run |-> None, made |-> 0, found |-> None]]
  BY DEF Idle
<1> QED
  BY <1>1 DEF SlotsWired, SlotTypes

LEMMA EndJobWired ==
    ASSUME Parameters, NEW reads, NEW founds, Wired(reads, founds), RunsKept,
           NEW w \in Slots, EndJob(w)
    PROVE  Wired(reads, founds)'
<1> DEFINE r == slot[w].run
<1>1. slot[w].pc # "idle"
  BY DEF EndJob
<1>2. r \in Runs /\ job[r].status # "none"
  BY <1>1 DEF Wired, SlotsWired
<1>3. JobsStep(r)
  BY <1>2, CompleteStep, ThrowStep DEF EndJob, Wired
<1>4. JobsTyped' /\ RequestsWired(reads)' /\ JobsHaveRuns'
      /\ \A v \in Slots : slot[v].pc # "idle" => job'[slot[v].run].status # "none"
  BY <1>2, <1>3, SlotWired DEF EndJob
<1>5. SlotsWired(founds)'
  BY <1>4, IdleWired DEF EndJob, Wired, Parameters
<1> QED
  BY <1>4, <1>5 DEF Wired

LEMMA CrashWired ==
    ASSUME Parameters, NEW reads, NEW founds, Wired(reads, founds), RunsKept,
           NEW w \in Slots, Crash(w)
    PROVE  Wired(reads, founds)'
<1>1. JobsTyped' /\ RequestsWired(reads)' /\ JobsHaveRuns'
  BY DEF Crash, Wired, JobsTyped, RequestsWired, JobsHaveRuns, RunsKept
<1>2. SlotsWired(founds)'
  <2>1. \A v \in Slots : slot[v].pc # "idle" => job'[slot[v].run].status # "none"
    BY DEF Crash, Wired, SlotsWired
  <2> QED
    BY <2>1, IdleWired DEF Crash, Wired, Parameters
<1> QED
  BY <1>1, <1>2 DEF Wired

LEMMA StallWired ==
    ASSUME Parameters, NEW reads, NEW founds, Wired(reads, founds), RunsKept,
           NEW r \in Runs, Stall(r)
    PROVE  Wired(reads, founds)'
<1>1. job[r].status # "none"
  BY DEF Stall, Queue!Stall
<1>2. JobsStep(r)
  BY StallStep DEF Stall, Wired
<1>3. JobsTyped' /\ RequestsWired(reads)' /\ JobsHaveRuns'
      /\ \A v \in Slots : slot[v].pc # "idle" => job'[slot[v].run].status # "none"
  BY <1>1, <1>2, SlotWired DEF Stall
<1>4. SlotsWired(founds)'
  BY <1>3 DEF Stall, Wired, SlotsWired
<1> QED
  BY <1>3, <1>4 DEF Wired

LEMMA SlotMovesWired ==
    ASSUME NEW reads, NEW founds, Wired(reads, founds), RunsKept, SlotMoves
    PROVE  Wired(reads, founds)'
<1>1. JobsTyped' /\ RequestsWired(reads)' /\ JobsHaveRuns'
  BY DEF SlotMoves, Wired, JobsTyped, RequestsWired, JobsHaveRuns, RunsKept
<1>2. PICK w \in Slots, pc \in {"generate", "persist", "fail", "throw", "end"} :
        slot[w].pc # "idle" /\ slot' = [slot EXCEPT ![w].pc = pc]
  BY DEF SlotMoves, Goto
<1>3. slot' \in [Slots -> SlotTypes(founds)]
  BY <1>2 DEF Wired, SlotsWired, SlotTypes
<1>4. \A v \in Slots : slot'[v].pc # "idle" =>
        slot'[v].run \in Runs /\ job'[slot'[v].run].status # "none"
  BY <1>2 DEF Wired, SlotsWired, SlotTypes, SlotMoves
<1> QED
  BY <1>1, <1>3, <1>4 DEF Wired, SlotsWired

\* A slot goes on with what it has found.
LEMMA SlotFindsWired ==
    ASSUME NEW reads, NEW founds, Wired(reads, founds), RunsKept, UNCHANGED <<job, request>>,
           NEW w \in Slots, slot[w].pc # "idle", NEW pc \in {"persist", "fail"},
           NEW found \in founds \cup {None},
           slot' = [slot EXCEPT ![w].pc = pc, ![w].found = found]
    PROVE  Wired(reads, founds)'
<1>1. JobsTyped' /\ RequestsWired(reads)' /\ JobsHaveRuns'
  BY DEF Wired, JobsTyped, RequestsWired, JobsHaveRuns, RunsKept
<1>2. slot \in [Slots -> SlotTypes(founds)]
  BY DEF Wired, SlotsWired
<1> DEFINE new == [slot[w] EXCEPT !.pc = pc, !.found = found]
<1>3. new \in SlotTypes(founds) /\ new.run = slot[w].run
  BY <1>2 DEF SlotTypes
<1>4. slot' = [slot EXCEPT ![w] = new]
  BY <1>2
<1> HIDE DEF new
<1>5. slot' \in [Slots -> SlotTypes(founds)]
  BY <1>2, <1>3, <1>4
<1>6. \A v \in Slots : slot'[v].pc # "idle" =>
        slot'[v].run \in Runs /\ job'[slot'[v].run].status # "none"
  BY <1>2, <1>3, <1>4 DEF Wired, SlotsWired
<1> QED
  BY <1>1, <1>5, <1>6 DEF Wired, SlotsWired

\* Whatever a module's runs and results are, its jobs only make steps of the queue.
LEMMA QueueMoves ==
    ASSUME NEW reads, NEW founds, Wired(reads, founds),
           \/ \E q \in Requests : Enqueue(q)
           \/ \E w \in Slots : EndJob(w) \/ \E r \in Runs : TakeJob(w, r)
           \/ \E r \in Runs : Stall(r)
           \/ UNCHANGED job
    PROVE  [Queue!Next]_job
<1>1. ASSUME NEW q \in Requests, Enqueue(q)
      PROVE  Queue!Next
  <2>1. request[q].run \in Runs /\ Queue!Add(request[q].run)
    BY <1>1 DEF Wired, RequestsWired, Enqueue
  <2> QED
    BY <2>1 DEF Queue!Next
<1>2. ASSUME NEW w \in Slots, EndJob(w)
      PROVE  Queue!Next
  <2>1. /\ slot[w].run \in Runs
        /\ Queue!Complete(slot[w].run, w) \/ Queue!Throw(slot[w].run, w)
    BY <1>2 DEF Wired, SlotsWired, EndJob
  <2> QED
    BY <2>1 DEF Queue!Next
<1>3. ASSUME NEW w \in Slots, NEW r \in Runs, TakeJob(w, r)
      PROVE  Queue!Next
  BY <1>3 DEF TakeJob, Queue!Next
<1>4. ASSUME NEW r \in Runs, Stall(r)
      PROVE  Queue!Next
  BY <1>4 DEF Stall, Queue!Next
<1> QED
  BY <1>1, <1>2, <1>3, <1>4

-----------------------------------------------------------------------------
(* Who is at work on a run: the safety that RunEnds rests on.              *)

EndedKept == \A r \in Runs : run[r].status \in Ended => run'[r].status \in Ended

\* A slot goes on with its work, and is done with a run only if that has ended.
SlotGoesOn ==
    /\ UNCHANGED job
    /\ \E w \in Slots : \E new :
         /\ slot[w].pc # "idle" /\ slot' = [slot EXCEPT ![w] = new]
         /\ new.pc # "idle" /\ new.run = slot[w].run
         /\ new.pc = "end" => run'[slot[w].run].status \in Ended

\* All that a step of a module can do to the jobs and the slots.
WorkStep ==
    \/ UNCHANGED <<job, slot>>
    \/ SlotGoesOn
    \/ \E q \in Requests : Enqueue(q)
    \/ \E w \in Slots : EndJob(w) \/ Crash(w) \/ \E r \in Runs : TakeJob(w, r)
    \/ \E r \in Runs : Stall(r)

AtWork(w, r) == slot[w].pc # "idle" /\ slot[w].run = r

\* A slot that is done with a run, and a completed job, leave it ended.
Settled(r) ==
    /\ \A w \in Slots : AtWork(w, r) /\ slot[w].pc = "end" => run[r].status \in Ended
    /\ job[r].status = "completed" => run[r].status \in Ended

\* As long as no lock of its job was lost, no slot but the holder works on a run.
Held(r) ==
    job[r].stalled = 0 =>
      \A w \in Slots : AtWork(w, r) => job[r].status = "active" /\ job[r].holder = w

AllHeld == \A r \in Runs : Held(r)

\* The updates that mark a run as RUNNING look at its status (ClaimRun), or they do not.
AllSettled == \A r \in Runs : Settled(r)
SettledUnlessStalled == \A r \in Runs : job[r].stalled = 0 => Settled(r)

\* What the operations of the queue do to a job, as far as is needed here.
LEMMA JobEffects ==
    ASSUME NEW j \in JobRecords, NEW w \in Slots
    PROVE  /\ LET k == Queue!Added(j) IN
                k.stalled = j.stalled /\ (k # j => j.status = "none" /\ k.status = "waiting")
           /\ LET k == Queue!Taken(j, w) IN
                k.stalled = j.stalled /\ k.status = "active" /\ k.holder = w
           /\ LET k == Queue!Completed(j, w) IN
                k.stalled = j.stalled /\ (k # j => j.holder = w)
           /\ LET k == Queue!Thrown(j, w) IN
                k.stalled = j.stalled /\ (k # j => j.holder = w /\ k.status \in {"waiting", "failed"})
           /\ LET k == Queue!Recovered(j) IN
                k.stalled # 0 /\ k.status \in {"waiting", "failed"}
BY DEF JobRecords, Queue!Added, Queue!Taken, Queue!Completed, Queue!Thrown, Queue!Recovered

\* The step of a queue operation on the job of run r, and what it leaves of it.
LEMMA EndJobEffect ==
    ASSUME NEW reads, NEW founds, Wired(reads, founds), NEW w \in Slots, EndJob(w),
           NEW r \in Runs
    PROVE  /\ slot[w].pc \in {"end", "throw"} /\ slot' = [slot EXCEPT ![w] = Idle]
           /\ job'[r].stalled = job[r].stalled /\ UNCHANGED run
           /\ job'[r] # job[r] =>
                /\ slot[w].run = r /\ job[r].holder = w
                /\ slot[w].pc = "end" \/ job'[r].status \in {"waiting", "failed"}
<1> DEFINE s == slot[w].run
<1>1. s \in Runs /\ job[s] \in JobRecords /\ job \in [Runs -> JobRecords]
  BY DEF EndJob, Wired, SlotsWired, JobsTyped
<1>2. \/ slot[w].pc = "end" /\ job' = [job EXCEPT ![s] = Queue!Completed(job[s], w)]
      \/ job' = [job EXCEPT ![s] = Queue!Thrown(job[s], w)]
  BY DEF EndJob, Queue!Complete, Queue!Throw
<1>3. CASE slot[w].pc = "end" /\ job' = [job EXCEPT ![s] = Queue!Completed(job[s], w)]
  <2> DEFINE k == Queue!Completed(job[s], w)
  <2>1. k.stalled = job[s].stalled /\ (k # job[s] => job[s].holder = w)
    BY <1>1, JobEffects
  <2> HIDE DEF k
  <2>2. job' = [job EXCEPT ![s] = k]
    BY <1>3 DEF k
  <2> QED
    BY <1>1, <1>3, <2>1, <2>2 DEF EndJob
<1>4. CASE job' = [job EXCEPT ![s] = Queue!Thrown(job[s], w)]
  <2> DEFINE k == Queue!Thrown(job[s], w)
  <2>1. k.stalled = job[s].stalled
        /\ (k # job[s] => job[s].holder = w /\ k.status \in {"waiting", "failed"})
    BY <1>1, JobEffects
  <2> HIDE DEF k
  <2>2. job' = [job EXCEPT ![s] = k]
    BY <1>4 DEF k
  <2> QED
    BY <1>1, <1>4, <2>1, <2>2 DEF EndJob
<1> QED
  BY <1>2, <1>3, <1>4

\* Every other step that touches a job: it is added, taken, or its lock expires.
LEMMA JobMoves ==
    ASSUME NEW reads, NEW founds, Wired(reads, founds), NEW r \in Runs,
           \/ \E q \in Requests : Enqueue(q)
           \/ \E s \in Runs : Stall(s)
    PROVE  /\ UNCHANGED <<run, slot>>
           /\ job'[r] # job[r] =>
                \/ job[r].status = "none" /\ job'[r].status = "waiting" /\ job'[r].stalled = job[r].stalled
                \/ job'[r].stalled # 0 /\ job'[r].status \in {"waiting", "failed"}
<1>1. job \in [Runs -> JobRecords]
  BY DEF Wired, JobsTyped
<1>2. ASSUME NEW q \in Requests, Enqueue(q)
      PROVE  /\ UNCHANGED <<run, slot>>
             /\ job'[r] # job[r] => job[r].status = "none" /\ job'[r].status = "waiting"
                                   /\ job'[r].stalled = job[r].stalled
  <2> DEFINE s == request[q].run
             k == Queue!Added(job[s])
  <2>1. s \in Runs
    BY <1>2 DEF Enqueue, Wired, RequestsWired
  <2>2. k.stalled = job[s].stalled /\ (k # job[s] => job[s].status = "none" /\ k.status = "waiting")
    BY <1>1, <2>1 DEF JobRecords, Queue!Added
  <2>3. job' = [job EXCEPT ![s] = k] /\ UNCHANGED <<run, slot>>
    BY <1>2 DEF Enqueue, Queue!Add
  <2> HIDE DEF k, s
  <2> QED
    BY <1>1, <2>1, <2>2, <2>3
<1>3. ASSUME NEW s \in Runs, Stall(s)
      PROVE  /\ UNCHANGED <<run, slot>>
             /\ job'[r] # job[r] => job'[r].stalled # 0 /\ job'[r].status \in {"waiting", "failed"}
  <2> DEFINE k == Queue!Recovered(job[s])
  <2>1. k.stalled # 0 /\ k.status \in {"waiting", "failed"}
    BY <1>1 DEF JobRecords, Queue!Recovered
  <2>2. job' = [job EXCEPT ![s] = k] /\ UNCHANGED <<run, slot>>
    BY <1>3 DEF Stall, Queue!Stall
  <2> HIDE DEF k
  <2> QED
    BY <1>1, <2>1, <2>2
<1> QED
  BY <1>2, <1>3

LEMMA TakeJobEffect ==
    ASSUME NEW reads, NEW founds, Wired(reads, founds), NEW w \in Slots, NEW s \in Runs,
           TakeJob(w, s), NEW r \in Runs
    PROVE  /\ UNCHANGED run /\ slot[w].pc = "idle"
           /\ r # s => job'[r] = job[r]
           /\ job[s].status = "waiting" /\ job'[s].status = "active" /\ job'[s].holder = w
           /\ job'[s].stalled = job[s].stalled
<1> DEFINE k == Queue!Taken(job[s], w)
<1>1. job \in [Runs -> JobRecords] /\ job[s] \in JobRecords
  BY DEF Wired, JobsTyped
<1>2. k.stalled = job[s].stalled /\ k.status = "active" /\ k.holder = w
  BY <1>1, JobEffects
<1>3. job' = [job EXCEPT ![s] = k] /\ job[s].status = "waiting"
  BY DEF TakeJob, Queue!Take
<1> HIDE DEF k
<1> QED
  BY <1>1, <1>2, <1>3 DEF TakeJob

LEMMA TakenSlot ==
    ASSUME NEW w \in Slots, NEW s \in Runs, TakeJob(w, s)
    PROVE  \E new : /\ slot' = [slot EXCEPT ![w] = new] /\ new.run = s
                    /\ new.pc = "end" => run[s].status \in Ended
<1> DEFINE new == [Idle EXCEPT !.pc = IF run[s].status \in Ended THEN "end" ELSE "mark",
                               !.run = s, !.made = job[s].made]
<1>1. slot' = [slot EXCEPT ![w] = new]
  BY DEF TakeJob
<1>2. new.run = s /\ (new.pc = "end" => run[s].status \in Ended)
  BY DEF Idle
<1> HIDE DEF new
<1> QED
  BY <1>1, <1>2

\* A lock that was lost stays lost.
LEMMA StallsStay ==
    ASSUME NEW reads, NEW founds, Wired(reads, founds), WorkStep, NEW r \in Runs,
           job'[r].stalled = 0
    PROVE  job[r].stalled = 0
<1>1. ASSUME NEW w \in Slots, EndJob(w)
      PROVE  job[r].stalled = 0
  BY <1>1, EndJobEffect
<1>2. ASSUME NEW w \in Slots, NEW s \in Runs, TakeJob(w, s)
      PROVE  job[r].stalled = 0
  BY <1>2, TakeJobEffect
<1>3. CASE (\E q \in Requests : Enqueue(q)) \/ (\E s \in Runs : Stall(s))
  BY <1>3, JobMoves
<1> QED
  BY <1>1, <1>2, <1>3 DEF WorkStep, SlotGoesOn, Crash

LEMMA HeldKept ==
    ASSUME NEW reads, NEW founds, Wired(reads, founds), AllHeld, WorkStep
    PROVE  AllHeld'
<1> SUFFICES ASSUME NEW r \in Runs, job'[r].stalled = 0, NEW v \in Slots, AtWork(v, r)'
             PROVE  job'[r].status = "active" /\ job'[r].holder = v
  BY DEF AllHeld, Held
<1> USE DEF AtWork
<1>1. /\ job[r].stalled = 0 /\ slot \in [Slots -> SlotTypes(founds)]
      /\ \A u \in Slots : AtWork(u, r) => job[r].status = "active" /\ job[r].holder = u
  BY StallsStay DEF Wired, SlotsWired, AllHeld, Held
<1>2. ASSUME NEW w \in Slots, EndJob(w)
      PROVE  job'[r].status = "active" /\ job'[r].holder = v
  <2>1. v # w /\ AtWork(v, r) /\ slot[w].pc # "idle"
    BY <1>1, <1>2, EndJobEffect DEF Idle
  <2>2. job'[r] = job[r]
    BY <1>1, <1>2, <2>1, EndJobEffect
  <2> QED
    BY <1>1, <2>1, <2>2
<1>3. ASSUME NEW w \in Slots, NEW s \in Runs, TakeJob(w, s)
      PROVE  job'[r].status = "active" /\ job'[r].holder = v
  <2>0. PICK new : slot' = [slot EXCEPT ![w] = new] /\ new.run = s
    BY <1>3, TakenSlot
  <2>1. CASE v = w
    <3>1. s = r
      BY <1>1, <2>1, <2>0
    <3> QED
      BY <1>3, <2>1, <3>1, TakeJobEffect
  <2>2. CASE v # w
    <3>1. AtWork(v, r) /\ job[r].status = "active"
      BY <1>1, <2>2, <2>0
    <3>2. job'[r] = job[r]
      BY <1>3, <3>1, TakeJobEffect
    <3> QED
      BY <1>1, <3>1, <3>2
  <2> QED
    BY <2>1, <2>2
<1>4. CASE (\E q \in Requests : Enqueue(q)) \/ (\E s \in Runs : Stall(s))
  BY <1>1, <1>4, JobMoves
<1>5. CASE \E w \in Slots : Crash(w)
  BY <1>1, <1>5 DEF Crash, Idle
<1>6. CASE SlotGoesOn
  BY <1>1, <1>6 DEF SlotGoesOn
<1>7. CASE UNCHANGED <<job, slot>>
  BY <1>1, <1>7
<1> QED
  BY <1>2, <1>3, <1>4, <1>5, <1>6, <1>7 DEF WorkStep

LEMMA RunSettled ==
    ASSUME NEW reads, NEW founds, Wired(reads, founds), NEW r \in Runs, Settled(r), WorkStep,
           run[r].status \in Ended => run'[r].status \in Ended
    PROVE  Settled(r)'
<1> USE DEF AtWork
<1>1. slot \in [Slots -> SlotTypes(founds)]
  BY DEF Wired, SlotsWired
<1>2. ASSUME NEW w \in Slots, EndJob(w)
      PROVE  Settled(r)'
  <2>1. job'[r].status = "completed" => run[r].status \in Ended
    BY <1>2, EndJobEffect DEF Settled
  <2> QED
    BY <1>1, <1>2, <2>1, EndJobEffect DEF Settled, Idle
<1>3. ASSUME NEW w \in Slots, NEW s \in Runs, TakeJob(w, s)
      PROVE  Settled(r)'
  <2>1. PICK new : /\ slot' = [slot EXCEPT ![w] = new] /\ new.run = s
                   /\ new.pc = "end" => run[s].status \in Ended
    BY <1>3, TakenSlot
  <2>2. job'[r].status = "completed" => run'[r].status \in Ended
    BY <1>3, TakeJobEffect DEF Settled
  <2>3. \A v \in Slots : AtWork(v, r)' /\ slot'[v].pc = "end" => run'[r].status \in Ended
    BY <1>1, <1>3, <2>1, TakeJobEffect DEF Settled
  <2> QED
    BY <2>2, <2>3 DEF Settled
<1>4. CASE (\E q \in Requests : Enqueue(q)) \/ (\E s \in Runs : Stall(s))
  BY <1>1, <1>4, JobMoves DEF Settled
<1>5. CASE \E w \in Slots : Crash(w)
  BY <1>1, <1>5 DEF Crash, Idle, Settled
<1>6. CASE SlotGoesOn
  BY <1>1, <1>6 DEF SlotGoesOn, Settled
<1>7. CASE UNCHANGED <<job, slot>>
  BY <1>1, <1>7 DEF Settled
<1> QED
  BY <1>2, <1>3, <1>4, <1>5, <1>6, <1>7 DEF WorkStep

\* The variant that claims the run.
LEMMA SettledKept ==
    ASSUME NEW reads, NEW founds, Wired(reads, founds), AllSettled, WorkStep, EndedKept
    PROVE  AllSettled'
BY RunSettled DEF AllSettled, EndedKept

\* The variant that marks it: the slot that does is the only one at work on the run.
LEMMA UnlessStalledKept ==
    ASSUME NEW reads, NEW founds, Wired(reads, founds), AllHeld, SettledUnlessStalled, WorkStep,
           NEW rows, run \in [Runs -> rows],
           EndedKept \/ \E w \in Slots : MarkRunning(w)
    PROVE  SettledUnlessStalled'
<1> SUFFICES ASSUME NEW r \in Runs, job'[r].stalled = 0
             PROVE  Settled(r)'
  BY DEF SettledUnlessStalled
<1>1. job[r].stalled = 0 /\ Settled(r) /\ Held(r)
  BY StallsStay DEF SettledUnlessStalled, AllHeld
<1>2. CASE run[r].status \in Ended => run'[r].status \in Ended
  BY <1>1, <1>2, RunSettled
<1>3. CASE ~(run[r].status \in Ended => run'[r].status \in Ended)
  <2>1. PICK w \in Slots : MarkRunning(w)
    BY <1>3 DEF EndedKept
  <2>2. slot[w].run = r /\ slot[w].pc = "mark"
    BY <1>3, <2>1 DEF MarkRunning
  <2>3. /\ slot \in [Slots -> SlotTypes(founds)] /\ job' = job
        /\ \E pc \in {"generate", "throw"} : slot' = [slot EXCEPT ![w].pc = pc]
    BY <2>1 DEF MarkRunning, Goto, Wired, SlotsWired
  <2>4. job[r].status = "active" /\ \A v \in Slots : AtWork(v, r) => v = w
    BY <1>1, <2>2 DEF Held, AtWork
  <2>5. \A v \in Slots : AtWork(v, r)' => v = w
    BY <2>3, <2>4 DEF AtWork
  <2>6. slot'[w].pc # "end"
    BY <2>3
  <2> QED
    BY <2>3, <2>4, <2>5, <2>6 DEF Settled
<1> QED
  BY <1>2, <1>3

-----------------------------------------------------------------------------
(* The steps of AnalysisRun are steps at work.                             *)

RunsAreRows ==
    /\ DOMAIN run = Runs
    /\ \A r \in Runs :
         /\ "status" \in DOMAIN run[r]
         /\ run[r].status \in {"none", "DRAFT", "RUNNING", "COMPLETED", "FAILED"}

LEMMA GoesOn ==
    ASSUME NEW reads, NEW founds, Wired(reads, founds), NEW w \in Slots, slot[w].pc # "idle",
           NEW pc \in {"generate", "persist", "fail", "throw", "end"}, Goto(w, pc), UNCHANGED job,
           pc = "end" => run'[slot[w].run].status \in Ended
    PROVE  WorkStep
<1> DEFINE new == [slot[w] EXCEPT !.pc = pc]
<1>1. slot[w] \in SlotTypes(founds)
  BY DEF Wired, SlotsWired
<1>2. new.pc = pc /\ new.run = slot[w].run
  BY <1>1 DEF SlotTypes
<1>3. slot' = [slot EXCEPT ![w] = new]
  BY DEF Goto
<1> HIDE DEF new
<1> QED
  BY <1>2, <1>3 DEF WorkStep, SlotGoesOn

LEMMA RequestsAtWork ==
    ASSUME RunsAreRows, UNCHANGED slot,
           NEW q \in Requests,
           \/ (\E row : row.status = "DRAFT" /\ Create(q, row)) /\ UNCHANGED job
           \/ Enqueue(q) \/ UNCHANGED <<run, job>>
    PROVE  WorkStep /\ EndedKept
<1>1. ASSUME NEW row, Create(q, row)
      PROVE  EndedKept
  BY <1>1 DEF Create, IsNext, RunsAreRows, EndedKept, Ended
<1> QED
  BY <1>1 DEF WorkStep, EndedKept, Enqueue

LEMMA FailedRequest ==
    ASSUME NEW reads, NEW founds, Wired(reads, founds), RunsAreRows, NEW q \in Requests,
           EnqueueFails(q)
    PROVE  WorkStep /\ EndedKept
<1>1. request[q].run \in Runs
  BY DEF Wired, RequestsWired, EnqueueFails
<1>2. EndedKept
  BY <1>1 DEF EnqueueFails, EndedKept, RunsAreRows, Ended
<1> QED
  BY <1>2 DEF WorkStep, EnqueueFails

LEMMA JobsAtWork ==
    ASSUME NEW r \in Runs,
           \/ \E w \in Slots : EndJob(w) \/ Crash(w) \/ TakeJob(w, r)
           \/ Stall(r)
    PROVE  WorkStep /\ EndedKept
BY DEF WorkStep, EndedKept, EndJob, Crash, TakeJob, Stall

LEMMA RunAtWork ==
    ASSUME NEW reads, NEW founds, Wired(reads, founds), NEW w \in Slots, slot[w].pc # "idle"
    PROVE  slot[w].run \in Runs /\ run[slot[w].run].status # "none"
BY DEF Wired, SlotsWired, JobsHaveRuns

\* A slot sets the status of its run.
LEMMA StatusSet ==
    ASSUME RunsAreRows, NEW r \in Runs, NEW status,
           run' = [run EXCEPT ![r].status = status]
    PROVE  run'[r].status = status /\ \A s \in Runs \ {r} : run'[s] = run[s]
BY DEF RunsAreRows

LEMMA SlotsAtWork ==
    ASSUME NEW reads, NEW founds, Wired(reads, founds), RunsAreRows, NEW w \in Slots
    PROVE  /\ MarkRunning(w) => WorkStep
           /\ ClaimRun(w) => WorkStep /\ EndedKept
           /\ \A statuses \in SUBSET Ended : AlreadyPersisted(w, statuses) => WorkStep /\ EndedKept
           /\ PersistFails(w) => WorkStep /\ EndedKept
           /\ FailRun(w) => WorkStep /\ EndedKept
           /\ FailUnlessCompleted(w) => WorkStep /\ EndedKept
<1> DEFINE r == slot[w].run
<1>0. slot[w].pc # "idle" => r \in Runs /\ run[r].status # "none"
  BY RunAtWork
<1>1. ASSUME MarkRunning(w)
      PROVE  WorkStep
  <2>1. slot[w].pc # "idle" /\ UNCHANGED job /\ \E pc \in {"generate", "throw"} : Goto(w, pc)
    BY <1>1 DEF MarkRunning
  <2> QED
    BY <2>1, GoesOn
<1>2. ASSUME ClaimRun(w)
      PROVE  WorkStep /\ EndedKept
  <2>1. slot[w].pc # "idle" /\ UNCHANGED job /\ r \in Runs /\ run[r].status # "none"
    BY <1>0, <1>2 DEF ClaimRun
  <2>2. CASE run[r].status \in Active
    <3>1. run' = [run EXCEPT ![r].status = "RUNNING"] /\ Goto(w, "generate")
      BY <1>2, <2>2 DEF ClaimRun
    <3>2. WorkStep
      BY <2>1, <3>1, GoesOn
    <3> QED
      BY <2>1, <2>2, <3>1, <3>2, StatusSet DEF EndedKept, Active, Ended
  <2>3. CASE run[r].status \notin Active
    <3>1. UNCHANGED run /\ Goto(w, "end")
      BY <1>2, <2>3 DEF ClaimRun
    <3>2. run[r].status \in Ended
      BY <2>1, <2>3 DEF RunsAreRows, Active, Ended
    <3>3. WorkStep
      BY <2>1, <3>1, <3>2, GoesOn
    <3> QED
      BY <3>1, <3>3 DEF EndedKept
  <2> QED
    BY <2>2, <2>3
<1>3. ASSUME NEW statuses \in SUBSET Ended, AlreadyPersisted(w, statuses)
      PROVE  WorkStep /\ EndedKept
  <2>1. slot[w].pc # "idle" /\ UNCHANGED <<run, job>> /\ Goto(w, "end") /\ run[r].status \in Ended
    BY <1>3 DEF AlreadyPersisted
  <2>2. WorkStep
    BY <2>1, GoesOn
  <2> QED
    BY <2>1, <2>2 DEF EndedKept
<1>4. ASSUME PersistFails(w)
      PROVE  WorkStep /\ EndedKept
  <2>1. slot[w].pc # "idle" /\ UNCHANGED <<run, job>> /\ Goto(w, "fail")
    BY <1>4 DEF PersistFails
  <2>2. WorkStep
    BY <2>1, GoesOn
  <2> QED
    BY <2>1, <2>2 DEF EndedKept
<1>5. ASSUME \/ FailRun(w)
             \/ FailUnlessCompleted(w)
      PROVE  WorkStep /\ EndedKept
  <2>1. /\ slot[w].pc # "idle" /\ UNCHANGED job /\ Goto(w, "end")
        /\ \E status \in Ended : run' = [run EXCEPT ![r].status = status]
    <3>1. CASE FailRun(w)
      BY <3>1 DEF FailRun, Ended
    <3>2. CASE FailUnlessCompleted(w)
      <4>1. run' = [run EXCEPT ![r].status =
                      IF run[r].status = "COMPLETED" THEN run[r].status ELSE "FAILED"]
        BY <3>2 DEF FailUnlessCompleted
      <4> QED
        BY <3>2, <4>1 DEF FailUnlessCompleted, Ended
    <3> QED
      BY <1>5, <3>1, <3>2
  <2>2. r \in Runs /\ run'[r].status \in Ended /\ \A s \in Runs \ {r} : run'[s] = run[s]
    BY <1>0, <2>1, StatusSet
  <2>3. WorkStep
    BY <2>1, <2>2, GoesOn
  <2> QED
    BY <2>2, <2>3 DEF EndedKept
<1> QED
  BY <1>1, <1>2, <1>3, <1>4, <1>5

\* The transaction of a result ends the run.
LEMMA ResultAtWork ==
    ASSUME NEW reads, NEW founds, Wired(reads, founds), RunsAreRows, NEW w \in Slots,
           slot[w].pc # "idle", UNCHANGED job, Goto(w, "end"), NEW row, row.status \in Ended,
           run' = [run EXCEPT ![slot[w].run] = row]
    PROVE  WorkStep /\ EndedKept
<1> DEFINE r == slot[w].run
<1>1. r \in Runs
  BY RunAtWork
<1>2. run'[r] = row /\ \A s \in Runs \ {r} : run'[s] = run[s]
  BY <1>1 DEF RunsAreRows
<1>3. WorkStep
  BY <1>1, <1>2, GoesOn
<1> QED
  BY <1>2, <1>3 DEF EndedKept

\* Before the first launch nobody is at work.
LEMMA NobodyAtWork ==
    ASSUME Init
    PROVE  AllHeld /\ AllSettled /\ SettledUnlessStalled
BY DEF Init, Queue!Init, Queue!NoJob, Idle, AllHeld, Held, AllSettled, SettledUnlessStalled,
   Settled, AtWork
=============================================================================
