--------------------------- MODULE NormativeDocument ---------------------------
(***************************************************************************)
(* A document of the normative repository: its versions, the pipeline that *)
(* processes them, and their review and publication.                       *)
(*                                                                         *)
(* An administrator starts the pipeline for a version.  Each start makes   *)
(* or finds a generation of stage rows and adds one job, which a slot of   *)
(* the worker runs stage by stage; a failed stage can be retried in a job  *)
(* of its own.  Every request reads the version or the stage first and     *)
(* writes without looking again, and the worker writes the status of the   *)
(* version whatever it is by then.                                         *)
(***************************************************************************)
EXTENDS Integers, Sequences, FiniteSets

CONSTANTS
    Versions,        \* the versions of the document, by versionNumber
    MaxGenerations,  \* generations of stage rows of a version
    MaxWrites,       \* bound on the starts, retries and decisions of administrators
    FirstStages,     \* stages that a start may begin with
    Requests,        \* requests of the admin API in progress at a time
    Slots,           \* slots of the worker, 2 in the code
    Attempts,        \* attempts of a pipeline job, 3 in the code; one of a retry
    MaxStalled,      \* stalls of a job that are forgiven
    None             \* no value

\* The stages that change what is seen here.
Pipeline == <<"text_extraction", "structure_detection", "chunking", "quality_checks">>

Stages == 1..Len(Pipeline)
Generations == 1..MaxGenerations

\* jobId: document:version:generation, or retry:stage:attempt.  The attempt of a stage
\* that has failed again is another; here a stage is retried once.
PipelineIds == Versions \X Generations
RetryIds == Versions \X Generations \X Stages
JobIds == PipelineIds \cup RetryIds

\* The provisions that one structure detection makes, by an id: enough for a fresh one.
Structures == 1..(Cardinality(Slots) + 1)

\* Chunks whose provisions are gone: onDelete: SetNull leaves them without a provision.
Unlinked == 0

\* Versions are numbered from 1; generation 1 is that of the starts, the others those of
\* forced ones.
ASSUME NormativeAssumption ==
    /\ Versions = 1..Cardinality(Versions) /\ IsFiniteSet(Versions) /\ IsFiniteSet(Slots)
    /\ MaxGenerations \in Nat \ {0, 1} /\ MaxWrites \in Nat
    /\ FirstStages \subseteq Stages
    /\ None \notin Versions \cup Structures \cup {Unlinked}

VARIABLES
    document,  \* its status and its current version
    version,   \* of each version, its status, content, and what publication left
    stage,     \* the stage rows of each version and generation
    job,       \* the jobs that were added
    request,   \* what a request has read
    slot,      \* what a slot of the worker is at
    writes     \* starts, retries and decisions of administrators so far

vars == <<document, version, stage, job, request, slot, writes>>

Queue == INSTANCE WorkQueue WITH Jobs <- JobIds
RetryQueue == INSTANCE WorkQueue WITH Jobs <- JobIds, Attempts <- 1

NoVersion == [status |-> "none", file |-> FALSE, validated |-> FALSE,
              provisions |-> None, chunks |-> None,
              expired |-> FALSE, replaced |-> None, extraction |-> None]
Free == [pc |-> "idle", v |-> None, id |-> None, stages |-> <<>>, current |-> None]
Idle == [pc |-> "idle", job |-> None, at |-> 1, read |-> None, missed |-> FALSE]

VersionOf(id) == id[1]

\* A job of the queue, with the stages it is to run.
JobWith(j, stages) ==
    [status |-> j.status, made |-> j.made, stalled |-> j.stalled, holder |-> j.holder,
     stages |-> stages]

NothingDone ==
    /\ document = [status |-> "DRAFT", current |-> None]
    /\ version = [v \in Versions |-> NoVersion]
    /\ stage = [v \in Versions |-> [g \in Generations |-> [t \in Stages |-> "none"]]]
    /\ job = <<>>

\* Versions up to n have been processed, after a pipeline that failed at some stage and
\* a forced one that did not; all but perhaps the last have been published.
Processed(n, status, failed) ==
    /\ document = [status |-> IF n > 1 THEN "PUBLISHED" ELSE status,
                   current |-> IF status = "PUBLISHED" THEN n ELSE IF n > 1 THEN n - 1 ELSE None]
    /\ version = [v \in Versions |-> IF v > n THEN NoVersion ELSE
         [status |-> IF v = n THEN status ELSE "PUBLISHED", file |-> TRUE,
          validated |-> v < n \/ status = "PUBLISHED", provisions |-> 1, chunks |-> 1,
          expired |-> v + 1 < n \/ (v + 1 = n /\ status = "PUBLISHED"),
          replaced |-> IF v > 1 /\ (v < n \/ status = "PUBLISHED") THEN v - 1 ELSE None,
          extraction |-> 2]]
    /\ stage = [v \in Versions |-> [g \in Generations |-> [t \in Stages |->
         IF v > n \/ g > 2 THEN "none"
         ELSE IF g = 2 \/ t < failed THEN "COMPLETED"
         ELSE IF t = failed THEN "FAILED" ELSE "PENDING"]]]
    /\ job = [id \in (1..n) \X {1, 2} |->
         JobWith([Queue!NoJob EXCEPT !.status = IF id[2] = 1 THEN "failed" ELSE "completed",
                                     !.made = 1], [t \in Stages |-> t])]

Init ==
    /\ \/ NothingDone
       \/ \E n \in Versions, status \in {"REVIEW_REQUIRED", "PUBLISHED"}, failed \in Stages :
            Processed(n, status, failed)
    /\ request = [q \in Requests |-> Free]
    /\ slot = [w \in Slots |-> Idle]
    /\ writes = 0

\* documentId with currentVersionId: null.
StatusUnlessPublished(status) ==
    document' = [document EXCEPT !.status = IF document.current = None THEN status ELSE @]

Write == writes < MaxWrites /\ writes' = writes + 1

-----------------------------------------------------------------------------
(* The admin API.                                                          *)

CreateVersion(v) ==
    /\ document.status # "ARCHIVED"
    /\ version[v].status = "none" /\ \A u \in Versions : u < v => version[u].status # "none"
    /\ version' = [version EXCEPT ![v] = [NoVersion EXCEPT !.status = "UPLOADED"]]
    /\ StatusUnlessPublished("UPLOADED")
    /\ UNCHANGED <<stage, job, request, slot, writes>>

ConfirmUpload(v) ==
    /\ version[v].status = "UPLOADED" /\ ~version[v].file
    /\ version' = [version EXCEPT ![v].file = TRUE]
    /\ UNCHANGED <<document, stage, job, request, slot, writes>>

\* What a request reads, and what the state machine allows it to go on with.
ReadFor(q, read) ==
    /\ request[q].pc = "idle"
    /\ request' = [request EXCEPT ![q] = read]
    /\ UNCHANGED <<document, version, stage, job, slot, writes>>

StartRead(q, v) ==
    /\ version[v].status \in {"UPLOADED", "PROCESSING_FAILED", "REVIEW_REQUIRED"}
    /\ version[v].file
    /\ ReadFor(q, [Free EXCEPT !.pc = "start", !.v = v])

Unused(v, g) == \A t \in Stages : stage[v][g][t] = "none"
IsNew(v, g) == Unused(v, g) /\ \A h \in 2..(g - 1) : ~Unused(v, h)

\* The two transactions of a start, the stage rows and the status, are one step here.
\* A forced start makes a new generation; the other finds generation 1 or makes it,
\* and leaves the rows that it finds as they are.
StartCommit(q, g, first) ==
    LET v == request[q].v
        taken == {t \in Stages : t >= first}
        made == {t \in taken : stage[v][g][t] = "none"} IN
    /\ request[q].pc = "start"
    /\ g = 1 \/ IsNew(v, g)
    /\ stage' = [stage EXCEPT ![v][g] =
         [t \in Stages |-> IF t \in made THEN "PENDING" ELSE @[t]]]
    /\ version' = [version EXCEPT ![v].status = "PROCESSING",
                                  ![v].extraction = IF 1 \in made THEN g ELSE @]
    /\ StatusUnlessPublished("PROCESSING")
    /\ request' = [request EXCEPT ![q].pc = "enqueue", ![q].id = <<v, g>>,
         ![q].stages = [i \in 1..Cardinality(taken) |-> first + i - 1]]
    /\ Write
    /\ UNCHANGED <<job, slot>>

RetryRead(q, v, g, t) ==
    /\ stage[v][g][t] = "FAILED" /\ <<v, g, t>> \notin DOMAIN job
    /\ ReadFor(q, [Free EXCEPT !.pc = "retry", !.v = v, !.stages = <<t>>, !.id = <<v, g, t>>])

RetryCommit(q) ==
    LET id == request[q].id IN
    /\ request[q].pc = "retry"
    /\ stage' = [stage EXCEPT ![id[1]][id[2]][id[3]] = "PENDING"]
    /\ request' = [request EXCEPT ![q].pc = "enqueue"]
    /\ Write
    /\ UNCHANGED <<document, version, job, slot>>

\* queue.add: a job whose id is known already, be it over, is not added.
Enqueue(q) ==
    LET id == request[q].id IN
    /\ request[q].pc = "enqueue"
    /\ job' = [i \in DOMAIN job \cup {id} |->
                 IF i \in DOMAIN job THEN job[i]
                 ELSE JobWith(Queue!Added(Queue!NoJob), request[q].stages)]
    /\ request' = [request EXCEPT ![q] = Free]
    /\ UNCHANGED <<document, version, stage, slot, writes>>

\* The checklist; what it asks of people is met or the request is refused.
ValidateRead(q, v) ==
    LET g == version[v].extraction IN
    /\ version[v].status = "REVIEW_REQUIRED"
    /\ version[v].provisions # None
    /\ g # None /\ stage[v][g][1] = "COMPLETED"
    /\ ReadFor(q, [Free EXCEPT !.pc = "validate", !.v = v])

ValidateCommit(q) ==
    LET v == request[q].v IN
    /\ request[q].pc = "validate"
    /\ version' = [version EXCEPT ![v].status = "VALIDATED", ![v].validated = TRUE]
    /\ StatusUnlessPublished("VALIDATED")
    /\ request' = [request EXCEPT ![q] = Free]
    /\ Write
    /\ UNCHANGED <<stage, job, slot>>

\* Mutant of PublishRead: a version under review is published as well.
PublishReadUnchecked(q, v) ==
    /\ version[v].status \in {"VALIDATED", "REVIEW_REQUIRED"}
    /\ ReadFor(q, [Free EXCEPT !.pc = "publish", !.v = v])

PublishRead(q, v) ==
    /\ version[v].status = "VALIDATED"
    /\ ReadFor(q, [Free EXCEPT !.pc = "publish", !.v = v])

\* The transaction reads the document first, without a lock.
PublishBegin(q) ==
    /\ request[q].pc = "publish"
    /\ request' = [request EXCEPT ![q].pc = "switch", ![q].current = document.current]
    /\ UNCHANGED <<document, version, stage, job, slot, writes>>

PublishCommit(q) ==
    LET v == request[q].v
        u == request[q].current IN
    /\ request[q].pc = "switch"
    /\ version' = [x \in Versions |->
         IF x = v THEN [version[v] EXCEPT !.status = "PUBLISHED",
                          !.replaced = IF @ = None /\ u # v THEN u ELSE @]
         ELSE IF x = u THEN [version[u] EXCEPT !.expired = TRUE]
         ELSE version[x]]
    /\ document' = [status |-> "PUBLISHED", current |-> v]
    /\ request' = [request EXCEPT ![q] = Free]
    /\ Write
    /\ UNCHANGED <<stage, job, slot>>

ArchiveRead(q) ==
    /\ document.status \notin {"PROCESSING", "ARCHIVED"}
    /\ ReadFor(q, [Free EXCEPT !.pc = "archive"])

\* Mutant of ArchiveCommit: the current version takes the status of the document.
ArchiveVersion(q) ==
    /\ request[q].pc = "archive"
    /\ document' = [status |-> "ARCHIVED", current |-> None]
    /\ version' = [v \in Versions |->
         IF v = document.current THEN [version[v] EXCEPT !.status = "ARCHIVED"] ELSE version[v]]
    /\ request' = [request EXCEPT ![q] = Free]
    /\ Write
    /\ UNCHANGED <<stage, job, slot>>

ArchiveCommit(q) ==
    /\ request[q].pc = "archive"
    /\ document' = [status |-> "ARCHIVED", current |-> None]
    /\ request' = [request EXCEPT ![q] = Free]
    /\ Write
    /\ UNCHANGED <<version, stage, job, slot>>

\* The request is refused, or its process dies.
RequestEnds(q) ==
    /\ request[q].pc # "idle"
    /\ request' = [request EXCEPT ![q] = Free]
    /\ UNCHANGED <<document, version, stage, job, slot, writes>>

-----------------------------------------------------------------------------
(* The worker.                                                             *)

SetJob(id, record) == job' = [job EXCEPT ![id] = record]

Goto(w, pc) == slot' = [slot EXCEPT ![w].pc = pc]

TakeJob(w, id) ==
    /\ slot[w].pc = "idle"
    /\ id \in DOMAIN job /\ job[id].status = "waiting"
    /\ SetJob(id, Queue!Taken(job[id], w))
    /\ slot' = [slot EXCEPT ![w] = [Idle EXCEPT !.pc = "next", !.job = id]]
    /\ UNCHANGED <<document, version, stage, request, writes>>

\* The stage that slot w is at.
Current(w) == job[slot[w].job].stages[slot[w].at]
StageRow(w) == stage[VersionOf(slot[w].job)][slot[w].job[2]][Current(w)]

SetStage(w, status) ==
    stage' = [stage EXCEPT ![VersionOf(slot[w].job)][slot[w].job[2]][Current(w)] = status]

\* A stage that is completed is skipped.
NextStage(w) ==
    /\ slot[w].pc = "next" /\ slot[w].at <= Len(job[slot[w].job].stages)
    /\ IF StageRow(w) = "COMPLETED"
       THEN slot' = [slot EXCEPT ![w].at = @ + 1] /\ UNCHANGED stage
       ELSE /\ SetStage(w, "RUNNING") /\ Goto(w, "run")
    /\ UNCHANGED <<document, version, job, request, writes>>

Reviewable(v) == version[v].provisions # None /\ version[v].chunks # None

\* Stages that write nothing that is seen here.
RunStage(w) ==
    /\ slot[w].pc = "run"
    /\ \/ Pipeline[Current(w)] = "text_extraction"
       \/ Pipeline[Current(w)] = "quality_checks" /\ Reviewable(VersionOf(slot[w].job))
    /\ SetStage(w, "COMPLETED")
    /\ slot' = [slot EXCEPT ![w].pc = "next", ![w].at = @ + 1]
    /\ UNCHANGED <<document, version, job, request, writes>>

\* "Processing produced no reviewable structure or chunks".
QualityFails(w) ==
    /\ slot[w].pc = "run" /\ Pipeline[Current(w)] = "quality_checks"
    /\ ~Reviewable(VersionOf(slot[w].job))
    /\ Goto(w, "fail")
    /\ UNCHANGED <<document, version, stage, job, request, writes>>

-----------------------------------------------------------------------------
(* The transactions of structure detection and chunking, at READ COMMITTED *)
(* and without a lock: a delete statement takes the rows that were         *)
(* committed when it began.  Where it waits for a row that another         *)
(* transaction holds, that only rules out orders that are followed here.   *)

\* A transaction of slot w that has begun to delete the chunks of version v.
Deleting(w, v) == slot[w].pc \in {"detect", "write"} /\ VersionOf(slot[w].job) = v

\* The chunks that were committed since the delete statement of slot w began.
Leftover(w) == IF slot[w].missed THEN version[VersionOf(slot[w].job)].chunks ELSE None

DeleteBegins(w, before, after) ==
    /\ slot[w].pc = before
    /\ slot' = [slot EXCEPT ![w].pc = after, ![w].missed = FALSE]
    /\ UNCHANGED <<document, version, stage, job, request, writes>>

DetectStructure(w) ==
    /\ slot[w].pc = "run" /\ Pipeline[Current(w)] = "structure_detection"
    /\ DeleteBegins(w, "run", "detect")

InUse(v) == {version[v].provisions} \cup {slot[w].read : w \in Slots}

\* The former provisions are deleted, and the chunks that the first statement left lose
\* theirs; the new sections and provisions are made.  If another detection commits
\* between these statements, the unique order of its rows makes this one fail.
ReplaceStructure(w) ==
    LET v == VersionOf(slot[w].job)
        new == CHOOSE p \in Structures : p \notin InUse(v) IN
    /\ slot[w].pc = "detect"
    /\ version' = [version EXCEPT ![v].provisions = new,
                     ![v].chunks = IF Leftover(w) = None THEN None ELSE Unlinked]
    /\ slot' = [slot EXCEPT ![w].pc = "done", ![w].missed = FALSE]
    /\ UNCHANGED <<document, stage, job, request, writes>>

ReadProvisions(w) ==
    /\ slot[w].pc = "run" /\ Pipeline[Current(w)] = "chunking"
    /\ slot' = [slot EXCEPT ![w].pc = "chunk",
                            ![w].read = version[VersionOf(slot[w].job)].provisions]
    /\ UNCHANGED <<document, version, stage, job, request, writes>>

DeleteChunks(w) == DeleteBegins(w, "chunk", "write")

\* The chunks are committed.  The other transactions that are past their delete statement
\* will not delete them.
ChunksCommitted(w) ==
    LET v == VersionOf(slot[w].job)
        read == slot[w].read IN
    /\ version' = [version EXCEPT ![v].chunks = IF read = None THEN Leftover(w) ELSE read]
    /\ slot' = [u \in Slots |->
         IF u = w THEN [slot[w] EXCEPT !.pc = "done", !.read = None, !.missed = FALSE]
         ELSE [slot[u] EXCEPT !.missed = @ \/ (read # None /\ Deleting(u, v))]]
    /\ UNCHANGED <<document, stage, job, request, writes>>

\* Mutant of WriteChunks: no foreign key from a chunk to its provision.
WriteChunksUnreferenced(w) ==
    /\ slot[w].pc = "write"
    /\ slot[w].read = None \/ Leftover(w) = None
    /\ ChunksCommitted(w)

\* A chunk references its provision, and the index of a chunk is unique.
WriteChunks(w) ==
    /\ slot[w].pc = "write"
    /\ \/ slot[w].read = None
       \/ slot[w].read = version[VersionOf(slot[w].job)].provisions /\ Leftover(w) = None
    /\ ChunksCommitted(w)

\* The provisions are gone, or chunks of another transaction are there.
ChunksRefused(w) ==
    /\ slot[w].pc = "write" /\ slot[w].read # None
    /\ slot[w].read # version[VersionOf(slot[w].job)].provisions \/ Leftover(w) # None
    /\ slot' = [slot EXCEPT ![w].pc = "fail", ![w].read = None, ![w].missed = FALSE]
    /\ UNCHANGED <<document, version, stage, job, request, writes>>

-----------------------------------------------------------------------------
FinishStage(w) ==
    /\ slot[w].pc = "done"
    /\ SetStage(w, "COMPLETED")
    /\ slot' = [slot EXCEPT ![w].pc = "next", ![w].at = @ + 1]
    /\ UNCHANGED <<document, version, job, request, writes>>

\* After its last stage a job, be it the retry of one, sends the version to review.
RequireReview(w) ==
    /\ slot[w].pc = "next" /\ slot[w].at > Len(job[slot[w].job].stages)
    /\ version' = [version EXCEPT ![VersionOf(slot[w].job)].status = "REVIEW_REQUIRED"]
    /\ StatusUnlessPublished("REVIEW_REQUIRED")
    /\ Goto(w, "end")
    /\ UNCHANGED <<stage, job, request, writes>>

\* A provider, the storage or the database fails, or the database ends a transaction.
StageFails(w) ==
    /\ slot[w].pc \in {"run", "detect", "chunk", "write"}
    /\ slot' = [slot EXCEPT ![w].pc = "fail", ![w].read = None, ![w].missed = FALSE]
    /\ UNCHANGED <<document, version, stage, job, request, writes>>

\* The catch block marks a stage of its job that is RUNNING, if there still is one.
FailStage(w) ==
    LET v == VersionOf(slot[w].job)
        g == slot[w].job[2]
        running == {t \in Stages : /\ \E i \in DOMAIN job[slot[w].job].stages :
                                        job[slot[w].job].stages[i] = t
                                   /\ stage[v][g][t] = "RUNNING"} IN
    /\ slot[w].pc = "fail"
    /\ IF running = {} THEN UNCHANGED stage
       ELSE \E t \in running : stage' = [stage EXCEPT ![v][g][t] = "FAILED"]
    /\ Goto(w, "failed")
    /\ UNCHANGED <<document, version, job, request, writes>>

\* Mutant of FailVersion: the document is marked, the version is forgotten.
FailDocument(w) ==
    /\ slot[w].pc = "failed"
    /\ StatusUnlessPublished("PROCESSING_FAILED")
    /\ Goto(w, "throw")
    /\ UNCHANGED <<version, stage, job, request, writes>>

FailVersion(w) ==
    /\ slot[w].pc = "failed"
    /\ version' = [version EXCEPT ![VersionOf(slot[w].job)].status = "PROCESSING_FAILED"]
    /\ StatusUnlessPublished("PROCESSING_FAILED")
    /\ Goto(w, "throw")
    /\ UNCHANGED <<stage, job, request, writes>>

EndJob(w) ==
    LET id == slot[w].job IN
    /\ slot[w].pc \in {"end", "throw"}
    /\ SetJob(id, IF slot[w].pc = "end" THEN Queue!Completed(job[id], w)
                 ELSE IF id \in PipelineIds THEN Queue!Thrown(job[id], w)
                 ELSE RetryQueue!Thrown(job[id], w))
    /\ slot' = [slot EXCEPT ![w] = Idle]
    /\ UNCHANGED <<document, version, stage, request, writes>>

\* The worker process dies at any step; the lock of its job expires later.
Crash(w) ==
    /\ slot[w].pc # "idle"
    /\ slot' = [slot EXCEPT ![w] = Idle]
    /\ UNCHANGED <<document, version, stage, job, request, writes>>

\* A lock expires: that of a dead slot, or that of one which goes on.
Stall(id) ==
    /\ id \in DOMAIN job /\ job[id].status = "active"
    /\ SetJob(id, Queue!Recovered(job[id]))
    /\ UNCHANGED <<document, version, stage, request, slot, writes>>

-----------------------------------------------------------------------------
Proceed(w) ==
    \/ NextStage(w) \/ RunStage(w) \/ QualityFails(w)
    \/ DetectStructure(w) \/ ReplaceStructure(w)
    \/ ReadProvisions(w) \/ DeleteChunks(w) \/ WriteChunks(w) \/ ChunksRefused(w)
    \/ FinishStage(w) \/ RequireReview(w)
    \/ FailStage(w) \/ FailVersion(w) \/ EndJob(w)

Next ==
    \/ \E v \in Versions : CreateVersion(v) \/ ConfirmUpload(v)
    \/ \E q \in Requests :
         \/ \E v \in Versions :
              StartRead(q, v) \/ ValidateRead(q, v) \/ PublishRead(q, v)
         \/ \E v \in Versions, g \in Generations, t \in Stages : RetryRead(q, v, g, t)
         \/ \E g \in Generations, first \in FirstStages : StartCommit(q, g, first)
         \/ RetryCommit(q) \/ Enqueue(q) \/ ValidateCommit(q)
         \/ PublishBegin(q) \/ PublishCommit(q)
         \/ ArchiveRead(q) \/ ArchiveCommit(q) \/ RequestEnds(q)
    \/ \E w \in Slots :
         \/ \E id \in DOMAIN job : TakeJob(w, id)
         \/ Proceed(w) \/ StageFails(w) \/ Crash(w)
    \/ \E id \in DOMAIN job : Stall(id)

Spec == Init /\ [][Next]_vars

\* A live slot goes on, waiting jobs are taken, the lock of an abandoned job expires,
\* and a request that has committed enqueues unless its process dies.
Fairness ==
    /\ \A q \in Requests : WF_vars(Enqueue(q))
    /\ \A w \in Slots : WF_vars(Proceed(w))
    /\ \A id \in PipelineIds :
         /\ WF_vars(\E w \in Slots : id \in DOMAIN job /\ TakeJob(w, id))
         /\ WF_vars((\A w \in Slots : slot[w].job # id) /\ Stall(id))

FairSpec == Spec /\ Fairness

-----------------------------------------------------------------------------
Statuses == {"none", "UPLOADED", "PROCESSING", "PROCESSING_FAILED", "REVIEW_REQUIRED",
             "VALIDATED", "PUBLISHED"}
StageStatuses == {"none", "PENDING", "RUNNING", "COMPLETED", "FAILED"}

TypeOK ==
    /\ document.status \in (Statuses \ {"none"}) \cup {"DRAFT", "ARCHIVED"}
    /\ document.current \in Versions \cup {None}
    /\ version \in [Versions ->
         [status : Statuses, file : BOOLEAN, validated : BOOLEAN, expired : BOOLEAN,
          provisions : Structures \cup {None}, chunks : Structures \cup {None, Unlinked},
          replaced : Versions \cup {None}, extraction : Generations \cup {None}]]
    /\ stage \in [Versions -> [Generations -> [Stages -> StageStatuses]]]
    /\ DOMAIN job \subseteq JobIds
    /\ \A w \in Slots : slot[w].job # None => slot[w].job \in DOMAIN job
    /\ writes \in 0..MaxWrites

\* Search returns the chunks that still have their provision.  These are the chunks of the
\* present structure, although jobs of several generations, retries, and slots that lost
\* their lock delete and write chunks and provisions in transactions that overlap.  (The
\* chunks that a detection does not see stay beside the new structure, unlinked.)
ChunksOfStructure ==
    \A v \in Versions : version[v].chunks \in {None, Unlinked, version[v].provisions}

\* Whatever publications, validations and processings overlap: what is published has been
\* validated, also if it was processed again meanwhile; and a document is published
\* exactly as long as it has a current version.
PublicationValidated ==
    /\ \A v \in Versions : version[v].status = "PUBLISHED" => version[v].validated
    /\ document.current # None => version[document.current].validated
    /\ document.current # None <=> document.status = "PUBLISHED"

\* "keeps published content immutable except for archival"
PublishedImmutable ==
    [][\A v \in Versions :
         version[v].status = "PUBLISHED" =>
           /\ version'[v].status = "PUBLISHED"
           /\ version'[v].provisions = version[v].provisions
           /\ version'[v].chunks = version[v].chunks]_vars

\* The queue has given up the job after lost locks, without a call of the processor.
GivenUp(id) == id \in DOMAIN job /\ job[id].status = "failed" /\ job[id].stalled > MaxStalled

\* A version does not stay in processing while a job waits for it: failures, crashes and
\* lost locks end in review or in a failure that can be restarted, or the queue gave up
\* the job.  (A start whose job id is used up is not served by any job.)
ProcessingEnds ==
    \A id \in PipelineIds :
      (id \in DOMAIN job /\ job[id].status = "waiting") ~>
        (version[VersionOf(id)].status # "PROCESSING" \/ GivenUp(id))
=============================================================================
