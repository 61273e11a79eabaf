-------------------------- MODULE RegulatoryWatch --------------------------
(***************************************************************************)
(* The regulatory watch of one project: analyses, the review of their      *)
(* candidate laws, and the published register (a chain of baselines).      *)
(*                                                                         *)
(* Three programs write the same rows: the API (start, decide, publish,    *)
(* edit of the profile), the analysis worker, and the impact worker that   *)
(* reacts to a new version of a source document.  The API claims the       *)
(* watch by its revision; the workers do not.                              *)
(*                                                                         *)
(* One action is one query or transaction.  What a request or a worker     *)
(* read before it is remembered in "request" and "worker".  A baseline is  *)
(* named by the run that published it (analysis_run_id is unique).         *)
(*                                                                         *)
(* The queue is WorkQueue: a slot that lost the lock of its job goes on    *)
(* beside the slot that is given the job next, and both write to the run   *)
(* and its candidates by the id of the run alone.                          *)
(***************************************************************************)
EXTENDS Integers, FiniteSets

CONSTANTS
    MaxRuns,      \* bound on the analysis runs of the watch
    Laws,         \* laws that discovery can propose
    Requests,     \* API requests in progress at a time
    Workers,      \* slots of the analysis worker (concurrency 2)
    Events,       \* published document versions that reach the watch
    AutoModes,    \* values of REGULATORY_AUTO_APPLICABLE over the deployments
    Attempts,     \* attempts of an analysis job: 5 from the API, 3 from the worker
    MaxStalled,   \* BullMQ's maxStalledCount, 1 by default
    MaxRevision,  \* bound on the revision of the watch
    None          \* no value

Runs == 1..MaxRuns

\* The deliveries of a job, and the candidate rows of a run: the delivery that
\* created a row, and its law.  Nothing keeps two deliveries from creating a row
\* for one law (the unique index does not see rows without a provision).
Deliveries == 1..(Attempts + MaxStalled)
Keys == Deliveries \X Laws
Law(row) == row[2]

ASSUME BoundsAssumption == MaxRuns \in Nat /\ MaxRevision \in Nat
ASSUME DeliveryAssumption == Attempts \in Nat \ {0} /\ MaxStalled \in Nat
ASSUME AutoAssumption == AutoModes \subseteq BOOLEAN
ASSUME NoneAssumption == None \notin Runs \cup Workers \cup Events /\ None # "HUMAN"

VARIABLES
    watch,      \* project_regulatory_watches: revision, status, current baseline
    run,        \* regulatory_analysis_runs
    candidate,  \* regulatory_applicability_candidates of each run
    baseline,   \* regulatory_baselines, by the run that published them
    profile,    \* status of the project profile
    job,        \* BullMQ: the analysis job of each run
    request,    \* what an API request read before its transaction
    worker,     \* what a slot of the analysis worker is at
    impact,     \* the impact worker's handling of each event
    overtaken   \* history: the runs of which a live slot has lost the lock

vars == <<watch, run, candidate, baseline, profile, job, request, worker, impact, overtaken>>

Queue == INSTANCE WorkQueue WITH Jobs <- Runs, Slots <- Workers

Active == {"QUEUED", "RUNNING"}
Superseded == "SUPERSEDED"
Reviewable == {"READY_FOR_REVIEW"}

Decisions == {"APPLICABLE", "NOT_APPLICABLE"}

NoRun == [status |-> "none", base |-> None, trigger |-> None, reviewed |-> FALSE]
NoBaseline == [status |-> "none", previous |-> None, sequence |-> 0,
               entries |-> {}, platform |-> FALSE]
Free == [pc |-> "idle", run |-> None, base |-> None, found |-> {}, rows |-> {},
         auto |-> FALSE, revision |-> 0]
Idle == [pc |-> "idle", run |-> None, delivery |-> 0, found |-> [l \in Laws |-> None]]
Pending == [pc |-> "pending", base |-> None, run |-> None]

Created == {r \in Runs : run[r].status # "none"}

\* analyses[0]: the run that was created last.
IsLatest(r) ==
    IF Created = {} THEN r = None ELSE r \in Created /\ \A s \in Created : s <= r

\* Runs are numbered in the order of their creation.
IsNext(r) == run[r].status = "none" /\ \A s \in Runs : s < r => s \in Created

Published == {b \in Runs : baseline[b].status # "none"}

\* The number of the next baseline.
NextSequence == Cardinality(Published) + 1

\* Mutant of Drafted: the suggestion is stored as a decision.
DraftedToConfirm(change, auto) ==
    [change |-> change, review |-> change # "UNCHANGED" /\ ~auto,
     decision |-> IF change = "ADDED" THEN "TO_CONFIRM" ELSE "APPLICABLE",
     source |-> "SYSTEM"]

\* A law of the base register is proposed again, as it was or with new content;
\* a new law is not decided, unless applicability is automatic.
Drafted(change, auto) ==
    LET open == change = "ADDED" /\ ~auto IN
    [change   |-> change,
     review   |-> change # "UNCHANGED" /\ ~auto,
     decision |-> IF open THEN None ELSE "APPLICABLE",
     source   |-> IF open THEN None ELSE "SYSTEM"]

\* What discovery can make of the laws in force: none of them is dropped.
Discoveries(laws, auto) ==
    {found \in [Laws -> {None} \cup {Drafted(change, auto) :
                  change \in {"ADDED", "UNCHANGED", "MODIFIED"}}] :
       \A l \in Laws :
         IF l \in laws THEN found[l] # None /\ found[l].change # "ADDED"
                       ELSE found[l] = None \/ found[l].change = "ADDED"}

\* automaticCandidateDecision for a discovered law: a decision that is there
\* stays, a missing one becomes applicable.
AutomaticDecision(c) == IF c.decision = None THEN "APPLICABLE" ELSE c.decision

\* The entries of the register that a publication of run r would create.
Applicable(r, auto) ==
    {Law(row) : row \in
       {c \in Keys : /\ candidate[r][c] # None
                     /\ "APPLICABLE" = IF auto THEN AutomaticDecision(candidate[r][c])
                                               ELSE candidate[r][c].decision}}

\* Mutant of Retired: the former register stays published.
RetiredNever(b) == baseline[b]

\* A publication retires the register that was in force.
Retired(b) ==
    IF baseline[b].status = "PUBLISHED" THEN [baseline[b] EXCEPT !.status = "SUPERSEDED"]
                                        ELSE baseline[b]

\* updateMany on the watch with the revision that the request remembers.
RevisionClaimed(q) == watch.revision = request[q].revision

\* Mutants of PublicationClaimed: one comparison is missing.
PublicationClaimedWithoutBase(q) == RevisionClaimed(q)
PublicationClaimedWithoutRevision(q) == watch.current = request[q].base

\* A publication also compares the baseline that its run was made against.
PublicationClaimed(q) == RevisionClaimed(q) /\ watch.current = request[q].base

\* The laws that the base baseline of run r carries over.
BaseLaws(r) == IF run[r].base = None THEN {} ELSE baseline[run[r].base].entries

FreshWatch ==
    /\ watch = [revision |-> 1, status |-> "NOT_STARTED", current |-> None]
    /\ run = [r \in Runs |-> NoRun]
    /\ baseline = [b \in Runs |-> NoBaseline]

\* A register published by the retired retrieval approach: its entries quote
\* provisions of stored documents, and no law-level run carries them over.
PlatformWatch ==
    /\ 1 \in Runs
    /\ watch = [revision |-> 1, status |-> "ACTIVE", current |-> 1]
    /\ run = [r \in Runs |-> IF r = 1 THEN [NoRun EXCEPT !.status = "COMPLETED"] ELSE NoRun]
    /\ baseline = [b \in Runs |->
         IF b = 1 THEN [NoBaseline EXCEPT !.status = "PUBLISHED", !.sequence = 1,
                                          !.platform = TRUE]
                  ELSE NoBaseline]

Init ==
    /\ FreshWatch \/ PlatformWatch
    /\ candidate = [r \in Runs |-> [row \in Keys |-> None]]
    /\ profile = "COMPLETE"
    /\ Queue!Init
    /\ request = [q \in Requests |-> Free]
    /\ worker = [w \in Workers |-> Idle]
    /\ impact = [e \in Events |-> Pending]
    /\ overtaken = {}

-----------------------------------------------------------------------------
(* The API.  Every check outside the transaction is a read of its own.     *)

\* startAnalysis up to its transaction: the profile is complete and the latest
\* run is not active; a run still under review will be superseded.
StartRead(q) ==
    /\ request[q].pc = "idle"
    /\ profile = "COMPLETE"
    /\ \E r \in Runs \cup {None} :
         /\ IsLatest(r)
         /\ r # None => run[r].status \notin Active
         /\ request' = [request EXCEPT ![q] =
              [Free EXCEPT !.pc = "start", !.base = watch.current,
                 !.run = IF r # None /\ run[r].status \in Reviewable THEN r ELSE None]]
    /\ UNCHANGED <<watch, run, candidate, baseline, profile, job, worker, impact, overtaken>>

\* The transaction of startAnalysis checks nothing again.
StartCommit(q) ==
    /\ request[q].pc = "start"
    /\ watch.revision < MaxRevision
    /\ \E r \in Runs :
         /\ IsNext(r)
         /\ run' = [s \in Runs |->
              IF s = r THEN [NoRun EXCEPT !.status = "QUEUED", !.base = request[q].base]
              ELSE IF s = request[q].run THEN [run[s] EXCEPT !.status = "SUPERSEDED"]
              ELSE run[s]]
         /\ request' = [request EXCEPT ![q] = [Free EXCEPT !.pc = "enqueue", !.run = r]]
    /\ watch' = [watch EXCEPT !.status = "ANALYZING", !.revision = @ + 1]
    /\ UNCHANGED <<candidate, baseline, profile, job, worker, impact, overtaken>>

Enqueue(q) ==
    /\ request[q].pc = "enqueue"
    /\ Queue!Add(request[q].run)
    /\ request' = [request EXCEPT ![q] = Free]
    /\ UNCHANGED <<watch, run, candidate, baseline, profile, worker, impact, overtaken>>

\* failRun: two updates, neither guarded; the first one fails the run.
EnqueueFails(q) ==
    /\ request[q].pc = "enqueue"
    /\ run' = [run EXCEPT ![request[q].run].status = "FAILED"]
    /\ request' = [request EXCEPT ![q].pc = "failWatch"]
    /\ UNCHANGED <<watch, candidate, baseline, profile, job, worker, impact, overtaken>>

FailWatch(q) ==
    /\ request[q].pc = "failWatch"
    /\ watch' = [watch EXCEPT !.status = "FAILED"]
    /\ request' = [request EXCEPT ![q] = Free]
    /\ UNCHANGED <<run, candidate, baseline, profile, job, worker, impact, overtaken>>

\* reviewAnalysis: the review row, that only a publication reads.
ReviewAnalysis(r) ==
    /\ run[r].status \in Reviewable
    /\ run' = [run EXCEPT ![r].reviewed = TRUE]
    /\ UNCHANGED <<watch, candidate, baseline, profile, job, request, worker, impact, overtaken>>

\* decideCandidate and decideCandidates up to the transaction.  The revision is
\* the one the client was shown; an older one than this is refused anyway.
DecideRead(q) ==
    /\ request[q].pc = "idle"
    /\ \E r \in Runs :
         /\ run[r].status \in Reviewable
         /\ \E rows \in SUBSET {c \in Keys : candidate[r][c] # None /\ candidate[r][c].review} :
              /\ rows # {}
              /\ request' = [request EXCEPT ![q] =
                   [Free EXCEPT !.pc = "decide", !.run = r, !.rows = rows,
                                !.revision = watch.revision]]
    /\ UNCHANGED <<watch, run, candidate, baseline, profile, job, worker, impact, overtaken>>

\* The transaction claims the watch by its revision and writes all decisions: a row
\* that an analysis has deleted meanwhile is not among those that updateMany finds.
DecideCommit(q) ==
    LET r == request[q].run IN
    /\ request[q].pc = "decide"
    /\ RevisionClaimed(q)
    /\ watch.revision < MaxRevision
    /\ \E decided \in [request[q].rows -> Decisions] :
         candidate' = [candidate EXCEPT ![r] = [row \in Keys |->
           IF row \in request[q].rows /\ @[row] # None
           THEN [@[row] EXCEPT !.decision = decided[row], !.source = "HUMAN"] ELSE @[row]]]
    /\ watch' = [watch EXCEPT !.revision = @ + 1]
    /\ request' = [request EXCEPT ![q] = Free]
    /\ UNCHANGED <<run, baseline, profile, job, worker, impact, overtaken>>

\* publishWithMode up to the transaction: a run under review, reviewed and
\* decided unless the publication is automatic, with a law to publish.
PublishRead(q) ==
    /\ request[q].pc = "idle"
    /\ \E r \in Runs : \E auto \in {a \in BOOLEAN : a => TRUE \in AutoModes} :
         /\ run[r].status \in Reviewable
         /\ ~auto => /\ run[r].reviewed
                     /\ \A c \in Keys : candidate[r][c] # None =>
                          ~(candidate[r][c].review /\ candidate[r][c].decision = None)
         /\ Applicable(r, auto) # {}
         /\ request' = [request EXCEPT ![q] =
              [pc |-> "publish", run |-> r, base |-> run[r].base, auto |-> auto,
               found |-> Applicable(r, auto), revision |-> watch.revision,
               rows |-> {c \in Keys : auto /\ candidate[r][c] # None
                                           /\ candidate[r][c].source # "HUMAN"}]]
    /\ UNCHANGED <<watch, run, candidate, baseline, profile, job, worker, impact, overtaken>>

\* The rows that the system decides are updated one by one, by their ids.
RowsLeft(q) == \A row \in request[q].rows : candidate[request[q].run][row] # None

\* The transaction: the claim compares the revision and the baseline that the
\* run was made against; the register is the one read before.
PublishCommit(q) ==
    LET r == request[q].run IN
    /\ request[q].pc = "publish"
    /\ PublicationClaimed(q)
    /\ RowsLeft(q)
    /\ watch.revision < MaxRevision
    /\ candidate' = [candidate EXCEPT ![r] = [row \in Keys |->
         IF row \in request[q].rows
         THEN [@[row] EXCEPT !.decision = "APPLICABLE", !.source = "SYSTEM", !.review = FALSE]
         ELSE @[row]]]
    /\ baseline' = [b \in Runs |->
         IF b = r THEN [status |-> "PUBLISHED", previous |-> request[q].base,
                        sequence |-> NextSequence,
                        entries |-> request[q].found, platform |-> FALSE]
         ELSE Retired(b)]
    /\ watch' = [revision |-> watch.revision + 1, status |-> "ACTIVE", current |-> r]
    /\ run' = [run EXCEPT ![r].status = "COMPLETED"]
    /\ request' = [request EXCEPT ![q] = Free]
    /\ UNCHANGED <<profile, job, worker, impact, overtaken>>

\* "Regulatory watch changed": the claim updates no row.  Or a row to update is gone.
ClaimFails(q) ==
    /\ \/ request[q].pc = "decide" /\ ~RevisionClaimed(q)
       \/ request[q].pc = "publish" /\ ~(PublicationClaimed(q) /\ RowsLeft(q))
    /\ request' = [request EXCEPT ![q] = Free]
    /\ UNCHANGED <<watch, run, candidate, baseline, profile, job, worker, impact, overtaken>>

\* The API process dies, or a query before the transaction fails: what was
\* committed stays, the rest of the request never happens.
RequestDies(q) ==
    /\ request[q].pc # "idle"
    /\ request' = [request EXCEPT ![q] = Free]
    /\ UNCHANGED <<watch, run, candidate, baseline, profile, job, worker, impact, overtaken>>

\* An edit of a complete profile makes a published register stale.  An import
\* leaves the profile complete, other edits do not.
EditProfile(next) ==
    /\ profile = "COMPLETE"
    /\ profile' = next
    /\ watch.current # None => watch.revision < MaxRevision
    /\ watch' = IF watch.current = None THEN watch
                ELSE [watch EXCEPT !.status = "STALE", !.revision = @ + 1]
    /\ UNCHANGED <<run, candidate, baseline, job, request, worker, impact, overtaken>>

CompleteProfile ==
    /\ profile = "STALE"
    /\ profile' = "COMPLETE"
    /\ UNCHANGED <<watch, run, candidate, baseline, job, request, worker, impact, overtaken>>

-----------------------------------------------------------------------------
(* The impact worker.                                                      *)

\* A new document version concerns the watch only if its current register
\* quotes a provision of the old one.
Concerned == watch.current # None /\ baseline[watch.current].platform

ImpactIgnored(e) ==
    /\ impact[e].pc = "pending"
    /\ ~Concerned
    /\ impact' = [impact EXCEPT ![e].pc = "done"]
    /\ UNCHANGED <<watch, run, candidate, baseline, profile, job, request, worker, overtaken>>

\* The profile is not complete: the watch turns stale, the event stays pending.
ImpactDeferred(e) ==
    /\ impact[e].pc = "pending"
    /\ Concerned /\ profile # "COMPLETE"
    /\ watch' = [watch EXCEPT !.status = "STALE"]
    /\ UNCHANGED <<run, candidate, baseline, profile, job, request, worker, impact, overtaken>>

ImpactRead(e) ==
    /\ impact[e].pc = "pending"
    /\ Concerned /\ profile = "COMPLETE"
    /\ impact' = [impact EXCEPT ![e] = [Pending EXCEPT !.pc = "create", !.base = watch.current]]
    /\ UNCHANGED <<watch, run, candidate, baseline, profile, job, request, worker, overtaken>>

\* The run of an event is created once (its trigger key is unique); whatever
\* else is active or under review is superseded.
ImpactCreate(e) ==
    /\ impact[e].pc = "create"
    /\ \A r \in Runs : run[r].trigger # e
    /\ watch.revision < MaxRevision
    /\ \E r \in Runs :
         /\ IsNext(r)
         /\ run' = [s \in Runs |->
              IF s = r THEN [status |-> "QUEUED", base |-> impact[e].base,
                             trigger |-> e, reviewed |-> FALSE]
              ELSE IF run[s].status \in Active \cup Reviewable
                   THEN [run[s] EXCEPT !.status = "SUPERSEDED"] ELSE run[s]]
         /\ impact' = [impact EXCEPT ![e].pc = "enqueue", ![e].run = r]
    /\ watch' = [watch EXCEPT !.status = "ANALYZING", !.revision = @ + 1]
    /\ UNCHANGED <<candidate, baseline, profile, job, request, worker, overtaken>>

ImpactFound(e) ==
    /\ impact[e].pc = "create"
    /\ \E r \in Runs :
         /\ run[r].trigger = e
         /\ impact' = [impact EXCEPT ![e].run = r,
              ![e].pc = IF run[r].status = "COMPLETED" THEN "done" ELSE "enqueue"]
    /\ UNCHANGED <<watch, run, candidate, baseline, profile, job, request, worker, overtaken>>

\* The job's id is made from the run: a second job for it is not added.
ImpactEnqueue(e) ==
    /\ impact[e].pc = "enqueue"
    /\ Queue!Add(impact[e].run)
    /\ impact' = [impact EXCEPT ![e].pc = "done"]
    /\ UNCHANGED <<watch, run, candidate, baseline, profile, request, worker, overtaken>>

\* An error or a crash: the event is tried again, or is left after the last try.
ImpactFails(e) ==
    /\ impact[e].pc \in {"create", "enqueue"}
    /\ \E pc \in {"pending", "failed"} : impact' = [impact EXCEPT ![e] = [Pending EXCEPT !.pc = pc]]
    /\ UNCHANGED <<watch, run, candidate, baseline, profile, job, request, worker, overtaken>>

-----------------------------------------------------------------------------
(* The analysis worker.                                                    *)

Goto(w, pc) == worker' = [worker EXCEPT ![w].pc = pc]

\* stillCurrent
StillCurrent(r) == run[r].status \in Active

TakeJob(w, r) ==
    /\ worker[w].pc = "idle"
    /\ Queue!Take(r, w)
    /\ worker' = [worker EXCEPT ![w] =
         [Idle EXCEPT !.pc = "load", !.run = r, !.delivery = job[r].made + job[r].stalled + 1]]
    /\ UNCHANGED <<watch, run, candidate, baseline, profile, request, impact, overtaken>>

\* Mutant of LoadRun: every delivery of the job analyses the run.
LoadRunUnchecked(w) ==
    /\ worker[w].pc = "load"
    /\ Goto(w, "mark")
    /\ UNCHANGED <<watch, run, candidate, baseline, profile, job, request, impact, overtaken>>

\* analyze: a run that is neither queued nor running is left alone.
LoadRun(w) ==
    /\ worker[w].pc = "load"
    /\ Goto(w, IF run[worker[w].run].status \in Active THEN "mark" ELSE "end")
    /\ UNCHANGED <<watch, run, candidate, baseline, profile, job, request, impact, overtaken>>

\* An update of its own, that no longer looks at the status.
MarkRunning(w) ==
    /\ worker[w].pc = "mark"
    /\ run' = [run EXCEPT ![worker[w].run].status = "RUNNING"]
    /\ Goto(w, "discover")
    /\ UNCHANGED <<watch, candidate, baseline, profile, job, request, impact, overtaken>>

\* Discovery takes minutes; then the run must still be current.
Discover(w) ==
    LET r == worker[w].run IN
    /\ worker[w].pc = "discover"
    /\ IF StillCurrent(r)
       THEN \E auto \in AutoModes : \E found \in Discoveries(BaseLaws(r), auto) :
              worker' = [worker EXCEPT ![w].found = found,
                ![w].pc = IF \A l \in Laws : found[l] = None THEN "gap" ELSE "clear"]
       ELSE Goto(w, "end")
    /\ UNCHANGED <<watch, run, candidate, baseline, profile, job, request, impact, overtaken>>

\* coverageGap: nothing found and nothing to carry over.
CoverageGap(w) ==
    /\ worker[w].pc = "gap"
    /\ run' = [run EXCEPT ![worker[w].run].status = "READY_FOR_REVIEW"]
    /\ watch' = [watch EXCEPT !.status = "REVIEW_REQUIRED"]
    /\ Goto(w, "end")
    /\ UNCHANGED <<candidate, baseline, profile, job, request, impact, overtaken>>

\* All candidates of the run are deleted, whoever persisted them and whatever was
\* decided on them; then those of this delivery are created, in two transactions.
ClearCandidates(w) ==
    /\ worker[w].pc = "clear"
    /\ candidate' = [candidate EXCEPT ![worker[w].run] = [row \in Keys |-> None]]
    /\ Goto(w, "persist")
    /\ UNCHANGED <<watch, run, baseline, profile, job, request, impact, overtaken>>

PersistCandidates(w) ==
    /\ worker[w].pc = "persist"
    /\ candidate' = [candidate EXCEPT ![worker[w].run] = [row \in Keys |->
         IF row[1] = worker[w].delivery THEN worker[w].found[Law(row)] ELSE @[row]]]
    /\ Goto(w, "check")
    /\ UNCHANGED <<watch, run, baseline, profile, job, request, impact, overtaken>>

CheckCurrent(w) ==
    /\ worker[w].pc = "check"
    /\ Goto(w, IF StillCurrent(worker[w].run) THEN "finish" ELSE "end")
    /\ UNCHANGED <<watch, run, candidate, baseline, profile, job, request, impact, overtaken>>

\* The last transaction is not guarded either.  Without a change there is
\* nothing to review and the register stays in force.
Finish(w) ==
    LET r == worker[w].run
        changed == \E l \in Laws : /\ worker[w].found[l] # None
                                   /\ worker[w].found[l].change # "UNCHANGED"
        review == run[r].base = None \/ changed IN
    /\ worker[w].pc = "finish"
    /\ run' = [run EXCEPT ![r].status = IF review THEN "READY_FOR_REVIEW" ELSE "COMPLETED"]
    /\ watch' = [watch EXCEPT !.status = IF review THEN "REVIEW_REQUIRED" ELSE "ACTIVE"]
    /\ worker' = [worker EXCEPT ![w].pc = "report", ![w].found = Idle.found]
    /\ UNCHANGED <<candidate, baseline, profile, job, request, impact, overtaken>>

\* The job's progress, written after the transaction, still inside the try block.
Report(w) ==
    /\ worker[w].pc = "report"
    /\ Goto(w, "end")
    /\ UNCHANGED <<watch, run, candidate, baseline, profile, job, request, impact, overtaken>>

\* The processor returns; the job is completed if the slot still holds its lock.
EndJob(w) ==
    /\ worker[w].pc = "end"
    /\ Queue!Complete(worker[w].run, w)
    /\ worker' = [worker EXCEPT ![w] = Idle]
    /\ UNCHANGED <<watch, run, candidate, baseline, profile, request, impact, overtaken>>

\* Any step inside the try block may throw.
Throw(w) ==
    /\ worker[w].pc \in {"load", "mark", "discover", "gap", "clear", "persist", "check",
                         "finish", "report"}
    /\ Goto(w, "catch")
    /\ UNCHANGED <<watch, run, candidate, baseline, profile, job, request, impact, overtaken>>

\* Mutant of Catch: the error is swallowed for every run.
CatchSwallows(w) ==
    /\ worker[w].pc = "catch"
    /\ Goto(w, "end")
    /\ UNCHANGED <<watch, run, candidate, baseline, profile, job, request, impact, overtaken>>

\* The catch block spares a superseded run, by a read of its own.
Catch(w) ==
    /\ worker[w].pc = "catch"
    /\ Goto(w, IF run[worker[w].run].status = Superseded THEN "end" ELSE "failRun")
    /\ UNCHANGED <<watch, run, candidate, baseline, profile, job, request, impact, overtaken>>

\* Mutant of FailRun: the watch is forgotten.
FailRunOnly(w) ==
    /\ worker[w].pc = "failRun"
    /\ run' = [run EXCEPT ![worker[w].run].status = "FAILED"]
    /\ Goto(w, "rethrow")
    /\ UNCHANGED <<watch, candidate, baseline, profile, job, request, impact, overtaken>>

\* The run fails and the watch with it; a published register turns stale.
FailRun(w) ==
    LET r == worker[w].run IN
    /\ worker[w].pc = "failRun"
    /\ run' = [run EXCEPT ![r].status = "FAILED"]
    /\ watch' = [watch EXCEPT !.status = IF run[r].base = None THEN "FAILED" ELSE "STALE"]
    /\ Goto(w, "rethrow")
    /\ UNCHANGED <<candidate, baseline, profile, job, request, impact, overtaken>>

\* The attempt has failed: the job waits for the next one, or is out of attempts.
\* The catch block itself may fail before it has written anything.
FailAttempt(w) ==
    /\ worker[w].pc \in {"rethrow", "catch", "failRun"}
    /\ Queue!Throw(worker[w].run, w)
    /\ worker' = [worker EXCEPT ![w] = Idle]
    /\ UNCHANGED <<watch, run, candidate, baseline, profile, request, impact, overtaken>>

\* The worker process dies at any step; the lock of its job expires later.
Crash(w) ==
    /\ worker[w].pc # "idle"
    /\ worker' = [worker EXCEPT ![w] = Idle]
    /\ UNCHANGED <<watch, run, candidate, baseline, profile, job, request, impact, overtaken>>

Abandoned(r) == \A w \in Workers : worker[w].run # r

\* BullMQ finds the lock of a job expired, that of a dead slot or that of a live one,
\* which goes on, and delivers the job again; a job that stalls too often is failed
\* without a call of the processor.
StallJob(r) ==
    /\ Queue!Stall(r)
    /\ overtaken' = overtaken \cup {s \in {r} : \E w \in Workers :
                                               worker[w].run = s /\ job[s].holder = w}
    /\ UNCHANGED <<watch, run, candidate, baseline, profile, request, worker, impact>>

-----------------------------------------------------------------------------
Proceed(w) ==
    \/ LoadRun(w) \/ MarkRunning(w) \/ Discover(w) \/ CoverageGap(w) \/ ClearCandidates(w)
    \/ PersistCandidates(w) \/ CheckCurrent(w) \/ Finish(w) \/ Report(w) \/ EndJob(w)
    \/ Catch(w) \/ FailRun(w) \/ FailAttempt(w)

RequestStep(q) ==
    \/ StartRead(q) \/ StartCommit(q) \/ Enqueue(q) \/ EnqueueFails(q) \/ FailWatch(q)
    \/ DecideRead(q) \/ DecideCommit(q) \/ PublishRead(q) \/ PublishCommit(q)
    \/ ClaimFails(q) \/ RequestDies(q)

ImpactStep(e) ==
    \/ ImpactIgnored(e) \/ ImpactDeferred(e) \/ ImpactRead(e) \/ ImpactCreate(e)
    \/ ImpactFound(e) \/ ImpactEnqueue(e) \/ ImpactFails(e)

Next ==
    \/ \E q \in Requests : RequestStep(q)
    \/ \E r \in Runs : ReviewAnalysis(r) \/ StallJob(r)
    \/ \E next \in {"COMPLETE", "STALE"} : EditProfile(next)
    \/ CompleteProfile
    \/ \E e \in Events : ImpactStep(e)
    \/ \E w \in Workers : (\E r \in Runs : TakeJob(w, r)) \/ Proceed(w) \/ Throw(w) \/ Crash(w)

Spec == Init /\ [][Next]_vars

\* Live slots run, BullMQ delivers waiting jobs and finds the locks of dead slots
\* expired, and a request that has committed goes on unless its process dies.
Fairness ==
    /\ \A w \in Workers : WF_vars(Proceed(w))
    /\ \A r \in Runs : WF_vars(\E w \in Workers : TakeJob(w, r)) /\ WF_vars(Abandoned(r) /\ StallJob(r))
    /\ \A q \in Requests : WF_vars(Enqueue(q) \/ EnqueueFails(q)) /\ WF_vars(FailWatch(q))
    /\ \A e \in Events : WF_vars(ImpactEnqueue(e))

FairSpec == Spec /\ Fairness

-----------------------------------------------------------------------------
(* Properties.                                                             *)

WatchRecords ==
    [revision : Nat, current : Runs \cup {None},
     status : {"NOT_STARTED", "ANALYZING", "REVIEW_REQUIRED", "ACTIVE", "STALE", "FAILED"}]
RunRecords ==
    [status : {"none", "QUEUED", "RUNNING", "READY_FOR_REVIEW", "COMPLETED", "SUPERSEDED",
               "FAILED"},
     base : Runs \cup {None}, trigger : Events \cup {None}, reviewed : BOOLEAN]
Candidates ==
    [change : {"ADDED", "UNCHANGED", "MODIFIED"}, review : BOOLEAN,
     decision : Decisions \cup {None}, source : {"SYSTEM", "HUMAN", None}]
ASSUME CandidateAssumption == None \notin Decisions /\ None \notin Candidates
BaselineRecords ==
    [status : {"none", "PUBLISHED", "SUPERSEDED"}, previous : Runs \cup {None},
     sequence : Nat, entries : SUBSET Laws, platform : BOOLEAN]
JobRecords ==
    [status : {"none", "waiting", "active", "completed", "failed"},
     made : Nat, stalled : Nat, holder : Workers \cup {None}]
RequestRecords ==
    [pc : {"idle", "start", "enqueue", "failWatch", "decide", "publish"},
     run : Runs \cup {None}, base : Runs \cup {None}, found : SUBSET Laws,
     rows : SUBSET Keys, auto : BOOLEAN, revision : Nat]
SlotRecords ==
    [pc : {"idle", "load", "mark", "discover", "gap", "clear", "persist", "check",
           "finish", "report", "end", "catch", "failRun", "rethrow"},
     run : Runs \cup {None}, delivery : Nat, found : [Laws -> Candidates \cup {None}]]
EventRecords ==
    [pc : {"pending", "create", "enqueue", "done", "failed"},
     base : Runs \cup {None}, run : Runs \cup {None}]

\* Every variable holds what its table, queue or request can hold.
TypeOK ==
    /\ watch \in WatchRecords
    /\ run \in [Runs -> RunRecords]
    /\ candidate \in [Runs -> [Keys -> Candidates \cup {None}]]
    /\ baseline \in [Runs -> BaselineRecords]
    /\ profile \in {"COMPLETE", "STALE"}
    /\ job \in [Runs -> JobRecords]
    /\ request \in [Requests -> RequestRecords]
    /\ worker \in [Workers -> SlotRecords]
    /\ impact \in [Events -> EventRecords]
    /\ overtaken \subseteq Runs

\* The current baseline is the published one, and there is no other.
OneRegister == \A b \in Runs : baseline[b].status = "PUBLISHED" <=> b = watch.current

\* The baselines of a watch are one chain: a publication follows the baseline
\* that was current, even when its run was started, decided and published while
\* others were.  The last one is the current one, numbered by their count.
RegisterChain ==
    /\ \A b \in Published :
         IF baseline[b].previous = None THEN baseline[b].sequence = 1
         ELSE /\ baseline[b].previous \in Published
              /\ baseline[b].sequence = baseline[baseline[b].previous].sequence + 1
    /\ \A b, c \in Published : baseline[b].sequence = baseline[c].sequence => b = c
    /\ IF watch.current = None THEN Published = {}
       ELSE baseline[watch.current].sequence = Cardinality(Published)

\* The abstract register that the watch implements.
Register == INSTANCE RegulatoryRegister WITH
    current  <- watch.current,
    register <- [b \in Runs |->
      IF b \in Published THEN [previous |-> baseline[b].previous,
                              number   |-> baseline[b].sequence,
                              laws     |-> baseline[b].entries]
      ELSE None]

\* Seen from outside, all that the programs do to the register is to append: each
\* publication is of a run that has not published, follows the register in force
\* and is not empty; nothing else is ever visible in the register.
RegisterAppendOnly == Register!Spec

\* A register says what was decided: the entries of a baseline are the laws that
\* its run records as applicable, at the publication and ever after, although
\* they are read before the claim and analyses and decisions go on meanwhile.
\* Only where a live slot lost its lock may the records of the run have changed.
RegisterAsDecided ==
    \A b \in Published :
      ~baseline[b].platform /\ b \notin overtaken =>
        baseline[b].entries = Applicable(b, FALSE)

\* "Published baselines are immutable": a later publication only retires them.
PublishedImmutable ==
    [][\A b \in Published :
         /\ b \in Published'
         /\ baseline'[b].entries = baseline[b].entries
         /\ baseline'[b].previous = baseline[b].previous
         /\ baseline'[b].sequence = baseline[b].sequence]_vars

\* A person's decision on a candidate is neither deleted by an analysis that is
\* delivered again after an error or a crash nor replaced by the system on
\* publication; only a person who claims a new revision of the watch decides
\* otherwise.  A slot that lost its lock may delete it, and does no more than that.
HumanDecisionKept ==
    [][\A r \in Runs : \A row \in Keys :
         (candidate[r][row] # None /\ candidate[r][row].source = "HUMAN") =>
           IF candidate'[r][row] = None THEN r \in overtaken
           ELSE /\ candidate'[r][row].source = "HUMAN"
                /\ candidate'[r][row] # candidate[r][row] => watch'.revision > watch.revision]_vars

\* What the watch shows has a run behind it: ANALYZING an active one (or one
\* that could not be enqueued), REVIEW_REQUIRED one to review (or one that a slot
\* which lost its lock has marked running once more), ACTIVE a register.
WatchStatusBacked ==
    /\ watch.status = "ANALYZING" =>
         \E r \in Runs : \/ run[r].status \in Active
                         \/ run[r].status = "FAILED" /\ job[r].status = "none"
    /\ watch.status = "REVIEW_REQUIRED" =>
         \E r \in Runs : \/ run[r].status \in Reviewable
                         \/ run[r].status = "RUNNING" /\ r \in overtaken
    /\ watch.status = "ACTIVE" => watch.current # None

\* Nobody will ever run the job of run r: its request died before the enqueue,
\* or BullMQ gave the job up.
Orphaned(r) ==
    \/ job[r].status = "failed"
    \/ /\ job[r].status = "none"
       /\ \A q \in Requests : ~(request[q].pc = "enqueue" /\ request[q].run = r)
       /\ \A e \in Events : ~(impact[e].pc = "enqueue" /\ impact[e].run = r)

\* Its job was completed by a second slot while the first, whose lock was lost, had
\* yet to mark the run, and that one died after it did.
Overtaken(r) == r \in overtaken /\ job[r].status = "completed" /\ Abandoned(r)

\* What AnalysisEnds rests on: a job is completed only when its run is no longer queued or
\* running, and no slot takes such a run up again, unless one that has lost its lock is left.
AnalysisEndsWithItsJob ==
    \A r \in Runs :
      job[r].status = "completed" /\ r \notin overtaken => run[r].status \notin Active

\* The jobs of the analyses are delivered as JobDelivery says: the job of a run is added
\* once, whether by the request or for the event that created the run, delivered at most
\* once for every attempt and every stall that is forgiven, and never after its end.
DeliveryImplemented == Queue!DeliveryImplemented

\* Every analysis ends, through crashes, lost locks, retries and supersession, or it is
\* one of the orphans above, that the code never looks for.
AnalysisEnds ==
    \A r \in Runs :
      run[r].status \in Active ~> (run[r].status \notin Active \/ Orphaned(r) \/ Overtaken(r))

\* What the runbook says of starting again: it supersedes an unpublished run.
OnlyUnpublishedSuperseded ==
    [][\A r \in Runs : run[r].status # Superseded /\ run'[r].status = Superseded =>
         r \notin Published]_vars
=============================================================================
