# GetQHSE: a TLA+ verification project

GetQHSE is a modular monolith (NestJS API, React clients) with separate worker processes, one
PostgreSQL database (Prisma) and BullMQ queues in Redis. Nearly everything that is hard about it
has one shape: **several programs write the same rows, nobody holds a lock across a network call,
and a job may run twice or die half-way.** An API request reads, decides and commits a short
transaction; a worker reads, spends minutes in a language model or a mail provider, and writes
back. These modules state what protects the rows (conditional updates, revisions, snapshots,
claims, ledgers), check it with TLC and prove the most important parts with TLAPS.

Paths below are relative to the root of the repository unless they start with `tla/`.

## 1. Inventory

| Component | Code | State | Operations | Status |
| --- | --- | --- | --- | --- |
| Conformity evaluation | `regulatory-watch.service.ts` 945-1006, 1283-1400; `regulatory-evaluation.processor.ts` | evaluations (result, revision, AI status, proposal), model-call ledger | start a pass, save a decision, run a pass | `RegulatoryEvaluation` |
| Regulatory watch | `regulatory-watch.service.ts` | watch (revision, status, current baseline), runs, candidates, baselines | start, review, decide, publish | `RegulatoryWatch` |
| Regulatory analysis worker | `regulatory-analysis.processor.ts` | run status, candidates, ledger of its own | discover, persist, finish, fail | `RegulatoryWatch` (protocol, without the ledger) |
| Regulatory impact worker and dispatcher | `regulatory-impact.processor.ts` | outbox of document events | defer, supersede, create a run, enqueue | `RegulatoryWatch` (one watch) |
| Work queues | `work-queue.service.ts`, `queues.ts` (BullMQ is external) | jobs by id, attempts, locks | add, deliver, retry, stall, remove | `WorkQueue`, `JobDelivery`; the evaluation and the email outbox have a rendering of their own, that of the evaluation proved against `JobDelivery` |
| Email outbox | `email-delivery.processor.ts`, `packages/notifications`, hooks in `packages/auth` | deliveries (status, attempts, due), jobs, invitations | claim, send, settle, reconcile, cancel | `EmailDelivery` |
| PIP (interested parties) | `pip.service.ts`, `pip-analysis.processor.ts` | parties, requirements, evaluations, revision, runs | add, review, allocate, answer, launch, validate, three stages of a run | `PipRegister` |
| R&O (risks and opportunities) | `ro.service.ts`, `ro-analysis.processor.ts` | items, actions, fingerprints of the sources, runs | add, review, rate, declare controls, treat, launch, validate, two stages of a run | `RoRegister` |
| Scope statement | `scope.service.ts`, `scope-statement.processor.ts` | declaration, verifications, statements, runs | declare, verify, draft, edit, validate | `ScopeStatement` |
| SMQ planning | `planning.service.ts`, `planning.processor.ts` | document (policy or processes), fingerprint, versions, runs | review sources, save, propose, apply, validate | `PlanningDocument` |
| Process sheets | `process-sheets.service.ts`, `process-sheet.processor.ts` | sheet, versions, runs | prepare, refresh, save, propose, apply, validate | `ProcessSheet` |
| Normative documents | admin `documents.service.ts`, `document-processing.processor.ts`, `packages/documents` | documents, versions, stage rows, jobs | upload, process, retry, validate, publish, archive | `NormativeDocument` |
| Project profile | `project-profiles.service.ts`, `packages/profile` | answers with revision, status, conversations | answer, import, complete | only as seen by the watch |
| Context analysis | `contexts.service.ts`, `context-analysis.processor.ts`, `context-external-research.processor.ts` | analyses, issues, runs | create, research, analyse, review | planned |
| Embedding profiles, knowledge library | `representative.processors.ts`, `knowledge-embedding.processor.ts` | profiles, chunks, examples | build, activate, index | planned |
| Rate limiter, model cost, profile rules, domain | `regulatory-rate-limiter.ts`, `regulatory-model-cost.ts`, `packages/profile`, `packages/domain` | a token bucket in Redis; otherwise pure | | planned as operators |
| Authentication, membership, settings, prompts, files | better-auth, small services | guarded single rows, configuration, object storage | | not modelled |
| Web clients, UI, API client, observability, build | | none shared | | not modelled |

How they interact: API services and workers share the tables; API services and reconcilers add
jobs to BullMQ, which workers take; the impact dispatcher and the email reconciler poll tables
(outboxes) because a commit and an enqueue cannot be one step; invitations call hooks that write
the email outbox; publishing a register creates the evaluations and copies earlier decisions
into them; the SMQ modules read one another's results as "sources" or "facts" and keep a fingerprint
of what they read.

What makes each part correct, in a sentence:

* **Evaluation**: a proposal belongs to the decision it stands next to, no save of a person is
  lost, the budget holds over overlapping passes, and no row stays in progress for ever.
* **Watch**: one published register, a chain of immutable baselines, entries as decided by people,
  and every analysis ends.
* **Email outbox**: one attempt at a time owns a row, an outcome is final, retries are capped, and a
  delivery is settled in the end.
* **PIP, R&O, context**: at most one run per project is active, a result is applied only to the
  material it was made from, a failure leaves nothing behind and blocks nothing.
* **Planning, scope, sheets**: a proposal is applied only to the revision and fingerprint it was made
  for; a validated version is not edited.
* **Normative documents**: a published version is fully processed and unique per document, and is
  never processed again.
* **Embedding profiles**: the active profile covers every published chunk.

`PROJECT.json` lists each hazard at its line under "hazards", with the properties that would catch
it, or the reason why none does yet (eight: the ledger of the analysis worker, the carry-forward of
evaluations, the impact dispatcher, the example of the knowledge library, the issues of the context
analysis, two publications of one document, the activation of an embedding profile, and the progress of
an analysis that is written after its end). A note says where a property excepts what the code does.

## 2. Modules

`RegulatoryEvaluation` and `EmailDelivery` stand alone, with renderings of BullMQ of their own; that of
the evaluation is compared with the abstract queue. All others share one queue (`WorkQueue`), which
implements the abstract one (`JobDelivery`); the five SMQ modules also share one run protocol
(`AnalysisRun`) on top of it. A module `MC...` prepares the modules
of one area for TLC. Where it puts several instances side by side, *one of them moves while the others
stay where they started*, so one run asks the questions of several instances without multiplying their
states. Where one instance is too large, a state predicate `Part` keeps a run to parts of its behaviour
(section 3). A module `..._proofs` holds the theorems.

### 2.1 RegulatoryEvaluation

One published baseline. A row is an evaluation: the decision (`result`, `revision`), the AI side
(`aiStatus`, `proposal`) and `stale` (untouched for `staleAiEvaluationMs`). A `job` is one pass, from
the request that resets the rows to its end in BullMQ; a `worker` slot remembers the snapshot that
its attempt made (`snap`), the entries it still holds (`todo`, `at`) and the model call it waits for;
`call` and `settled` are the ledger; `edit` is a save between its read and its conditional write.

| Action | Code |
| --- | --- |
| `StartEvaluation`, `Enqueue`, `EnqueueFails` | `startEvaluation`: reset, `queue.add`, catch block |
| `ReadEvaluation`, `SaveDecision`, `SaveConflicts` | `updateEvaluation` around its guarded `updateMany` |
| `TakeJob`, `LoadBaseline` | start of an attempt, write-off of abandoned calls |
| `MarkRunning`, `ReserveCall`, `BudgetExhausted`, `Generate`, `CallFails`, `WriteProposal`, `WriteFails`, `FailEntry` | the loop over pending entries |
| `ParkRemaining`, `FinishJob`, `GiveUp`, `DatabaseError` | the ends of an attempt |
| `Crash`, `StallJob`, `AgeRow`, `AgeCall` | processes, BullMQ, time |

`proposal` holds the decision the proposal was generated for. It is a history value: the code stores
the text only, so the invariant compares what the code cannot.

### 2.2 RegulatoryWatch

One watch. A baseline is named by the run that published it (`analysis_run_id` is unique), so runs
`1..MaxRuns` number both. A `request` is an API request between its reads and its transaction, a
`worker` slot runs an analysis step by step, `impact` follows each document event. A candidate row is
known by the delivery of the job that created it and by its law, because nothing in the database keeps
two deliveries from creating a row for one law. `Init` admits a
fresh watch and a watch whose register was published by the retired retrieval approach (`platform`
entries quote provisions of stored documents), the only kind an impact event still concerns.

| Action | Code |
| --- | --- |
| `StartRead`, `StartCommit`, `Enqueue`, `EnqueueFails`, `FailWatch` | `startAnalysis`, `failRun` |
| `ReviewAnalysis`, `DecideRead`, `DecideCommit` | `reviewAnalysis`, `decideCandidate(s)` |
| `PublishRead`, `PublishCommit`, `ClaimFails` | `publish`, `publishAutomatically` (`publishWithMode`) |
| `EditProfile`, `CompleteProfile` | profile edits and imports that make the watch stale |
| `Impact...` | `regulatory-impact.processor.ts`, per watch |
| `LoadRun` ... `Report`, `Catch`, `FailRun` | `analyze` and its catch block, one action per statement |
| `TakeJob`, `EndJob`, `FailAttempt`, `Crash`, `StallJob` | BullMQ (`WorkQueue`) and the worker process |

A lock expires of a dead slot or of a live one, and the live one goes on beside the slot that is given
the job next. Then both write by the id of the run alone: the late one may mark a run RUNNING that is
under review, published or superseded, finish or fail it once more, and, past the last check that the run
is current, delete its candidates whatever has been decided on them. `overtaken` is the history of the
runs of which a live slot has lost the lock; it is read by the properties that hold without such a loss
only (section 3).

`RegulatoryRegister` is the abstract specification: a list of baselines that grows at its end. The
refinement mapping forgets runs, candidates, requests and jobs; what is left of a baseline is its
predecessor, number and laws. `RegisterAppendOnly` is the abstract specification as a property.

The statuses `PARTIAL` and `AWAITING_CLARIFICATION` are never written
by the current worker and do not occur. Candidates of the retired provision approach, exports,
evidence, actions and the knowledge library are left out.

### 2.3 EmailDelivery

The rows of the outbox (`delivery`, `due`, `stale`), the queue (`waiting`, `active`, `failed`,
`stalledOnce`: sets of job ids, an id being a row and its attempts), the slots with their locks, the
`reconcile()` calls in progress, and the invitations. `recovered` counts the claims taken back and
`mishaps` the faults; both are history, read only by a property and by the bound.

| Action | Code |
| --- | --- |
| `Claim`, `Load`, `Cancel`, `SendAccepted`, `SendFails`, `MarkSent`, `MarkSentFails`, `Fail` | `EmailDeliveryProcessor.process`, `fail`, `emailRetryDecision` |
| `Recover`, `List`, `Add`, `EndReconcile`, `ReconcileFails` | `EmailOutboxReconciler.reconcile` |
| `CloseInvitation`, `LapseInvitation`, `CancelPending`, `HookLost` | better-auth, `afterAcceptInvitation`, `afterCancelInvitation` |
| `TakeJob`, `EndJob`, `Throws`, `Crash`, `StallJob`, `ExpireJob` | BullMQ: one attempt, `removeOnComplete`, `removeOnFail` after a day |
| `BecomeDue`, `AgeClaim` | time |

A slot may lose its lock and go on, and the job may be delivered to another slot meanwhile. `AgeClaim`
assumes that an attempt that is alive takes less than ten minutes: its only long step, the send, is cut
off after 15 seconds. All that `ClaimExclusive` and `OutcomeFinal` say rests on this. An update that
throws is taken not to have been written: were the update to SENT committed and its answer lost, the catch
block would overwrite it. Rows start as `createEmailDelivery` leaves them; which events create rows, the
limit of 100 rows per round, and deleted rows are left out. An invitation that is re-sent gives several
rows one invitation; here each row has its own, and closing them in any order covers closing them
together.

### 2.4 WorkQueue, JobDelivery, AnalysisRun

`WorkQueue` has one record per job id: its status, the attempts made, the stalls and the slot that
holds the lock. `Add` is BullMQ's `add` with a job id (`work-queue.service.ts`: an id that exists is
ignored), `Take`, `Complete`, `Throw` and `Stall` are what BullMQ does; a slot that lost its lock can
neither complete nor fail the job, yet goes on. `JobDelivery` is what a processor may count on: an id
is added once, delivered at most as often as its attempts and forgiven stalls allow, and ends once.

| Action of `AnalysisRun` | Code, in each `*.service.ts` and `*.processor.ts` of the SMQ |
| --- | --- |
| `Read`, `Create`, `Enqueue`, `EnqueueFails`, `RequestEnds` | a launch: what it reads before the transaction, the run it creates, `queue.add`, the catch block, a refusal or the death of the request |
| `TakeJob` | the first query of the processor |
| `MarkRunning` or `ClaimRun` | the update to RUNNING, which only the index of active runs can refuse, or the claim of an active run (sheets) |
| `AlreadyPersisted`, `PersistFails` | the transaction of the result finds the run ended, or fails |
| `FailRun` or `FailUnlessCompleted` | the catch block |
| `EndJob`, `Crash`, `Stall` | BullMQ and the worker process |

What a launch requires and what a result does is the business of each module below. A write, in all
of them, is one transaction under the lock of the project row (the processors of planning and of the sheets
lock the run's row) and therefore one action; the database's READ COMMITTED isolation is not visible
behind these locks. Clients that send a revision or a fingerprint
that is not the present one are refused and change nothing, so the writes are those of clients that are
up to date. `MaxWrites` bounds them.

### 2.5 PipRegister

Parties with their requirement and evaluations; `state` has the revision, the method and the
fingerprint; `material` is the evidence, a number. "RETAINED" stands for VALIDATED and MODIFIED, which
every rule treats alike; a party has one requirement. `Init` admits an empty, an allocated and an
evaluated register, each of which the actions reach from an empty one.

| Action | Code |
| --- | --- |
| `ChangeMaterial` | the profile, context and regulations that `pip.service.ts` reads |
| `AddParty`, `AddRequirement`, `ReviewParty`, `ReviewRequirement`, `Allocate`, `ReviewEvaluation`, `Answer` | the writes of `pip.service.ts`, each with `changed()` |
| `ReadMaterial`, `Launch`, `Validate` | reads before the lock, then the transaction |
| `Generate`, `Persist` with `ApplyInventory`, `ApplyRequirements`, `ApplyEvaluation` | `pip-analysis.processor.ts`, by stage |

### 2.6 RoRegister

Items with rating, controls and at most one action each; `evidence` has the version of each source,
which may change or vanish at any time. Every request reads it before its transaction (`ReadMaterial`);
the worker reads which items a treatment is for outside the transaction that writes the actions
(`Generate` keeps the answer in the slot, `Asked`).

| Action | Code |
| --- | --- |
| `AddItem`, `ReviewItem`, `Rate`, `DeclareControls`, `AddAction`, `ReviewAction`, `Progress`, `Effectiveness` | `ro.service.ts`, each with its `write` |
| `Launch`, `Validate` | `ro.service.ts`; `roTreatmentEligible` |
| `Generate`, `Persist` with `ApplyGeneration`, `ApplyTreatment` | `ro-analysis.processor.ts` |

### 2.7 ScopeStatement, PlanningDocument, ProcessSheet

| Module | Actions | Code |
| --- | --- | --- |
| `ScopeStatement` | `ChangeFacts`, `Declare`, `Verify`, `EditStatement`, `ValidateStatement`, `Launch`, `Persist` | `scope.service.ts`, `scope-statement.processor.ts`; the result of a run is a new draft |
| `PlanningDocument` | `ChangeSources`, `ReviewSources`, `Save`, `Apply`, `Validate`, `Launch`, `Persist` | `planning.service.ts`, `planning.processor.ts`; the proposal waits in the run until `Apply` |
| `ProcessSheet` | `ChangeSources`, `Prepare`, `RefreshSources`, `Save`, `Apply`, `Validate`, `Launch`, `Persist` | `process-sheets.service.ts`, `process-sheet.processor.ts`; a slot claims the run and spares a completed one |

A fingerprint is what it is computed from: the facts and the declaration, or the sources. A list of
axes, objectives, processes or activities is the set of the decisions in it, a decision being the
sources it was taken on or "pending": what the properties ask of a list is what its decisions rest on.

### 2.8 NormativeDocument

One document. A version has its status, its file, `provisions` (an id of the structure that one
detection made) and `chunks` (the structure they were cut from, or `Unlinked` when its provisions are
gone); `stage` has the stage rows of each generation of processing. A `request` carries what it has read
to its write.

| Action | Code |
| --- | --- |
| `CreateVersion`, `ConfirmUpload` | `createVersion`, `confirmUpload` |
| `StartRead`, `StartCommit`, `RetryRead`, `RetryCommit`, `Enqueue` | `startProcessing`, `retryJob` |
| `ValidateRead`, `ValidateCommit`, `PublishRead`, `PublishBegin`, `PublishCommit`, `ArchiveRead`, `ArchiveCommit` | `validateVersion`, `publishVersion`, `archive` |
| `NextStage`, `RunStage`, `QualityFails`, `FinishStage`, `RequireReview` | the loop over stages of `document-processing.processor.ts` |
| `DetectStructure`, `ReplaceStructure` | structure detection: the chunks are deleted (590); the provisions and sections are replaced, and the commit |
| `ReadProvisions`, `DeleteChunks`, `WriteChunks`, `ChunksRefused` | chunking: the read outside the transaction, its delete (702), its inserts and the commit, or the refusal of the database |
| `StageFails`, `FailStage`, `FailVersion`, `EndJob`, `Crash`, `Stall` | its catch block, BullMQ, the worker process |

The two transactions run at READ COMMITTED and take no lock, so each begins in one action and commits in
another. A delete takes the rows that were committed when it began. Chunks that another slot commits
after that (`missed`) are left: a detection takes their provisions away (`onDelete: SetNull`) and they
stay beside the new structure, unlinked; a chunking meets them in the unique index of the chunks and is
refused. Chunks cut from provisions that are gone are refused by their foreign key. Where a statement
waits for a row that another transaction holds, the wait rules out orders that the model follows, and
adds none; that the database ends one of two transactions is `StageFails`.

Four stages of the pipeline are kept, the two that write what is seen here, one before and one after
them; the others write only their own status. The two transactions of `startProcessing` are one step, a
stage is retried once, and the checklist of a validation is met or refuses. Metadata, classification,
issues, deletion and purge are left out.

### 2.9 What is left out everywhere

Database errors in a catch block (a transaction that fails in a worker is an outcome of its own; the
catch block's own update is taken to succeed), an enqueue that succeeded although it was reported as
failed (the request would set its run, or its rows, to FAILED while the job waits), backoff delays, wording, progress, exports and audit
rows. The models cover a small part of the repository's lines, since most of it is web clients, prompts,
contracts, input validation and I/O, which keep no state that several programs write.

## 3. Runs

| Run | Instance | Question |
| --- | --- | --- |
| `evaluation` | 2 rows, 2 slots, 3 revisions, budget of one call, in two parts: 1 row that 2 people save back and forth, 1 pass delivered again; 2 rows, 2 overlapping passes, saves | Do proposals match decisions, are saves kept, does the budget hold, does a finished pass leave nothing? |
| `regulatory_liveness` | 2 rows, 1 pass, 2 attempts, 1 stall; of the watch, in two parts: 1 analysis in 2 slots, 2 attempts, 1 stall; beside a published one, the analysis of a request and that of an event, 1 slot | Do passes and analyses end, can every row in progress be re-run? |
| `evaluation_enqueue_failure` | 2 passes, 1 slot | *violation*: a failed enqueue reaches another pass |
| `evaluation_rerun` | 2 passes, 2 slots | *violation*: a completed proposal is taken back |
| `watch` | 2 requests, 2 slots, both modes, in three parts: 2 analyses of 1 law published against each other; 1 analysis, 2 laws, redelivery after a crash; 1 analysis of 1 law on which 2 slots work after a lost lock, 1 request; impact events are left to `regulatory_liveness` and the theorems | One register, whose chain only grows, as the abstract register says? Is the status backed by a run, is the register what people decided, do their decisions stay? |
| `watch_supersession` | 2 runs, 2 requests | *violation*: a published run is superseded |
| `email_safety` | 1 invitation, 2 slots, 2 reconcile() calls, 1 fault | Is a claim exclusive, is an outcome final, are retries capped? |
| `email_liveness` | 1 invitation, 1 slot, 1 reconcile() call, 2 faults | Is a delivery settled in the end? |
| `smq` | PIP: 1 party, 1 run, 1 slot, 2 attempts, 2 writes; R&O: 1 item, 1 run, 1 slot, 2 writes | Are decisions up to date, is what is validated complete, do results meet what they were made from, do runs end? |
| `documents` | policy or processes: 1 run, 3 writes; scope: 1 run, 4 writes; sheet: 1 run, 2 slots, 2 writes | Do versions rest on their own decisions and sources, are proposals kept and applied to their document, is delivery as the abstract queue says, do the runs of a sheet end? |
| `normative` | 2 writes, in four parts: 1 version from stage 3 on in 1 slot, with second attempts and lost locks; 1 version, 2 slots, 3 generations; 1 version, 2 slots, 1 write, a job that goes on beside its redelivery; 2 versions, 1 slot, from stage 1 on. Beside it a second instance, `Followed`: 1 version from stage 3 on, 1 slot | Are the chunks that search returns those of the structure, is what is published validated; does processing end (`Followed`)? |
| `normative_published` | 1 version, 1 slot, 1 retry | *violation*: the retry of an old failed stage rewrites a published version |

**Bounds and why they are enough.** The conflicts are between two parties over one object, so two
slots, requests or reconcilers and one or two rows, runs, laws or versions suffice to interleave every
pair of steps. In `smq`, and in `documents` but for the sheet, the two parties are a person and a slot,
which may die or lose its lock and take the job again; two slots on one run are checked with the sheet
and covered for the others by the theorems. Registers and documents are checked from every state that `Init` lists (empty, half-way,
decided), so a few writes reach the interesting ones; the theorems of section 4 hold for any number.
With one R&O run and items that no run has treated before, `smq` asks only the first conjunct of
`AppliedToTheItems`; that an item a run left out still has its action is shown by the theorem alone.
`Attempts`, `MaxConsecutive`, `MaxStalled` and `MaxAttempts` are small so that the limits are reached;
the code's values are 5 (3 for documents, 1 for a retried stage), 5, 1 and 5. `MaxRevision` bounds the
saves (of a row) and the claims (of the watch), `MaxWrites` and its namesakes the writes of people,
`MaxMaterial` and `MaxEvidence` the changes of the evidence: an action that would exceed its bound is
not enabled. `MaxRuns` bounds the analyses, `MaxGenerations` the processings of a version, `Calls` the
ledger's concurrent calls (an identity is used again once its call is settled), `MaxMishaps` crashes and
database errors. Symmetry is used in `evaluation`, `watch` and `email_safety` only, which check safety,
over slots, requests, jobs, calls, laws and reconcilers, which no formula orders or names.

`evaluation`, `watch` and `normative` keep one instance to *parts* of its behaviour: a step is not taken
if the state after it is in no part. Each part bounds something else (the rows that are saved, the runs
that exist, the laws that are found, the versions, the slots at work, a second delivery), so that the
conflicts of each kind are reached in full without multiplying those of the others. A restricted
behaviour is still a behaviour of the module's `Spec`: the theorems on `Spec` hold of it, and they hold
of what no part contains. Of the watch, `regulatory_liveness` follows two parts as well: nobody decides in
them, and in the second one slot works and only the first delivery of the first new job may end with an
error or a crash. No part holds up a step that is assumed to be fair: each leads from a state of the part
into the part (the one slot takes a job once it is free), and what the parts leave out, errors, crashes,
requests, nothing assumes to happen.

`CHECK_DEADLOCK FALSE` is set everywhere because the systems really stop: when all runs or deliveries
have ended and nobody asks for more, nothing happens.

**Fairness.** Weak fairness for what an event loop runs without further input (the next step of a live
slot, of a committed request, of a reconcile() call), for timers and the passing of time, and for
BullMQ's delivery of waiting jobs and recovery of abandoned ones. A request that has created a run
enqueues or fails, unless its process dies, which disables the step. In `EmailDelivery` taking a job is
strongly fair, because one slot serves several jobs in order of arrival. Nothing is assumed of people, of
the providers' answers, of faults, or of the expiry of failed jobs, which BullMQ does only when another
job fails. Each MC module with a liveness property takes over the fairness of the instance it is about
(`regulatory_liveness` of both). Liveness is checked of the PIP runs and of the runs of a sheet, the two variants of
`AnalysisRun`; those of R&O, scope and planning go through the same actions.

**What the violations say** (`PROJECT.json`, "findings", quotes the lines): `EnqueueFailureScoped` and
`CompletedProposalKept` contradict comments of `startEvaluation`; `OnlyUnpublishedSuperseded`
contradicts the runbook `docs/runbooks/normative-rag.md`; `PublishedImmutable` contradicts the test of
the life cycle, `packages/documents/src/state-machine/state-machine.test.ts:16`: `retryJob` looks only
at the stage, which stays FAILED after a forced restart has succeeded and the version was published.

Divergences met while reading that no run checks: the runbook's "automatically queues a second, separate
conformity pass" (line 158) is contradicted by `regulatory-watch.service.ts:1290-1291` and ADR 0009
(a pass starts only on request); its "settled at their reserved amount" by the write-off of abandoned
calls at cost 0 in both workers; the impact worker also supersedes queued and running analyses,
which the runbook says cannot be superseded (lines 192-193); and two slots that overlap on one analysis
leave two candidates for a law, where the runbooks have one for each proposed text (lines 145-146, and
`docs/runbooks/law-catalog.md:38`).

**Exceptions the properties name.** `AnalysisEnds` excepts an orphan: a run whose request died between
commit and enqueue, or whose job BullMQ gave up; and a run that a slot without its lock marked RUNNING
after another had completed the job, before it died (`Overtaken`). Nothing in the code looks for them,
and such a run refuses every later start. Three more properties of the watch except what a live slot that
has lost its lock can do (the runs in `overtaken`). `WatchStatusBacked`: the watch shows REVIEW_REQUIRED
while that slot has marked the run under review RUNNING. `RegisterAsDecided`: it has deleted or created
candidates of a run that is published already, so the run no longer records what its register, which
stays as it is, was made from. `HumanDecisionKept`: it deletes a decision of a person, but nothing
replaces one. `WatchStatusBacked` also excepts a failed run that was never enqueued, under a watch that
still shows ANALYZING: a crash between the two updates of `failRun`. `ChunksOfStructure` is about the
chunks that search returns, which it joins to their provisions; unlinked ones stay in the table and count
for the quality checks. `DeliveryEnds` excepts a delivery behind a failed job of its own id. A mail
that went out may be recorded as FAILED (the update to SENT is inside the try block), may be sent twice
(a crash after the send), and an invitation claimed before it closed may still be mailed; these follow
from the code and are hazards, not violations of anything it promises.

`RunEnds` excepts a run that nobody is given any more (its request died before the enqueue, or the queue
gave up the job: `Lost`) and one that a slot without its lock marked as RUNNING after another had ended
the job, and died (`Overtaken`); both keep the project from being analysed again. `SheetRunEnds` excepts
the first only: the claim of a sheet's run rules out the second. `FollowedEnds`, that is `ProcessingEnds`
of the instance `Followed`, speaks of versions for which a job waits and excepts a job the queue
gave up; a start whose job id is used up has no job.

## 4. Proofs

Every theorem holds for all values of the constants under the named assumptions of section 4.3.

### 4.1 Theorems

| Module | Theorem | Says |
| --- | --- | --- |
| `RegulatoryEvaluation_proofs` | `TypeCorrect` | `Spec => []TypeOK` |
| | `ProposalsMatch` | `Spec => []ProposalMatchesDecision` |
| | `DecisionsSafe` | `Spec => NoLostDecision` |
| | `BudgetSafe` | `Spec => []BudgetRespected` |
| | `FinishedPassesAnswer` | `Spec => []FinishedPassLeavesNothing` |
| | `PassesAreDelivered` | the passes' jobs implement `JobDelivery`: `Spec => DeliveryImplemented` |
| `RegulatoryWatch_proofs` | `TypeCorrect` | `Spec => []TypeOK` |
| | `RegisterUnique`, `RegisterChained` | `Spec => []OneRegister`, `Spec => []RegisterChain` |
| | `PublishedKept` | `Spec => PublishedImmutable` |
| | `RegisterImplemented` | `Spec => RegisterAppendOnly`, that is `Register!Spec` |
| | `StatusesBacked` | `Spec => []WatchStatusBacked`, with lost locks |
| | `DecisionsRegistered` | `Spec => []RegisterAsDecided`: of every run of which no live slot lost the lock |
| | `PeopleDecide` | `Spec => HumanDecisionKept`: a slot without its lock may delete a decision, nobody replaces one |
| | `AnalysesEndWithTheirJobs` | `Spec => []AnalysisEndsWithItsJob`: a completed job of which no live slot lost the lock leaves no run queued or running |
| | `JobsAreDelivered` | the analyses' jobs implement `JobDelivery`: `Spec => DeliveryImplemented` |
| `EmailDelivery_proofs` | `TypeCorrect` | `Spec => []TypeOK` |
| | `ClaimsExclusive`, `RetriesAreCapped` | `Spec => []ClaimExclusive`, `Spec => []RetriesCapped` |
| | `OutcomesFinal` | `Spec => OutcomeFinal` |
| `AnalysisRun_proofs` | `QueueTypes` | jobs stay well typed |
| | `DeliveryIsImplemented` | `WorkQueue` implements `JobDelivery` |
| `PipRegister_proofs` | `TypeCorrect` | `Spec => []TypeOK` |
| | `EvaluationsAreUpToDate`, `ValidatedIsComplete` | `Spec => []EvaluationUpToDate`, `Spec => []ValidatedComplete` |
| | `ResultsFitTheRegister`, `PeopleAreKept` | `Spec => AppliedToItsRegister`, `Spec => HumanContentKept` |
| | `JobsAreDelivered` | the runs' jobs implement `JobDelivery` |
| | `RunsEndWithTheirJobs` | `Spec => []RunEndsWithItsJob`: a completed job whose lock was never lost leaves its run ended |
| | `RisksAreTreated`, `TreatmentsFitTheItems` | what `smq` checks of the R&O instance |
| | `RegistersBehave` | `MCSpec => Spec /\ Ro!Spec` |
| `RoRegister_proofs` | `TypeCorrect`, `ActionsAreUpToDate`, `ValidatedIsComplete` | the three invariants of the module |
| | `TreatmentsFitTheRegister` | `Spec => AppliedToItsRegister` |
| | `JobsAreDelivered`, `RunsEndWithTheirJobs` | the runs' jobs implement `JobDelivery`; `Spec => []RunEndsWithItsJob` |
| `PlanningDocument_proofs` | `TypeCorrect`, `DecisionsAreOnSources`, `PolicyLinksAreTrue` | the three invariants of the module |
| | `ProposalsFitTheDocument` | `Spec => AppliedToItsDocument` |
| | `VersionsAreNumbered`, `DraftsFitTheDeclaration` | the scope: `Scope!Spec => []VersionsFollowVerifications`, `... => AppliedToItsDeclaration` |
| | `SheetDecisionsAreOnSources`, `ProposalsAreKept` | the sheet: `Sheet!Spec => []SheetDecisionsOnSources`; with the scope, `ProposalKept` |
| | `JobsAreDelivered`, `ScopeJobsAreDelivered`, `SheetJobsAreDelivered`, `DocumentJobsAreDelivered` | each queue, and together `DeliveryImplemented` |
| | `RunsEndWithTheirJobs`, `ScopeRunsEndWithTheirJobs` | `Spec => []RunEndsWithItsJob`, `Scope!Spec => []Scope!RunEndsWithItsJob` |
| | `SheetRunsEndWithTheirJobs` | `Sheet!Spec => []Sheet!RunEndsWithItsJob`: the same of the sheet, *whatever* locks were lost |
| | `DocumentsBehave` | `MCSpec => Spec /\ Scope!Spec /\ Sheet!Spec` |
| `NormativeDocument_proofs` | `TypeCorrect`, `ChunksAreOfTheStructure` | `Spec => []TypeOK`, `Spec => []ChunksOfStructure` |
| | `PublicationsAreValidated` | `Spec => []PublicationValidated`: only a validated version is published or current; a document is published exactly when it has a current version |

`RegistersBehave` and `DocumentsBehave` connect the runs with the theorems: a behaviour of the
composition that TLC explores is a behaviour of each module, so what is proved of the module holds
there. The runs `evaluation`, `watch` and `normative` only leave out behaviours of `Spec`.

### 4.2 Arguments

*Evaluation.* `ProposalMatchesDecision` is not inductive. A guarded write compares the row with the
slot's snapshot, so the proof needs to know that a snapshot is a gap wherever the program counter
relies on it (`SlotsReady`); a save drops the proposal when its result differs from the one that was
*read*, so the proof needs that a request that still holds the current revision has read the current
result (`EditsCurrent`). `IInv` is the conjunction with `TypeOK`. The budget proof counts the ledger:
`Committed` grows only in `ReserveCall`, where it is compared.

A pass that has ended leaves no row of its snapshot waiting, as long as no live slot loses its lock
(the property's own premiss: with a lost lock another slot may end the job while the first still holds
entries). `PassInv` adds to `IInv`: a slot at work holds the lock of its job (`Held`),
a pass that is done holds no entry (`DoneEmpty`), a slot remembers decisions that the rows had
(`SnapsOld`), and a row in progress that a slot has gone past is the business of some job (`Answered`).

*Outbox.* `ClaimExclusive` is inductive with `TypeOK` alone: a claim needs PENDING, which no row under
work is; a stale row is under work by nobody; a settled row leaves the set of claims. `RetriesCapped`
needs `PendingCapped` (a pending row has one attempt left), which in turn needs `ClaimExclusive`: the
attempts that the retry decision compares are those the slot read. `RowMoves` lists the five ways a row
can move in a step; both the cap and the finality of outcomes follow from it.

*Watch.* Two things make the chain inductive. `FollowsRun`: a baseline follows the base of its run, and a
publication in progress remembers that base; a run never changes it (`RunsKept`). `Numbered`: no baseline
is numbered above the count of baselines. The claim of a publication compares the base with the current
baseline, so a run that had published already would have to be numbered one above the current baseline,
hence above the count: it cannot be. The published run is therefore new, and the chain grows by one at its
end (`PublishStep`). The same lemma is the refinement step: a publication is `RegulatoryRegister!Publish`,
anything else a stutter (`RegisterKept`). The proof uses neither the revision in the claim nor the status
of the run: the comparison of the base alone keeps the register (the revision is what `RegisterAsDecided`
needs, as the mutants of the two properties show), and nothing of what the slots do: the chain is safe
from a slot that lost its lock. The status of the watch (`WatchStatusBacked`) needs to
know of the programs what they have read: a slot at work holds its job (`Held`), a run that was created
and not enqueued belongs to one request or to the event that triggered it (`Launching`), a run that can be
reviewed, or was published, is at work in no slot (`Reviewed`), and until a register is published nothing
was started from one (`Based`); with `IInv` and the status this is `AInv`. `Held` and `Reviewed` say so of
the runs outside `overtaken` only, and what depends on them has the same premiss; of the others `Held`
still knows that they have a job. That a register is what people
decided adds `Decided` (only a settled run has decisions of a person) and `UpToDate`: what a publication
has read before its claim is still so *if the revision is still the one that was read*, since every
decision claims a new one. Two slots on one run need `Told`: their deliveries differ, a row is that of a
delivery the queue has made, and a slot that has yet to write finds no row of its own; so a slot adds rows
and overwrites none, and with `RowsLeft` a publication that claims decides no row of a person, lost locks
or not. `DInv` is the conjunction with the bounds of the jobs (`AllWithin`). `PeopleDecide` follows from
it step by step.

*Queue.* `JobInv` says that the attempts and stalls of a job are within their limits and that a job has a
holder exactly when it is active. One lemma per operation shows what it does to the abstract deliveries
that are left; a step of one job is a step of `JobDelivery` or a stutter. In each module that uses the
queue, every step is a step of the queue or leaves the jobs alone (`QueueMoves`), hence each
`JobsAreDelivered`. The watch has the same by a shorter way, without `JobInv`, and so has the evaluation,
whose rendering of BullMQ is its own: `AllWithin` bounds the attempts and stalls of each job, `Becomes`
says what a step can make of a job, and `OneDelivery` that such a change of one job is a step of
`JobDelivery` or a stutter. The watch also needs `Held` and `Launching` of `AInv`: a request or an event
adds the job of a run that has none. In both a slot goes on after it lost its lock; it can neither
complete nor fail the job, because whoever holds a lock, holds that of an active job.

*The run protocol.* `AnalysisRun_proofs` proves once, for any module, that its parts stay `Wired`: a
request that has created a run carries one that exists and has no job yet; a job, and a slot, belong to a
run that was created, and what a request or a slot remembers is of its type. It has one
lemma per action of `AnalysisRun`; the modules add what their own actions do.

*Who is at work on a run.* The safety behind `RunEnds`: when the queue has done with a job, its run has
ended. It is proved once over the protocol too, from what a step may do to the jobs and the slots
(`WorkStep`) and from runs that stay ended once they are (`EndedKept`). The invariant has two parts:
`Held`, as long as no lock of a job was lost no slot but its holder works on the run; and `Settled`, a slot
that is done with a run, and a completed job, leave it ended. `Settled` alone is not inductive, because
`MarkRunning` does not look at the status: a slot whose lock was lost may revive a run that another slot
has ended. That takes a second slot, which `Held` excludes: hence the premiss of `RunEndsWithItsJob` that
no lock of the job was lost, and the exception `Overtaken` of `RunEnds`. The claim of a sheet's run
(`ClaimRun`) takes active runs only; there `Settled` is inductive by itself and the premiss is not needed.
For the watch the same argument (`AllOver`) uses `Held` and `Launching` of `AInv`, with the same premiss,
that the run is not in `overtaken`; a run that has a job is not created again.

*Results meet what they were made from* (`AppliedToItsRegister`, `...Document`, `...Declaration`,
`...Sheet`). None is inductive. The strengthening is the same in all five modules, `RunInput`: *a run
whose revision is the present one was launched with the register, document or sheet as it is now*. Each
write of a person and each result raises the revision, so the premiss becomes false whenever the content
moves, and the comparison of the revision in the transaction gives the conclusion. Changes of the
evidence do not raise it, which is why the properties speak of the content, not of the sources. R&O
needs one more (`SlotInput`): an item that a slot left out, because it had an action when the slot looked
outside the transaction, still has one if the revision is still that of the run.

*Decisions are up to date.* PIP: a retained evaluation has a basis, and every write of a party, a
requirement, an allocation or the method reopens it; `EvaluatedPartiesExist` makes the basis meaningful.
R&O: `RowOK`, item by item. Planning: what is retained is on the fingerprint of the document, and the
link to a policy and its version agree (`Linked`, `ObjectivesLinked`). Sheets: the same for the sheet and
every version, and for the proposals that wait.

*Scope.* Drafts have no version; the versions are 1 to n, and a newer one rests on a verification that
is not older. That `LastVersion + 1` is a new number is a lemma on finite sets of naturals.

*Sheets.* That a completed proposal is not taken back by its own request needs the job: a run that a slot
has claimed has a job, so its request has left `Enqueue` behind and cannot fail it.

*Normative documents.* What each request and each slot carries between its steps (a version that exists, a
stage of its pipeline, a structure it has read) is the invariant; that a detection finds a *fresh*
structure is a pigeonhole argument: the slot that detects remembers none, so the present structure and
those that the other slots have read are at most as many as there are slots, and there is one id more. A
chunk refers to a provision that exists, so a slot that cut an older structure is refused; and the chunks
that a detection did not see are unlinked in the step that removes their provisions, so those that remain
linked are of the structure that remains. No step
withdraws the validation of a version.

### 4.3 Assumptions

TLC evaluates them in the runs. Rows, versions and runs are numbers; bounds are naturals, `Attempts` and
`MaxAttempts` are positive, also those of the analyses and the passes (`DeliveryAssumption`); the ledger's
amounts are naturals and `Calls` is finite; `None` is none of the
values it stands beside; results come from `Results`; the automatic mode of the watch is a set of
Booleans; coherent declarations of the scope are declarations; in `NormativeDocument` slots and versions
are finite and there is a generation for a forced restart. `RoRegister` states nothing itself: its
theorems are under `RoParameters`, which `PipRegister_proofs` derives for the checked instance from
`PipAssumption` and `RoAssumption`.

### 4.4 What stays with TLC

* Everything under fairness: `NoRowStuck`, `PassesEnd`, `AnalysisEnds`, `DeliveryEnds`, `RunEnds`,
  `SheetRunEnds`, `FollowedEnds`. Liveness and ENABLED are out of the prover's reach.
* The four violations, which are counterexamples.

Every other property of a passing run is stated by a theorem. Conversely `RegisterChain`
and `PublishedImmutable` of the watch, `DeliveryImplemented` of the watch, the evaluation and the PIP and R&O
modules, `RunEndsWithItsJob` of the five SMQ modules, `AnalysisEndsWithItsJob` and the composition
theorems are proved and no run lists them.

## 5. Plan

1. `RegulatoryImpact`: the event outbox over several watches, the dispatcher's job ids and the failed
   events; composes with the watch's claim.
2. `CarryForward`: publication copies evaluations that are saved meanwhile; composes
   `RegulatoryEvaluation` and `RegulatoryWatch`.
3. `AnalysisLedger`: the analysis worker's ledger, whose recovery has no age limit.
4. `ContextAnalysis` on `AnalysisRun`; `EmbeddingProfile`, composed with `NormativeDocument`.
5. Pure operators with reference definitions: `RateLimiter`, `ModelCost`, `RetryBackoff`,
   `ProfileCompletion`.
6. Proofs: what the queues of the emails, whose jobs are removed, and of the documents, which may start
   with jobs that have ended, still promise of `JobDelivery`; at most one active run per project.

Not modelled and why: presentation, generated clients, prompts and wording (no state of their own);
object storage and the language models' answers (environment: any outcome); better-auth's sessions
(a library); deployment and migrations.
