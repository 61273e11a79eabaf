------------------------ MODULE RegulatoryEvaluation ------------------------
(***************************************************************************)
(* Conformity evaluation of one published regulatory baseline.             *)
(*                                                                         *)
(* A person decides the conformity of every register row; an AI pass (one  *)
(* BullMQ job of the queue "regulatory-evaluation") proposes corrective    *)
(* actions for the gaps.  The API (startEvaluation, updateEvaluation) and  *)
(* the worker write the same rows without a common lock: the decision is   *)
(* protected by the row's revision, the spending by a ledger whose         *)
(* reservations are made under a row lock of the analysis run.             *)
(*                                                                         *)
(* One action is one statement or transaction of the database, together    *)
(* with the local computation after it; a request or a job attempt is a    *)
(* sequence of actions, so all of them interleave.                         *)
(***************************************************************************)
EXTENDS Integers, FiniteSets

CONSTANTS
    Rows,            \* evaluations of the baseline, numbered by orderIndex
    Jobs,            \* evaluation passes that are requested (a bound)
    Workers,         \* job slots of the worker processes (concurrency 2)
    Users,           \* updateEvaluation requests in progress at a time
    Calls,           \* identities for model calls in the ledger
    Reserve,         \* what one model call reserves, the worst case
    Budget,          \* regulatoryEvaluationBudgetUsd of the analysis run
    Attempts,        \* attempts of a job: 5 in the code
    MaxConsecutive,  \* MAX_CONSECUTIVE_FAILURES: 5 in the code
    MaxStalled,      \* BullMQ's maxStalledCount, 1 by default
    MaxRevision,     \* bound on the revisions of a row
    Carried,         \* results that the baseline starts with (carry-forward)
    Chosen,          \* results that people choose from (a bound)
    None             \* no value

ASSUME RowsAssumption == Rows \subseteq Nat
ASSUME LedgerAssumption ==
    Reserve \in Nat /\ Budget \in Nat /\ IsFiniteSet(Calls)
ASSUME DeliveryAssumption == Attempts \in Nat \ {0} /\ MaxStalled \in Nat
ASSUME NoneAssumption ==
    /\ None \notin Workers \cup Jobs \cup Calls \cup Rows
    /\ None \notin [result : {"NOT_ASSESSED", "CONFORMING", "PARTIAL", "NON_CONFORMING"},
                    revision : Nat]

Results == {"NOT_ASSESSED", "CONFORMING", "PARTIAL", "NON_CONFORMING"}
Gaps == {"PARTIAL", "NON_CONFORMING"}

ASSUME ResultsAssumption ==
    Carried \subseteq Results /\ Chosen \subseteq Results /\ None \notin Results

VARIABLES
    row,      \* regulatory_evaluations: the decision and the AI proposal
    job,      \* BullMQ: the job of a pass, or the request that enqueues it
    worker,   \* what a job slot remembers of the attempt it runs
    call,     \* regulatory_model_calls still RUNNING, by identity
    settled,  \* sum of cost_micro_usd over the settled calls
    edit      \* what an updateEvaluation request read before its write

vars == <<row, job, worker, call, settled, edit>>

-----------------------------------------------------------------------------
(* Rows.                                                                   *)

\* evaluatedAt is null exactly for NOT_ASSESSED, and the pair of revision and
\* evaluatedAt that the worker's guard compares moves on every save.
Decision(r) == [result |-> row[r].result, revision |-> row[r].revision]

\* A gap that a person has assessed.
IsGap(r) == row[r].result \in Gaps

\* Mutant of Retryable: a pass that died keeps its rows for good.
RetryableWithoutStale ==
    {r \in Rows : IsGap(r) /\ row[r].aiStatus \in {"PENDING", "FAILED"}}

\* The rows a new pass may reset.  "stale": untouched for staleAiEvaluationMs.
Retryable ==
    {r \in Rows : /\ IsGap(r)
                  /\ \/ row[r].aiStatus \in {"PENDING", "FAILED"}
                     \/ row[r].aiStatus = "RUNNING" /\ row[r].stale}

\* An AI-side write: it touches updatedAt and never the decision.
WithAi(r, status, proposal) ==
    [row[r] EXCEPT !.aiStatus = status, !.proposal = proposal, !.stale = FALSE]

\* failEvaluations: only assessed rows that still wait for their proposal.
FailEvaluations(ids) ==
    row' = [r \in Rows |->
              IF /\ r \in ids /\ row[r].result # "NOT_ASSESSED"
                 /\ row[r].aiStatus = "RUNNING"
              THEN WithAi(r, "FAILED", row[r].proposal) ELSE row[r]]

-----------------------------------------------------------------------------
(* The ledger.                                                             *)

RunningCalls == {c \in Calls : call[c] # "free"}
Committed == settled + Reserve * Cardinality(RunningCalls)

\* Mutant of Settle: the cost is given back instead of charged.
SettleRefunds(c, cost) ==
    /\ call' = [call EXCEPT ![c] = "free"]
    /\ settled' = IF call[c] = "free" THEN settled ELSE settled - cost

\* settleModelCall updates a call only while it is RUNNING; a settled call is
\* never read again on its own, so its identity becomes free.
Settle(c, cost) ==
    /\ call' = [call EXCEPT ![c] = "free"]
    /\ settled' = IF call[c] = "free" THEN settled ELSE settled + cost

\* recoverAbandonedModelCalls: calls older than 15 minutes, charged 0.
RecoverAbandoned ==
    call' = [c \in Calls |-> IF call[c] = "overdue" THEN "free" ELSE call[c]]

-----------------------------------------------------------------------------
(* State of a job slot and of a request.                                   *)

Idle == [pc |-> "idle", job |-> None, attempt |-> 0, fails |-> 0,
         snap |-> [r \in Rows |-> None], todo |-> {}, at |-> None, call |-> None]

\* Where the loop over the pending entries continues.
NextPc(todo) == IF todo = {} THEN "done" ELSE "mark"

\* Does row r still carry the decision the slot's attempt was started on?
Unchanged(w, r) == worker[w].snap[r] = Decision(r)

\* The rows whose proposal this slot still has to produce.
Holds(w) == worker[w].todo \cup ({worker[w].at} \ {None})

NoEdit == [pc |-> "idle", row |-> None, expected |-> 0, result |-> None]

Init ==
    /\ row \in [Rows -> [result : Carried, revision : {1}, aiStatus : {"PENDING"},
                         proposal : {None}, stale : {FALSE}]]
    /\ job = [j \in Jobs |->
                [status |-> "none", scope |-> {}, made |-> 0, stalled |-> 0, holder |-> None]]
    /\ worker = [w \in Workers |-> Idle]
    /\ call = [c \in Calls |-> "free"]
    /\ settled = 0
    /\ edit = [u \in Users |-> NoEdit]

-----------------------------------------------------------------------------
(* The API.                                                                *)

\* startEvaluation up to the enqueue: the retryable rows are reset in one
\* statement; without any the request is refused.  The code does not remember
\* which rows it reset: "scope" is a history variable, read by no action, that
\* ends with the request.
StartEvaluation(j) ==
    /\ job[j].status = "none"
    /\ Retryable # {}
    /\ row' = [r \in Rows |-> IF r \in Retryable THEN WithAi(r, "RUNNING", None)
                                                 ELSE row[r]]
    /\ job' = [job EXCEPT ![j].status = "reset", ![j].scope = Retryable]
    /\ UNCHANGED <<worker, call, settled, edit>>

\* The idempotency key is random: every request gets a job of its own.
Enqueue(j) ==
    /\ job[j].status = "reset"
    /\ job' = [job EXCEPT ![j].status = "waiting", ![j].scope = {}]
    /\ UNCHANGED <<row, worker, call, settled, edit>>

\* The catch block of startEvaluation: every RUNNING gap of the baseline fails.
EnqueueFails(j) ==
    /\ job[j].status = "reset"
    /\ job' = [job EXCEPT ![j].status = "rejected", ![j].scope = {}]
    /\ FailEvaluations({r \in Rows : IsGap(r)})
    /\ UNCHANGED <<worker, call, settled, edit>>

\* updateEvaluation, first half: currentEvaluation reads the row.  The client
\* sends a revision it was shown, the current one or an earlier one.
ReadEvaluation(u, r, expected) ==
    /\ edit[u].pc = "idle"
    /\ expected \in 1..row[r].revision
    /\ edit' = [edit EXCEPT ![u] = [pc |-> "read", row |-> r, expected |-> expected,
                                    result |-> row[r].result]]
    /\ UNCHANGED <<row, job, worker, call, settled>>

\* Mutant of SaveDecision: the save does not compare the revision.
SaveDecisionUnchecked(u, result) ==
    LET r == edit[u].row IN
    /\ edit[u].pc = "read"
    /\ row[r].revision < MaxRevision
    /\ row' = [row EXCEPT ![r] =
                 [result   |-> result,
                  revision |-> @.revision + 1,
                  aiStatus |-> IF edit[u].result # result THEN "PENDING" ELSE @.aiStatus,
                  proposal |-> IF edit[u].result # result THEN None ELSE @.proposal,
                  stale    |-> FALSE]]
    /\ edit' = [edit EXCEPT ![u] = NoEdit]
    /\ UNCHANGED <<job, worker, call, settled>>

\* updateEvaluation, second half: the save succeeds only on the revision that
\* the client sent.  A result other than the one read discards the proposal.
SaveDecision(u, result) ==
    LET r == edit[u].row IN
    /\ edit[u].pc = "read"
    /\ row[r].revision = edit[u].expected
    /\ row[r].revision < MaxRevision
    /\ row' = [row EXCEPT ![r] =
                 [result   |-> result,
                  revision |-> @.revision + 1,
                  aiStatus |-> IF edit[u].result # result THEN "PENDING" ELSE @.aiStatus,
                  proposal |-> IF edit[u].result # result THEN None ELSE @.proposal,
                  stale    |-> FALSE]]
    /\ edit' = [edit EXCEPT ![u] = NoEdit]
    /\ UNCHANGED <<job, worker, call, settled>>

\* The row moved on since the client loaded it: ConflictException.
SaveConflicts(u) ==
    /\ edit[u].pc = "read"
    /\ row[edit[u].row].revision # edit[u].expected
    /\ edit' = [edit EXCEPT ![u] = NoEdit]
    /\ UNCHANGED <<row, job, worker, call, settled>>

-----------------------------------------------------------------------------
(* The worker: one attempt of a job in a slot.                             *)

TakeJob(w, j) ==
    /\ worker[w].pc = "idle"
    /\ job[j].status = "waiting"
    /\ job' = [job EXCEPT ![j].status = "active", ![j].holder = w]
    /\ worker' = [worker EXCEPT ![w] =
                    [Idle EXCEPT !.pc = "load", !.job = j, !.attempt = job[j].made + 1]]
    /\ UNCHANGED <<row, call, settled, edit>>

\* The baseline is read once per attempt; its RUNNING gaps are the pending
\* entries.  Calls that a dead worker left behind are written off.
LoadBaseline(w) ==
    LET pending == {r \in Rows : IsGap(r) /\ row[r].aiStatus = "RUNNING"} IN
    /\ worker[w].pc = "load"
    /\ worker' = [worker EXCEPT ![w] = [@ EXCEPT
         !.snap = [r \in Rows |-> IF r \in pending THEN Decision(r) ELSE None],
         !.todo = pending, !.pc = NextPc(pending)]]
    /\ RecoverAbandoned
    /\ UNCHANGED <<row, job, settled, edit>>

\* The next entry, in the order of the register, is announced as RUNNING,
\* unless its decision has moved since the snapshot.
MarkRunning(w) ==
    /\ worker[w].pc = "mark"
    /\ \E r \in worker[w].todo :
         /\ \A s \in worker[w].todo : r <= s
         /\ row' = IF Unchanged(w, r)
                   THEN [row EXCEPT ![r] = WithAi(r, "RUNNING", @.proposal)] ELSE row
         /\ worker' = [worker EXCEPT ![w] = [@ EXCEPT !.at = r, !.todo = worker[w].todo \ {r},
                                                      !.pc = "reserve"]]
    /\ UNCHANGED <<job, call, settled, edit>>

\* Mutant of ReserveCall: only settled calls count against the budget.
ReserveCallSettledOnly(w) ==
    /\ worker[w].pc = "reserve"
    /\ settled + Reserve <= Budget
    /\ \E c \in Calls :
         /\ call[c] = "free" /\ \A v \in Workers : worker[v].call # c
         /\ call' = [call EXCEPT ![c] = "running"]
         /\ worker' = [worker EXCEPT ![w] = [@ EXCEPT !.call = c, !.pc = "call"]]
    /\ UNCHANGED <<row, job, settled, edit>>

\* reserveModelCall: the sums are read and the call inserted under the lock of
\* the analysis run, so the transaction is one step.
ReserveCall(w) ==
    /\ worker[w].pc = "reserve"
    /\ Committed + Reserve <= Budget
    /\ \E c \in Calls :
         /\ call[c] = "free" /\ \A v \in Workers : worker[v].call # c
         /\ call' = [call EXCEPT ![c] = "running"]
         /\ worker' = [worker EXCEPT ![w] = [@ EXCEPT !.call = c, !.pc = "call"]]
    /\ UNCHANGED <<row, job, settled, edit>>

\* RegulatoryEvaluationBudgetError: this entry and all later ones are parked.
BudgetExhausted(w) ==
    /\ worker[w].pc = "reserve"
    /\ Committed + Reserve > Budget
    /\ worker' = [worker EXCEPT ![w] = [@ EXCEPT !.pc = "park", !.todo = Holds(w),
                                                 !.at = None]]
    /\ UNCHANGED <<row, job, call, settled, edit>>

\* The provider answers and the call is settled at its measured cost, which
\* the reservation bounds.
Generate(w) ==
    /\ worker[w].pc = "call"
    /\ \E cost \in 0..Reserve : Settle(worker[w].call, cost)
    /\ worker' = [worker EXCEPT ![w] = [@ EXCEPT !.call = None, !.pc = "write"]]
    /\ UNCHANGED <<row, job, edit>>

\* The call fails or times out: it is settled at the usage that the error
\* reports, or at the whole reservation.
CallFails(w) ==
    /\ worker[w].pc = "call"
    /\ \E cost \in 0..Reserve : Settle(worker[w].call, cost)
    /\ worker' = [worker EXCEPT ![w] = [@ EXCEPT !.call = None, !.pc = "fail"]]
    /\ UNCHANGED <<row, job, edit>>

\* Mutant of WriteProposal: the write is not guarded by the decision.
WriteProposalUnguarded(w) ==
    LET r == worker[w].at IN
    /\ worker[w].pc = "write"
    /\ row' = [row EXCEPT ![r] = WithAi(r, "COMPLETED", worker[w].snap[r])]
    /\ worker' = [worker EXCEPT ![w] = [@ EXCEPT !.at = None, !.fails = 0,
                                                 !.pc = NextPc(worker[w].todo)]]
    /\ UNCHANGED <<job, call, settled, edit>>

\* The proposal lands only on the decision that it was generated for.
WriteProposal(w) ==
    LET r == worker[w].at IN
    /\ worker[w].pc = "write"
    /\ row' = IF Unchanged(w, r)
              THEN [row EXCEPT ![r] = WithAi(r, "COMPLETED", worker[w].snap[r])] ELSE row
    /\ worker' = [worker EXCEPT ![w] = [@ EXCEPT !.at = None, !.fails = 0,
                                                 !.pc = NextPc(worker[w].todo)]]
    /\ UNCHANGED <<job, call, settled, edit>>

\* Normalising or writing the proposal fails: the catch block settles the call
\* again, without effect, and goes on as for a failed call.
WriteFails(w) ==
    /\ worker[w].pc = "write"
    /\ worker' = [worker EXCEPT ![w].pc = "fail"]
    /\ UNCHANGED <<row, job, call, settled, edit>>

\* Mutant of FailEntry: the last attempt stops without parking the rest.
FailEntryWithoutPark(w) ==
    LET fails == worker[w].fails + 1 IN
    /\ worker[w].pc = "fail"
    /\ FailEvaluations({worker[w].at})
    /\ worker' = [worker EXCEPT ![w] = [@ EXCEPT
         !.at = None, !.fails = fails,
         !.pc = IF fails < MaxConsecutive THEN NextPc(worker[w].todo)
                ELSE IF worker[w].attempt < Attempts THEN "throw" ELSE "done"]]
    /\ UNCHANGED <<job, call, settled, edit>>

\* The entry fails whatever its revision is by now.  Too many failures in a row
\* end the attempt, and the last attempt parks the entries it did not reach.
FailEntry(w) ==
    LET fails == worker[w].fails + 1 IN
    /\ worker[w].pc = "fail"
    /\ FailEvaluations({worker[w].at})
    /\ worker' = [worker EXCEPT ![w] = [@ EXCEPT
         !.at = None, !.fails = fails,
         !.pc = IF fails < MaxConsecutive THEN NextPc(worker[w].todo)
                ELSE IF worker[w].attempt < Attempts THEN "throw" ELSE "park"]]
    /\ UNCHANGED <<job, call, settled, edit>>

\* The remaining entries wait for an explicit re-run.
ParkRemaining(w) ==
    /\ worker[w].pc = "park"
    /\ FailEvaluations(worker[w].todo)
    /\ worker' = [worker EXCEPT ![w] = [@ EXCEPT !.todo = {}, !.pc = "done"]]
    /\ UNCHANGED <<job, call, settled, edit>>

-----------------------------------------------------------------------------
(* The end of an attempt, and the ways it is cut short.                    *)

FinishJob(w) ==
    /\ worker[w].pc = "done"
    /\ job' = IF job[worker[w].job].holder = w
              THEN [job EXCEPT ![worker[w].job].status = "completed",
                               ![worker[w].job].holder = None]
              ELSE job
    /\ worker' = [worker EXCEPT ![w] = Idle]
    /\ UNCHANGED <<row, call, settled, edit>>

\* Mutant of FailAttempt: a failed attempt is not counted.
FailAttemptUncounted(w) ==
    LET j == worker[w].job IN
    /\ job' = IF job[j].holder = w
              THEN [job EXCEPT ![j] = [@ EXCEPT !.holder = None, !.status = "waiting"]]
              ELSE job
    /\ worker' = [worker EXCEPT ![w] = Idle]
    /\ UNCHANGED <<row, call, settled, edit>>

\* The attempt throws: BullMQ runs the job again, or keeps it as failed.
FailAttempt(w) ==
    LET j == worker[w].job
        made == job[j].made + 1 IN
    /\ job' = IF job[j].holder = w
              THEN [job EXCEPT ![j] =
                     [@ EXCEPT !.made = made, !.holder = None,
                               !.status = IF made < Attempts THEN "waiting" ELSE "failed"]]
              ELSE job
    /\ worker' = [worker EXCEPT ![w] = Idle]
    /\ UNCHANGED <<row, call, settled, edit>>

GiveUp(w) == worker[w].pc = "throw" /\ FailAttempt(w)

\* A database or Redis error outside the try block of an entry, at any step.
DatabaseError(w) == worker[w].pc \notin {"idle", "throw"} /\ FailAttempt(w)

\* The process dies: what the slot remembered is lost, its call stays RUNNING.
Crash(w) ==
    /\ worker[w].pc # "idle"
    /\ worker' = [worker EXCEPT ![w] = Idle]
    /\ job' = [j \in Jobs |-> IF job[j].holder = w THEN [job[j] EXCEPT !.holder = None]
                                                   ELSE job[j]]
    /\ UNCHANGED <<row, call, settled, edit>>

\* The lock of the job expired: it is delivered again, but not without end.
\* The slot may be dead (holder None) or only too slow to renew the lock.
StallJob(j) ==
    /\ job[j].status = "active"
    /\ job' = [job EXCEPT ![j] =
                 [@ EXCEPT !.holder = None, !.stalled = job[j].stalled + 1,
                           !.status = IF job[j].stalled < MaxStalled THEN "waiting" ELSE "failed"]]
    /\ UNCHANGED <<row, worker, call, settled, edit>>

\* Ten minutes without a write to a RUNNING row.  A model call is shorter than
\* that (regulatoryTimeoutMs), the wait for earlier entries may be longer.
AgeRow(r) ==
    /\ row[r].aiStatus = "RUNNING" /\ ~row[r].stale
    /\ \A w \in Workers : worker[w].at # r
    /\ row' = [row EXCEPT ![r].stale = TRUE]
    /\ UNCHANGED <<job, worker, call, settled, edit>>

\* Fifteen minutes since a call was made that no live slot waits for any more.
AgeCall(c) ==
    /\ call[c] = "running"
    /\ \A w \in Workers : worker[w].call # c
    /\ call' = [call EXCEPT ![c] = "overdue"]
    /\ UNCHANGED <<row, job, worker, settled, edit>>

-----------------------------------------------------------------------------
\* What a live slot does by itself.
Proceed(w) ==
    \/ LoadBaseline(w) \/ MarkRunning(w) \/ ReserveCall(w) \/ BudgetExhausted(w)
    \/ Generate(w) \/ CallFails(w) \/ WriteProposal(w) \/ WriteFails(w)
    \/ FailEntry(w) \/ ParkRemaining(w) \/ FinishJob(w) \/ GiveUp(w)

Next ==
    \/ \E j \in Jobs : StartEvaluation(j) \/ Enqueue(j) \/ EnqueueFails(j) \/ StallJob(j)
    \/ \E u \in Users :
         \/ \E r \in Rows : \E v \in 1..MaxRevision : ReadEvaluation(u, r, v)
         \/ \E result \in Chosen : SaveDecision(u, result)
         \/ SaveConflicts(u)
    \/ \E w \in Workers :
         \/ \E j \in Jobs : TakeJob(w, j)
         \/ Proceed(w) \/ DatabaseError(w) \/ Crash(w)
    \/ \E r \in Rows : AgeRow(r)
    \/ \E c \in Calls : AgeCall(c)

Spec == Init /\ [][Next]_vars

\* The API answers, live slots run, BullMQ delivers waiting jobs and notices
\* the ones whose slot is gone, and time passes.  People owe nothing.
Fairness ==
    /\ \A j \in Jobs :
         /\ WF_vars(Enqueue(j) \/ EnqueueFails(j))
         /\ WF_vars(\E w \in Workers : TakeJob(w, j))
         /\ WF_vars(job[j].holder = None /\ StallJob(j))
    /\ \A w \in Workers : WF_vars(Proceed(w))
    /\ \A r \in Rows : WF_vars(AgeRow(r))

FairSpec == Spec /\ Fairness

-----------------------------------------------------------------------------
(* Properties.                                                             *)

DecisionRecords == [result : Results, revision : Nat \ {0}]

RowRecords ==
    [result : Results, revision : Nat \ {0},
     aiStatus : {"PENDING", "RUNNING", "COMPLETED", "FAILED"},
     proposal : {None} \cup DecisionRecords, stale : BOOLEAN]

JobRecords ==
    [status : {"none", "reset", "rejected", "waiting", "active", "completed", "failed"},
     scope : SUBSET Rows, made : Nat, stalled : Nat, holder : Workers \cup {None}]

SlotRecords ==
    [pc : {"idle", "load", "mark", "reserve", "park", "call", "write", "fail", "throw",
           "done"},
     job : Jobs \cup {None}, attempt : Nat, fails : Nat,
     snap : [Rows -> {None} \cup DecisionRecords],
     todo : SUBSET Rows, at : Rows \cup {None}, call : Calls \cup {None}]

EditRecords ==
    [pc : {"idle", "read"}, row : Rows \cup {None}, expected : Nat,
     result : Results \cup {None}]

\* Every variable holds what its table, queue or request can hold.
TypeOK ==
    /\ row \in [Rows -> RowRecords]
    /\ job \in [Jobs -> JobRecords]
    /\ worker \in [Workers -> SlotRecords]
    /\ call \in [Calls -> {"free", "running", "overdue"}]
    /\ settled \in Nat
    /\ edit \in [Users -> EditRecords]

\* A row shows an action proposal as COMPLETED only next to the result it was
\* generated for, whatever saves, re-runs, retries and late answers overlapped
\* in between; and a row that is no gap any more has no AI state left.
ProposalMatchesDecision ==
    \A r \in Rows :
      /\ row[r].aiStatus = "COMPLETED" =>
           /\ row[r].proposal # None
           /\ row[r].proposal.result = row[r].result
           /\ row[r].proposal.revision <= row[r].revision
      /\ row[r].aiStatus # "PENDING" => IsGap(r)

\* The decision of a row changes only by the save of a person who had this very
\* decision in front of them: no pass alters it and no save overwrites another.
NoLostDecision ==
    [][\A r \in Rows : Decision(r)' # Decision(r) =>
         /\ row'[r].revision = row[r].revision + 1
         /\ \E u \in Users : /\ edit[u].row = r
                             /\ edit[u].expected = row[r].revision
                             /\ edit[u].result = row[r].result]_vars

\* The evaluation budget is a hard ceiling: what is settled and what running
\* calls have reserved never exceed it, however many passes spend at once.
BudgetRespected == Committed <= Budget

\* A pass that runs to its end has answered every gap it was delivered with: a
\* row still RUNNING on the same decision is the business of another pass.
\* (Jobs delivered twice because of a lost lock are left out.)
FinishedPassLeavesNothing ==
    (\A j \in Jobs : job[j].stalled = 0) =>
      \A w \in Workers : worker[w].pc = "done" =>
        \A r \in Rows :
          (Unchanged(w, r) /\ row[r].aiStatus = "RUNNING") =>
            \E j \in Jobs \ {worker[w].job} :
              job[j].status \notin {"none", "rejected", "completed"}

\* No gap stays "in progress" for good: it gets an outcome, or a person may
\* start a pass for it again.
NoRowStuck ==
    \A r \in Rows :
      row[r].aiStatus = "RUNNING" ~> (row[r].aiStatus # "RUNNING" \/ r \in Retryable)

\* Every pass that was enqueued ends, through failing calls, an exhausted budget,
\* crashes and lost locks.
PassesEnd ==
    \A j \in Jobs : job[j].status = "waiting" ~> job[j].status \in {"completed", "failed"}

\* What a job is to the processor, in the terms of JobDelivery: a request that has not
\* enqueued has no job yet, and the delivery of an active or completed job is used.
Progress(j) ==
    [status |-> IF j.status = "completed" THEN "done"
                ELSE IF j.status = "failed" THEN "failed"
                ELSE IF j.status \in {"waiting", "active"} THEN "queued" ELSE "none",
     left |-> Attempts + MaxStalled - j.made - j.stalled
                - (IF j.status \in {"active", "completed"} THEN 1 ELSE 0)]

Delivery == INSTANCE JobDelivery WITH
    Deliveries <- Attempts + MaxStalled,
    job <- [j \in Jobs |-> Progress(job[j])]

\* A pass is enqueued once, delivered at most once for every attempt and every stall that
\* is forgiven, and never after its end, although a slot goes on without its lock.
DeliveryImplemented == Delivery!Spec

\* What the comment in startEvaluation claims of its catch block: a failed
\* enqueue fails only the rows that this call reset.
EnqueueFailureScoped ==
    [][\A j \in Jobs : job[j].status = "reset" /\ job'[j].status = "rejected" =>
         \A r \in Rows : row'[r].aiStatus # row[r].aiStatus => r \in job[j].scope]_vars

\* What the comment in startEvaluation claims of re-runs: a COMPLETED proposal
\* is only discarded by a decision of a person.
CompletedProposalKept ==
    [][\A r \in Rows :
         row[r].aiStatus = "COMPLETED" /\ row'[r].aiStatus # "COMPLETED" =>
           Decision(r)' # Decision(r)]_vars
=============================================================================
