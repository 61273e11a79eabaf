---------------------------- MODULE PipRegister ----------------------------
(***************************************************************************)
(* The register of interested parties (PIP) of one project: parties, their *)
(* requirements and evaluations, the analysis runs that propose them, and  *)
(* the people who review, allocate and validate them.                      *)
(*                                                                         *)
(* Every write of the API and of the worker is a transaction under a lock  *)
(* on the project row, one action here.  A launch and a validation read    *)
(* the evidence (profile, context, regulations, answers) before that lock; *)
(* a run remembers the revision it was launched at, and its result is only *)
(* applied at that revision.                                               *)
(*                                                                         *)
(* "RETAINED" stands for VALIDATED and MODIFIED, which every rule treats   *)
(* alike.  Texts are reduced to who wrote them; the evidence to a number   *)
(* that its fingerprint stands for.  A party has one requirement here.     *)
(***************************************************************************)
EXTENDS Integers, Sequences

CONSTANTS
    Parties,      \* canonical keys of interested parties
    Methods,      \* evaluation methods people choose from
    Services,     \* allocations people choose from: sets of services, or none
    MaxRuns,      \* bound on the analysis runs
    MaxWrites,    \* bound on the writes to the register
    MaxMaterial,  \* bound on the changes of the evidence
    Requests,     \* API requests in progress at a time
    Slots,        \* slots of the analysis worker (concurrency 2)
    Attempts,     \* attempts of a job (5 in the code)
    MaxStalled,   \* stalls of a job that are forgiven (1 in the code)
    None          \* no value

Runs == 1..MaxRuns

Stages == {"INVENTORY", "REQUIREMENTS", "EVALUATION"}
Reviews == {"PENDING", "RETAINED", "NOT_RETAINED"}
Kinds == {"need", "expectation"}
AllScores == {"power_interest", "criticality"}

\* The rows of the tables; an evaluation remembers what it was decided on (basis).
PartyRows == [origin : {"ai", "user"}, status : Reviews, by : {"ai", "user"}]
RequirementRows ==
    [status : Reviews, by : {"ai", "user"}, kind : Kinds, services : Services \cup {None}]
EvaluationRows ==
    [status : Reviews, scores : SUBSET AllScores, override : BOOLEAN,
     basis : [party : PartyRows \cup {None}, requirement : RequirementRows \cup {None},
              method : Methods \cup {"both"}] \cup {None}]

ASSUME PipAssumption ==
    /\ MaxRuns \in Nat /\ MaxWrites \in Nat /\ MaxMaterial \in Nat
    /\ Attempts \in Nat \ {0} /\ MaxStalled \in Nat
    /\ Methods \subseteq {"both", "power_interest", "criticality"}
    /\ Parties # {} /\ Services # {}
    /\ None \notin Runs \cup Nat \cup Services \cup Slots
    /\ None \notin PartyRows \cup RequirementRows \cup EvaluationRows

VARIABLES
    material,     \* the evidence outside the register
    state,        \* pip_states: revision, method, fingerprint of the inventory,
                  \*   validation (and the limit of the revision here)
    party,        \* pip_parties, by canonical key
    requirement,  \* pip_requirements: the one of each party
    evaluation,   \* pip_evaluations of each party, oldest first
    run,          \* pip_runs
    job,          \* the job of each run, as WorkQueue has it
    request,      \* what an API request read before its transaction
    slot          \* what a slot of the worker is at

rows == <<party, requirement, evaluation>>
worker == <<job, slot>>
vars == <<material, state, rows, run, worker, request>>

Analysis == INSTANCE AnalysisRun

NoRun == [status |-> "none", stage |-> None, revision |-> 0, fingerprint |-> None,
          method |-> None, parties |-> [k \in Parties |-> None]]

-----------------------------------------------------------------------------
(* The completion rules (workflow.ts).                                     *)

isRetained(row) == row # None /\ row.status = "RETAINED"

\* Of the scores the method asks for, none may be missing.
ScoresComplete(scores, method) ==
    /\ method # "criticality" => "power_interest" \in scores
    /\ method # "power_interest" => "criticality" \in scores

Latest(k) == IF evaluation[k] = <<>> THEN None ELSE evaluation[k][Len(evaluation[k])]

evaluationComplete(k, method) ==
    isRetained(Latest(k)) /\ ScoresComplete(Latest(k).scores, method)

RetainedParties == {k \in Parties : isRetained(party[k])}

InventoryDone(outdated) == RetainedParties # {} /\ ~outdated

\* Every retained party has a requirement that is not rejected, and none is open.
RequirementsDone(outdated) ==
    /\ InventoryDone(outdated)
    /\ \A k \in RetainedParties : isRetained(requirement[k])

\* A need asks for no allocation.
AllocationDone(outdated) ==
    /\ RequirementsDone(outdated)
    /\ \A k \in RetainedParties :
         requirement[k].kind # "need" => requirement[k].services # None

Complete(outdated, method) ==
    /\ AllocationDone(outdated)
    /\ \A k \in RetainedParties : evaluationComplete(k, method)

\* What a run is given of the register: the retained rows, without evaluations.
RetainedRows ==
    [k \in Parties |->
       IF isRetained(party[k])
       THEN [party |-> party[k],
             requirement |-> IF isRetained(requirement[k]) THEN requirement[k] ELSE None]
       ELSE None]

-----------------------------------------------------------------------------
\* What an evaluation of party k is judged on.
Judged(k) == [party |-> party[k], requirement |-> requirement[k], method |-> state.method]

\* For one party: an inventory, a run for the requirements, two reviews and an
\* allocation; then an evaluation and its review.
WritesOf == [nothing |-> 0, allocated |-> 5, evaluated |-> 7]

\* A project that starts, and one whose parties and requirements have been
\* proposed, reviewed and allocated, or evaluated and validated too.  The runs that
\* led there have ended.
Init ==
    /\ \E done \in DOMAIN WritesOf :
         /\ state = [revision |-> WritesOf[done], limit |-> WritesOf[done] + MaxWrites,
                     method |-> "both", validated |-> done = "evaluated",
                     fingerprint |-> IF done = "nothing" THEN None ELSE 0]
         /\ party = [k \in Parties |->
              IF done = "nothing" THEN None
              ELSE [origin |-> "ai", status |-> "RETAINED", by |-> "ai"]]
         /\ requirement = [k \in Parties |->
              IF done = "nothing" THEN None
              ELSE [status |-> "RETAINED", by |-> "ai", kind |-> "expectation",
                    services |-> CHOOSE x \in Services : TRUE]]
         /\ evaluation = [k \in Parties |->
              IF done # "evaluated" THEN <<>>
              ELSE <<[status |-> "RETAINED", scores |-> AllScores, override |-> TRUE,
                      basis |-> Judged(k)]>>]
    /\ material = 0
    /\ run = [r \in Runs |-> NoRun]
    /\ Analysis!Init

\* All evaluations of the parties ks need a new decision.
Reopened(ks) ==
    [k \in Parties |->
       IF k \in ks
       THEN [i \in DOMAIN evaluation[k] |-> [evaluation[k][i] EXCEPT !.status = "PENDING", !.basis = None]]
       ELSE evaluation[k]]

\* Mutant of Touched: the validation survives the write.
TouchedStillValidated(s) == [s EXCEPT !.revision = s.revision + 1]

\* changed: a write moves the revision and ends the validation.
Touched(s) == [s EXCEPT !.revision = s.revision + 1, !.validated = FALSE]

Change(s) == s.revision < s.limit /\ state' = Touched(s)

-----------------------------------------------------------------------------
(* The API: writes under the lock of the project.                          *)

\* Somebody edits the profile, the context or the regulatory register.
ChangeMaterial ==
    /\ material < MaxMaterial
    /\ material' = material + 1
    /\ UNCHANGED <<state, rows, run, worker, request>>

AddParty(k) ==
    /\ party[k] = None
    /\ party' = [party EXCEPT ![k] = [origin |-> "user", status |-> "RETAINED", by |-> "user"]]
    /\ Change(state)
    /\ UNCHANGED <<material, requirement, evaluation, run, worker, request>>

AddRequirement(k) ==
    /\ isRetained(party[k]) /\ requirement[k] = None
    /\ \E kind \in Kinds :
         requirement' = [requirement EXCEPT ![k] =
           [status |-> "RETAINED", by |-> "user", kind |-> kind, services |-> None]]
    /\ evaluation' = Reopened({k})
    /\ Change(state)
    /\ UNCHANGED <<material, party, run, worker, request>>

ReviewParty(k) ==
    /\ party[k] # None
    /\ \E status \in Reviews : \E by \in {party[k].by, "user"} :
         party' = [party EXCEPT ![k] = [@ EXCEPT !.status = status, !.by = by]]
    /\ evaluation' = Reopened({k})
    /\ Change(state)
    /\ UNCHANGED <<material, requirement, run, worker, request>>

\* A requirement with another text needs another allocation.
Reviewed(row, status, edited) ==
    IF edited THEN [row EXCEPT !.status = status, !.by = "user", !.services = None]
    ELSE [row EXCEPT !.status = status]

ReviewRequirement(k) ==
    /\ requirement[k] # None
    /\ \E status \in Reviews : \E edited \in BOOLEAN :
         requirement' = [requirement EXCEPT ![k] = Reviewed(requirement[k], status, edited)]
    /\ evaluation' = Reopened({k})
    /\ Change(state)
    /\ UNCHANGED <<material, party, run, worker, request>>

\* Mutant of Allocate: the evaluations of the party stay decided.
AllocateOnly(k) ==
    /\ isRetained(party[k]) /\ isRetained(requirement[k])
    /\ requirement[k].kind # "need"
    /\ \E services \in Services :
         requirement' = [requirement EXCEPT ![k].services = services]
    /\ Change(state)
    /\ UNCHANGED <<material, party, evaluation, run, worker, request>>

Allocate(k) ==
    /\ isRetained(party[k]) /\ isRetained(requirement[k])
    /\ requirement[k].kind # "need"
    /\ \E services \in Services :
         requirement' = [requirement EXCEPT ![k].services = services]
    /\ evaluation' = Reopened({k})
    /\ Change(state)
    /\ UNCHANGED <<material, party, run, worker, request>>

\* A person decides on row i of the party's evaluations, not only on the last.
ReviewEvaluation(k, i) ==
    /\ i \in DOMAIN evaluation[k]
    /\ \E status \in Reviews :
       \E scores \in {evaluation[k][i].scores, AllScores} :
         /\ status = "RETAINED" =>
              AllocationDone(FALSE) /\ ScoresComplete(scores, state.method)
         /\ evaluation' = [evaluation EXCEPT ![k][i] =
              [status |-> status, scores |-> scores, override |-> TRUE,
               basis |-> IF status = "RETAINED" THEN Judged(k) ELSE None]]
    /\ Change(state)
    /\ UNCHANGED <<material, party, requirement, run, worker, request>>

\* An answer to a clarification, that an inventory has asked, is evidence too.
Answer ==
    /\ state.fingerprint # None
    /\ material < MaxMaterial
    /\ material' = material + 1
    /\ Change(state)
    /\ UNCHANGED <<rows, run, worker, request>>

-----------------------------------------------------------------------------
(* The API: a launch and a validation read the evidence first.             *)

ReadMaterial(q) == Analysis!Read(q, material) /\ UNCHANGED <<material, state, rows>>

Outdated(fingerprint) == state.fingerprint # None /\ state.fingerprint # fingerprint

StageReady(stage, outdated) ==
    CASE stage = "INVENTORY"    -> TRUE
      [] stage = "REQUIREMENTS" -> InventoryDone(outdated)
      [] stage = "EVALUATION"   -> AllocationDone(outdated)

\* Another method asks for new decisions on every evaluation.
Launch(q, stage, method) ==
    LET fingerprint == request[q].read IN
    /\ request[q].pc = "read"
    /\ Analysis!NoActiveRun
    /\ StageReady(stage, Outdated(fingerprint))
    /\ IF stage = "EVALUATION" /\ method # state.method
       THEN Change([state EXCEPT !.method = method]) /\ evaluation' = Reopened(Parties)
       ELSE UNCHANGED <<state, evaluation>>
    /\ Analysis!Create(q,
         [status |-> "DRAFT", stage |-> stage, revision |-> state'.revision,
          fingerprint |-> fingerprint, method |-> state'.method, parties |-> RetainedRows])
    /\ UNCHANGED <<material, party, requirement, worker>>

Enqueue(q) == Analysis!Enqueue(q) /\ UNCHANGED <<material, state, rows>>
EnqueueFails(q) == Analysis!EnqueueFails(q) /\ UNCHANGED <<material, state, rows>>
RequestEnds(q) == Analysis!RequestEnds(q) /\ UNCHANGED <<material, state, rows>>

Validate(q) ==
    /\ request[q].pc = "read"
    /\ Complete(state.fingerprint # request[q].read, state.method)
    /\ Analysis!NoActiveRun
    /\ state' = [state EXCEPT !.validated = TRUE]
    /\ Analysis!Done(q)
    /\ UNCHANGED <<material, rows, run, worker>>

-----------------------------------------------------------------------------
(* The worker.                                                             *)

TakeJob(w, r) == Analysis!TakeJob(w, r) /\ UNCHANGED <<material, state, rows>>
MarkRunning(w) == Analysis!MarkRunning(w) /\ UNCHANGED <<material, state, rows>>

\* The model answers for every party it was asked about, or this fails: a
\* transport error is left to BullMQ while it has attempts, any other is final.
Generate(w) ==
    /\ slot[w].pc = "generate"
    /\ \/ \E pc \in {"persist", "fail"} : Analysis!Goto(w, pc)
       \/ Analysis!MoreAttempts(w) /\ Analysis!Goto(w, "throw")
    /\ UNCHANGED <<material, state, rows, run, job, request>>

\* New parties are proposed, known ones stay as they are.  When the evidence is
\* not that of the last inventory, what was decided on it is open again.
ApplyInventory(r) ==
    LET changed == state.fingerprint # run[r].fingerprint
        reopen == state.fingerprint # None /\ changed
        Reopen(row) == IF isRetained(row) THEN [row EXCEPT !.status = "PENDING"] ELSE row IN
    /\ \E found \in (SUBSET Parties) \ {{}} :
         party' = [k \in Parties |->
           IF party[k] = None
           THEN IF k \in found THEN [origin |-> "ai", status |-> "PENDING", by |-> "ai"] ELSE None
           ELSE IF reopen /\ party[k].origin = "ai" THEN Reopen(party[k]) ELSE party[k]]
    /\ requirement' = [k \in Parties |->
         IF reopen /\ isRetained(requirement[k])
         THEN [requirement[k] EXCEPT !.status = "PENDING", !.services = None]
         ELSE requirement[k]]
    /\ evaluation' = IF changed THEN Reopened(Parties) ELSE evaluation
    /\ state' = Touched([state EXCEPT !.fingerprint = run[r].fingerprint])

\* Known requirements stay as they are; all evaluations are open again.
ApplyRequirements(r) ==
    /\ \E kind \in Kinds :
         requirement' = [k \in Parties |->
           IF run[r].parties[k] # None /\ requirement[k] = None
           THEN [status |-> "PENDING", by |-> "ai", kind |-> kind, services |-> None]
           ELSE requirement[k]]
    /\ evaluation' = Reopened(Parties)
    /\ state' = Touched(state)
    /\ UNCHANGED party

\* Mutant of Evaluated: the proposal replaces what a person wrote.
EvaluatedByModel(k, scores) ==
    [status |-> "PENDING", scores |-> scores, override |-> FALSE, basis |-> None]

\* A new evaluation of party k: what a person wrote on the last one is kept.
Evaluated(k, scores) ==
    IF Latest(k) # None /\ Latest(k).override
    THEN [Latest(k) EXCEPT !.status = "PENDING", !.basis = None]
    ELSE [status |-> "PENDING", scores |-> scores, override |-> FALSE, basis |-> None]

ApplyEvaluation(r) ==
    /\ \E scores \in SUBSET AllScores :
         /\ ScoresComplete(scores, run[r].method)
         /\ evaluation' = [k \in Parties |->
              IF run[r].parties[k] # None THEN Append(evaluation[k], Evaluated(k, scores))
              ELSE evaluation[k]]
    /\ state' = Touched(state)
    /\ UNCHANGED <<party, requirement>>

\* Mutant of InputUnchanged: the result is applied to whatever is there.
InputUnchecked(r) == run[r].status # "none"

InputUnchanged(r) == state.revision = run[r].revision

\* The transaction of the result.  Nothing reads the input of a completed run again.
Persist(w) ==
    LET r == slot[w].run IN
    /\ slot[w].pc = "persist"
    /\ run[r].status # "COMPLETED"
    /\ InputUnchanged(r)
    /\ state.revision < state.limit
    /\ \/ run[r].stage = "INVENTORY" /\ ApplyInventory(r)
       \/ run[r].stage = "REQUIREMENTS" /\ ApplyRequirements(r)
       \/ run[r].stage = "EVALUATION" /\ ApplyEvaluation(r)
    /\ run' = [run EXCEPT ![r] = [NoRun EXCEPT !.status = "COMPLETED", !.stage = run[r].stage,
                                              !.revision = run[r].revision]]
    /\ Analysis!Goto(w, "end")
    /\ UNCHANGED <<material, job, request>>

PersistDone(w) ==
    Analysis!AlreadyPersisted(w, {"COMPLETED"}) /\ UNCHANGED <<material, state, rows>>
PersistFails(w) == Analysis!PersistFails(w) /\ UNCHANGED <<material, state, rows>>
FailRun(w) == Analysis!FailRun(w) /\ UNCHANGED <<material, state, rows>>
EndJob(w) == Analysis!EndJob(w) /\ UNCHANGED <<material, state, rows>>
Crash(w) == Analysis!Crash(w) /\ UNCHANGED <<material, state, rows>>
Stall(r) == Analysis!Stall(r) /\ UNCHANGED <<material, state, rows>>

-----------------------------------------------------------------------------
Write ==
    \/ ChangeMaterial \/ Answer
    \/ \E k \in Parties :
         \/ AddParty(k) \/ AddRequirement(k) \/ ReviewParty(k) \/ ReviewRequirement(k)
         \/ Allocate(k)
         \/ \E i \in Runs : ReviewEvaluation(k, i)

RequestStep(q) ==
    \/ ReadMaterial(q) \/ Enqueue(q) \/ EnqueueFails(q) \/ Validate(q) \/ RequestEnds(q)
    \/ \E stage \in Stages : \E method \in Methods : Launch(q, stage, method)

Proceed(w) ==
    \/ MarkRunning(w) \/ Generate(w) \/ Persist(w) \/ PersistDone(w) \/ PersistFails(w)
    \/ FailRun(w) \/ EndJob(w)

Next ==
    \/ Write
    \/ \E q \in Requests : RequestStep(q)
    \/ \E w \in Slots : (\E r \in Runs : TakeJob(w, r)) \/ Proceed(w) \/ Crash(w)
    \/ \E r \in Runs : Stall(r)

Spec == Init /\ [][Next]_vars

\* Live slots go on, BullMQ delivers the jobs, and a request that
\* has created a run goes on unless its process dies.
Fairness ==
    /\ \A q \in Requests : WF_vars(Enqueue(q) \/ EnqueueFails(q))
    /\ \A w \in Slots : WF_vars(Proceed(w))
    /\ \A r \in Runs : WF_vars(\E w \in Slots : TakeJob(w, r))
    /\ \A r \in Runs : WF_vars(Analysis!Abandoned(r) /\ Stall(r))

FairSpec == Spec /\ Fairness

-----------------------------------------------------------------------------
(* Properties.                                                             *)

RetainedRecords ==
    [party : PartyRows \cup {None}, requirement : RequirementRows \cup {None}] \cup {None}
RunRecords ==
    [status : {"none", "DRAFT", "RUNNING", "COMPLETED", "FAILED"}, stage : Stages \cup {None},
     revision : Nat, fingerprint : Nat \cup {None},
     method : Methods \cup {"both", None}, parties : [Parties -> RetainedRecords]]

\* Every variable holds what its table, queue or request can hold.
TypeOK ==
    /\ material \in Nat
    /\ state \in [revision : Nat, method : Methods \cup {"both"},
                  fingerprint : Nat \cup {None}, validated : BOOLEAN,
                  limit : Nat]
    /\ party \in [Parties -> PartyRows \cup {None}]
    /\ requirement \in [Parties -> RequirementRows \cup {None}]
    /\ evaluation \in [Parties -> Seq(EvaluationRows)]
    /\ run \in [Runs -> RunRecords]
    /\ Analysis!Queue!TypeOK
    /\ request \in [Requests -> Analysis!RequestTypes(Nat)]
    /\ slot \in [Slots -> Analysis!SlotTypes({})]

\* A result is applied to the register it was made from: when a run completes,
\* the retained rows and the method are those of its launch, whatever people,
\* other runs and a second delivery of the job did in the meantime.
AppliedToItsRegister ==
    [][\A r \in Runs :
         (run[r].status # "COMPLETED" /\ run'[r].status = "COMPLETED") =>
           run[r].parties = RetainedRows /\ run[r].method = state.method]_vars

\* A retained evaluation is a person's decision on the party, the requirement,
\* the allocation and the method as they are now: all that changes one of them
\* asks for a new decision.
EvaluationUpToDate ==
    \A k \in Parties : \A i \in DOMAIN evaluation[k] :
      isRetained(evaluation[k][i]) => evaluation[k][i].basis = Judged(k)

\* A validated register is complete, and stays so for as long as it is shown as
\* validated: reviewed, allocated and evaluated by the chosen method.
ValidatedComplete == state.validated => Complete(state.fingerprint = None, state.method)

\* What a person wrote is never replaced by an analysis: not in the parties, not
\* in the requirements, and not in the evaluation that is shown, which is a new
\* row after each analysis.
HumanContentKept ==
    [][(\E r \in Runs : run[r].status # "COMPLETED" /\ run'[r].status = "COMPLETED") =>
         \A k \in Parties :
           /\ party[k] # None => party'[k].by = party[k].by
           /\ requirement[k] # None =>
                requirement'[k].by = requirement[k].by /\ requirement'[k].kind = requirement[k].kind
           /\ Latest(k) # None /\ Latest(k).override =>
                Latest(k)'.override /\ Latest(k)'.scores = Latest(k).scores]_vars

\* A run of the interested parties ends or is an orphan: transport errors are
\* tried again by the queue, all others end the run.
RunEnds == Analysis!RunEnds
=============================================================================
