----------------------------- MODULE RoRegister -----------------------------
(***************************************************************************)
(* The register of risks and opportunities (R&O) of one project: items     *)
(* that a GENERATION run proposes from the sources of one branch, their    *)
(* rating and controls, and the actions that a TREATMENT run proposes for  *)
(* the items that nothing controls.                                        *)
(*                                                                         *)
(* The sources are the issues of the context and the requirements of the   *)
(* interested parties, which live outside this register and change and     *)
(* disappear at any time.  Every request reads them before its             *)
(* transaction, which locks the project.                                   *)
(*                                                                         *)
(* "RETAINED" stands for VALIDATED and MODIFIED.  Texts are reduced to     *)
(* who wrote them, a source to the number of its version, and an item has  *)
(* one action.                                                             *)
(***************************************************************************)
EXTENDS Integers

CONSTANTS
    Items,        \* canonical keys of risks and opportunities
    Sources,      \* sources that items come from
    SourceOf,     \* the source of an item, or None for one entered by hand
    BranchOf,     \* the branch of a source
    Levels,       \* ratings people choose from
    MaxRuns,      \* bound on the analysis runs
    MaxWrites,    \* bound on the writes to the register
    MaxEvidence,  \* bound on the changes of the evidence
    Requests,     \* API requests in progress at a time
    Slots,        \* slots of the analysis worker (concurrency 2)
    Attempts,     \* attempts of a job (5 in the code)
    MaxStalled,   \* stalls of a job that are forgiven (1 in the code)
    None          \* no value

Runs == 1..MaxRuns
Branches == {"context_issue", "pip_requirement"}

VARIABLES
    evidence,  \* the digest of the material, the versions of the sources, and the
               \*   number of changes
    state,     \* ro_states: revision, fingerprints of the branches, and the
               \*   evidence that the validation was decided on
    item,      \* ro_items, by canonical key
    action,    \* ro_actions: the one of each item
    run,       \* ro_runs
    job,       \* the job of each run, as WorkQueue has it
    request,   \* what an API request read before its transaction
    slot       \* what a slot of the worker is at

rows == <<item, action>>
worker == <<job, slot>>
vars == <<evidence, state, rows, run, worker, request>>

Analysis == INSTANCE AnalysisRun

Stages == {"GENERATION", "TREATMENT"}
Reviews == {"PENDING", "RETAINED", "NOT_RETAINED"}
Writers == {"ai", "user"}

NoRun == [status |-> "none", stage |-> None, branch |-> None, revision |-> 0,
          evidence |-> None, items |-> [i \in Items |-> None]]

\* branches: the fingerprint of the material and of the sources of a branch.
Fingerprint(b, e) ==
    [digest |-> e.digest, source |-> [s \in {x \in Sources : BranchOf[x] = b} |-> e.source[s]]]

SourcesIn(b, e) == {s \in Sources : BranchOf[s] = b /\ e.source[s] # None}

\* A row whose source has gone is not shown and cannot be written.
Present(i, e) == SourceOf[i] = None \/ e.source[SourceOf[i]] # None
Visible(e) == {i \in Items : item[i] # None /\ Present(i, e)}

Outdated(e) == \E b \in Branches : state.branch[b] \notin {None, Fingerprint(b, e)}

-----------------------------------------------------------------------------
(* The completion rules (workflow.ts, eligibility.ts).                     *)

isRetainedRo(row) == row # None /\ row.status = "RETAINED"

RatingDecided(i) == item[i].ratingReviewed /\ item[i].rating # None

roTreatmentEligible(i) ==
    /\ isRetainedRo(item[i]) /\ RatingDecided(i)
    /\ item[i].controlsReviewed /\ item[i].controls = "none"

ItemsReviewed(e) ==
    /\ ~Outdated(e)
    /\ \E i \in Visible(e) : isRetainedRo(item[i])
    /\ \A i \in Visible(e) : item[i].status # "PENDING"

\* completion[3]: rated, and the controls are declared.
ControlsDeclared(e) ==
    /\ ItemsReviewed(e)
    /\ \A i \in Visible(e) : isRetainedRo(item[i]) =>
         /\ RatingDecided(i)
         /\ item[i].controlsReviewed /\ item[i].controls # "undeclared"

Complete(e) ==
    /\ ControlsDeclared(e)
    /\ \A i \in Visible(e) :
         (isRetainedRo(item[i]) /\ item[i].controls = "none") => isRetainedRo(action[i])

-----------------------------------------------------------------------------
Proposed(s, version) ==
    [status |-> "PENDING", content |-> "ai", rating |-> "ai", ratingReviewed |-> FALSE,
     controls |-> "undeclared", controlsReviewed |-> FALSE, source |-> version, treated |-> None]

\* What an action of item i is decided on.
Treats(i) ==
    [content |-> item[i].content, rating |-> item[i].rating, source |-> item[i].source]

\* For one item: a generation, its review, rating and controls; then a treatment and
\* the review of its action.
WritesOf == [nothing |-> 0, controlled |-> 4, treated |-> 6]

Init ==
    LET first == [at |-> 0, digest |-> 0, source |-> [s \in Sources |-> 0]] IN
    /\ evidence = first
    /\ \E done \in DOMAIN WritesOf :
         /\ item = [i \in Items |->
              IF done = "nothing" THEN None
              ELSE [status |-> "RETAINED", content |-> "ai", rating |-> CHOOSE x \in Levels : TRUE,
                    ratingReviewed |-> TRUE, controls |-> "none", controlsReviewed |-> TRUE,
                    source |-> IF SourceOf[i] = None THEN None ELSE 0, treated |-> None]]
         /\ action = [i \in Items |->
              IF done # "treated" THEN None
              ELSE [status |-> "RETAINED", by |-> "ai", progress |-> "todo", basis |-> Treats(i)]]
         /\ state = [revision |-> WritesOf[done], limit |-> WritesOf[done] + MaxWrites,
                     branch |-> [b \in Branches |->
                       IF done = "nothing" THEN None ELSE Fingerprint(b, first)],
                     validated |-> IF done = "treated" THEN first ELSE None]
    /\ run = [r \in Runs |-> NoRun]
    /\ Analysis!Init

\* Every write moves the revision and ends the validation.
Touched(s) == [s EXCEPT !.revision = s.revision + 1, !.validated = None]

Change(s) == s.revision < s.limit /\ state' = Touched(s)

-----------------------------------------------------------------------------
(* The evidence: somebody edits the material, or a source.                 *)

ChangeEvidence ==
    LET at == evidence.at + 1 IN
    /\ evidence.at < MaxEvidence
    /\ \/ evidence' = [evidence EXCEPT !.at = at, !.digest = at]
       \/ \E s \in Sources : \E version \in {at, None} :
            evidence' = [evidence EXCEPT !.at = at, !.source[s] = version]
    /\ UNCHANGED <<state, rows, run, worker, request>>

-----------------------------------------------------------------------------
(* The API: each request reads the evidence, then its transaction writes.  *)

ReadMaterial(q) == Analysis!Read(q, evidence) /\ UNCHANGED <<evidence, state, rows>>

\* write: the transaction on item i, whose source is still there.
WriteItem(q, i) ==
    /\ request[q].pc = "read"
    /\ Present(i, request[q].read)
    /\ Change(state)
    /\ Analysis!Done(q)
    /\ UNCHANGED <<evidence, run, worker>>

AddItem(q, i) ==
    /\ WriteItem(q, i)
    /\ item[i] = None
    /\ item' = [item EXCEPT ![i] =
         [Proposed(SourceOf[i], IF SourceOf[i] = None THEN None ELSE request[q].read.source[SourceOf[i]])
            EXCEPT !.status = "RETAINED", !.content = "user", !.rating = None]]
    /\ UNCHANGED action

\* All that was decided on the action is open again.
Reopen(i) ==
    IF action[i] = None THEN UNCHANGED action
    ELSE action' = [action EXCEPT ![i].status = "PENDING", ![i].basis = None]

\* Another text asks for the rating, the controls and the actions to be reviewed
\* again; another type takes the rating away.
ReviewItem(q, i) ==
    /\ WriteItem(q, i)
    /\ item[i] # None
    /\ \E status \in Reviews :
         \/ item' = [item EXCEPT ![i].status = status] /\ UNCHANGED action
         \/ \E rating \in {item[i].rating, None} :
              /\ item' = [item EXCEPT ![i] =
                   [@ EXCEPT !.status = status, !.content = "user", !.rating = rating,
                             !.ratingReviewed = FALSE, !.controlsReviewed = FALSE]]
              /\ Reopen(i)

\* Mutant of Rate: the actions stay decided.
RateOnly(q, i, level) ==
    /\ WriteItem(q, i)
    /\ isRetainedRo(item[i])
    /\ item' = [item EXCEPT ![i] =
         [@ EXCEPT !.rating = level, !.ratingReviewed = TRUE, !.controlsReviewed = FALSE]]
    /\ UNCHANGED action

Rate(q, i, level) ==
    /\ WriteItem(q, i)
    /\ isRetainedRo(item[i])
    /\ item' = [item EXCEPT ![i] =
         [@ EXCEPT !.rating = level, !.ratingReviewed = TRUE, !.controlsReviewed = FALSE]]
    /\ Reopen(i)

\* Existing controls make the actions void.
DeclareControls(q, i, controls) ==
    /\ WriteItem(q, i)
    /\ isRetainedRo(item[i]) /\ RatingDecided(i)
    /\ item' = [item EXCEPT ![i] = [@ EXCEPT !.controls = controls, !.controlsReviewed = TRUE]]
    /\ IF controls = "none" \/ action[i] = None THEN Reopen(i)
       ELSE action' = [action EXCEPT ![i].status = "NOT_RETAINED", ![i].basis = None]

AddAction(q, i) ==
    /\ WriteItem(q, i)
    /\ action[i] = None /\ roTreatmentEligible(i)
    /\ action' = [action EXCEPT ![i] =
         [status |-> "RETAINED", by |-> "user", progress |-> "todo", basis |-> Treats(i)]]
    /\ UNCHANGED item

ReviewAction(q, i, status) ==
    /\ WriteItem(q, i)
    /\ action[i] # None
    /\ status = "RETAINED" => roTreatmentEligible(i)
    /\ \E by \in {action[i].by, "user"} :
         action' = [action EXCEPT ![i] =
           [@ EXCEPT !.status = status, !.by = by,
                     !.basis = IF status = "RETAINED" THEN Treats(i) ELSE None]]
    /\ UNCHANGED item

Progress(q, i, progress) ==
    /\ WriteItem(q, i)
    /\ isRetainedRo(action[i]) /\ isRetainedRo(item[i])
    /\ action' = [action EXCEPT ![i].progress = progress]
    /\ UNCHANGED item

\* The effectiveness of a completed action is an event of its own.
Effectiveness(q, i) ==
    /\ WriteItem(q, i)
    /\ isRetainedRo(action[i]) /\ isRetainedRo(item[i])
    /\ action[i].progress = "completed"
    /\ UNCHANGED rows

\* A generation needs sources, or an earlier generation to withdraw; a treatment
\* needs an item to treat.
Launch(q, stage, branch) ==
    LET e == request[q].read
        eligible == {i \in Visible(e) : roTreatmentEligible(i)} IN
    /\ request[q].pc = "read"
    /\ Analysis!NoActiveRun
    /\ IF stage = "GENERATION"
       THEN SourcesIn(branch, e) # {} \/ state.branch[branch] # None
       ELSE ControlsDeclared(e) /\ eligible # {}
    /\ Analysis!Create(q,
         [status |-> "DRAFT", stage |-> stage, revision |-> state.revision, evidence |-> e,
          branch |-> IF stage = "GENERATION" THEN branch ELSE None,
          items |-> [i \in Items |->
            IF stage = "TREATMENT" /\ i \in eligible THEN item[i] ELSE None]])
    /\ UNCHANGED <<evidence, state, rows, worker>>

Enqueue(q) == Analysis!Enqueue(q) /\ UNCHANGED <<evidence, state, rows>>
EnqueueFails(q) == Analysis!EnqueueFails(q) /\ UNCHANGED <<evidence, state, rows>>
RequestEnds(q) == Analysis!RequestEnds(q) /\ UNCHANGED <<evidence, state, rows>>

Validate(q) ==
    /\ request[q].pc = "read"
    /\ Complete(request[q].read)
    /\ Analysis!NoActiveRun
    /\ state' = [state EXCEPT !.validated = request[q].read]
    /\ Analysis!Done(q)
    /\ UNCHANGED <<evidence, rows, run, worker>>

-----------------------------------------------------------------------------
(* The worker.                                                             *)

TakeJob(w, r) == Analysis!TakeJob(w, r) /\ UNCHANGED <<evidence, state, rows>>
MarkRunning(w) == Analysis!MarkRunning(w) /\ UNCHANGED <<evidence, state, rows>>

\* roTreatmentFingerprint of an item of a run's snapshot.
Treatment(r, i) ==
    [digest |-> run[r].evidence.digest, item |-> [run[r].items[i] EXCEPT !.treated = None]]

\* An item that was treated as it is, and whose action is not rejected, is not asked
\* about again.
Asked(r) ==
    {i \in Items : run[r].items[i] # None
       /\ (action[i] = None \/ action[i].status = "NOT_RETAINED"
           \/ item[i].treated # Treatment(r, i))}

\* A treatment first reads, outside the transaction, what it need not ask about.
Generate(w) ==
    /\ slot[w].pc = "generate"
    /\ \E pc \in {"persist", "fail"} :
         slot' = [slot EXCEPT ![w].pc = pc, ![w].found = IF pc = "persist" THEN Asked(slot[w].run) ELSE None]
    /\ UNCHANGED <<evidence, state, rows, run, job, request>>

\* Of a source that has changed, or with a material that has, the decisions on
\* its items are open again; nothing that was written is replaced.
ApplyGeneration(r) ==
    LET e == run[r].evidence
        b == run[r].branch
        found == SourcesIn(b, e)
        moved == state.branch[b] \notin {None, Fingerprint(b, e)}
        reopened == {i \in Items : /\ item[i] # None /\ SourceOf[i] \in found
                                   /\ moved \/ item[i].source # e.source[SourceOf[i]]} IN
    /\ \E proposed \in SUBSET {i \in Items : item[i] = None /\ SourceOf[i] \in found} :
         item' = [i \in Items |->
           IF i \in proposed THEN Proposed(SourceOf[i], e.source[SourceOf[i]])
           ELSE IF i \in reopened
           THEN [item[i] EXCEPT !.source = e.source[SourceOf[i]],
                                !.status = IF @ = "NOT_RETAINED" THEN @ ELSE "PENDING",
                                !.ratingReviewed = FALSE, !.controlsReviewed = FALSE]
           ELSE item[i]]
    /\ action' = [i \in Items |->
         IF i \in reopened /\ action[i] # None
         THEN [action[i] EXCEPT !.status = "PENDING", !.basis = None] ELSE action[i]]
    /\ state' = Touched([state EXCEPT !.branch[b] = Fingerprint(b, e)])

\* An item without an action gets one; known actions stay, rejected ones too.
ApplyTreatment(r, asked) ==
    /\ action' = [i \in Items |->
         IF i \in asked /\ action[i] = None
         THEN [status |-> "PENDING", by |-> "ai", progress |-> "todo", basis |-> None]
         ELSE action[i]]
    /\ item' = [i \in Items |->
         IF i \in asked THEN [item[i] EXCEPT !.treated = Treatment(r, i)] ELSE item[i]]
    /\ state' = Touched(state)

\* Mutant of InputUnchanged: the result is applied to whatever is there.
InputUnchecked(r) == run[r].status # "none"

InputUnchanged(r) == state.revision = run[r].revision

Persist(w) ==
    LET r == slot[w].run IN
    /\ slot[w].pc = "persist"
    /\ run[r].status # "COMPLETED"
    /\ InputUnchanged(r)
    /\ state.revision < state.limit
    /\ \/ run[r].stage = "GENERATION" /\ ApplyGeneration(r)
       \/ run[r].stage = "TREATMENT" /\ ApplyTreatment(r, slot[w].found)
    /\ run' = [run EXCEPT ![r] = [NoRun EXCEPT !.status = "COMPLETED", !.stage = run[r].stage,
                                              !.revision = run[r].revision]]
    /\ Analysis!Goto(w, "end")
    /\ UNCHANGED <<evidence, job, request>>

PersistDone(w) ==
    Analysis!AlreadyPersisted(w, {"COMPLETED"}) /\ UNCHANGED <<evidence, state, rows>>
PersistFails(w) == Analysis!PersistFails(w) /\ UNCHANGED <<evidence, state, rows>>
FailRun(w) == Analysis!FailRun(w) /\ UNCHANGED <<evidence, state, rows>>
EndJob(w) == Analysis!EndJob(w) /\ UNCHANGED <<evidence, state, rows>>
Crash(w) == Analysis!Crash(w) /\ UNCHANGED <<evidence, state, rows>>
Stall(r) == Analysis!Stall(r) /\ UNCHANGED <<evidence, state, rows>>

-----------------------------------------------------------------------------
Write(q) == \E i \in Items :
    \/ AddItem(q, i) \/ ReviewItem(q, i) 
    \/ \E level \in Levels : Rate(q, i, level)
    \/ \E controls \in {"none", "existing"} : DeclareControls(q, i, controls)
    \/ AddAction(q, i)
    \/ \E status \in Reviews : ReviewAction(q, i, status)
    \/ \E progress \in {"todo", "completed"} : Progress(q, i, progress)
    \/ Effectiveness(q, i)

RequestStep(q) ==
    \/ ReadMaterial(q) \/ Write(q) \/ Enqueue(q) \/ EnqueueFails(q) \/ Validate(q)
    \/ RequestEnds(q)
    \/ \E branch \in Branches : Launch(q, "GENERATION", branch)
    \/ Launch(q, "TREATMENT", None)

Proceed(w) ==
    \/ MarkRunning(w) \/ Generate(w) \/ Persist(w) \/ PersistDone(w) \/ PersistFails(w)
    \/ FailRun(w) \/ EndJob(w)

Next ==
    \/ ChangeEvidence
    \/ \E q \in Requests : RequestStep(q)
    \/ \E w \in Slots : (\E r \in Runs : TakeJob(w, r)) \/ Proceed(w) \/ Crash(w)
    \/ \E r \in Runs : Stall(r)

Spec == Init /\ [][Next]_vars

-----------------------------------------------------------------------------
(* Properties.                                                             *)

Fingerprints(b) ==
    [digest : Nat, source : [{s \in Sources : BranchOf[s] = b} -> Nat \cup {None}]]
EvidenceRecords == [at : Nat, digest : Nat, source : [Sources -> Nat \cup {None}]]
Effective ==
    [status : Reviews, content : Writers, rating : Levels \cup {"ai", None}, ratingReviewed : BOOLEAN,
     controls : {"undeclared", "none", "existing"}, controlsReviewed : BOOLEAN,
     source : Nat \cup {None}, treated : {None}]
Treatments == [digest : Nat, item : Effective]
ItemRows ==
    [status : Reviews, content : Writers, rating : Levels \cup {"ai", None}, ratingReviewed : BOOLEAN,
     controls : {"undeclared", "none", "existing"}, controlsReviewed : BOOLEAN,
     source : Nat \cup {None}, treated : Treatments \cup {None}]
Bases == [content : Writers, rating : Levels, source : Nat \cup {None}]
ActionRows ==
    [status : Reviews, by : Writers, progress : {"todo", "completed"}, basis : Bases \cup {None}]

\* Every variable holds what its table, queue or request can hold.
TypeOK ==
    /\ evidence \in EvidenceRecords
    /\ state.revision \in Nat /\ state.validated \in EvidenceRecords \cup {None}
    /\ \A b \in Branches : state.branch[b] \in Fingerprints(b) \cup {None}
    /\ item \in [Items -> ItemRows \cup {None}] /\ action \in [Items -> ActionRows \cup {None}]
    /\ \A r \in Runs :
         /\ run[r].status \in {"none", "DRAFT", "RUNNING", "COMPLETED", "FAILED"}
         /\ run[r].revision \in Nat /\ run[r].evidence \in EvidenceRecords \cup {None}
    /\ Analysis!Queue!TypeOK
    /\ request \in [Requests -> Analysis!RequestTypes(EvidenceRecords)]
    /\ slot \in [Slots -> Analysis!SlotTypes(SUBSET Items)]

\* A retained action was decided for the item as it is described, rated and sourced
\* now, and for one that nothing controls: all that changes one of them asks for a
\* new decision on the action.
ActionUpToDate ==
    \A i \in Items : isRetainedRo(action[i]) =>
      action[i].basis = Treats(i) /\ item[i].controls = "none"

\* A validated register is complete over the items that were shown when it was
\* validated, for as long as it is shown as validated.
ValidatedComplete == state.validated # None => Complete(state.validated)

\* A treatment is applied to the items it was made from, as they were rated, and an
\* item it left out, since a treatment of it exists, still has it: the reads outside
\* the transaction are still true inside.
AppliedToItsRegister ==
    [][\A w \in Slots :
         LET r == slot[w].run IN
         (slot[w].pc = "persist" /\ run[r].stage = "TREATMENT"
            /\ run[r].status # "COMPLETED" /\ run'[r].status = "COMPLETED") =>
           \A i \in Items : run[r].items[i] # None =>
             /\ item[i] = run[r].items[i]
             /\ i \notin slot[w].found =>
                  action[i] # None /\ action[i].status # "NOT_RETAINED"]_vars
=============================================================================
