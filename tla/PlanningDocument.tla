-------------------------- MODULE PlanningDocument --------------------------
(***************************************************************************)
(* The planning documents of one project: the policy with its axes and     *)
(* objectives, and the map of processes with their interactions.  A run    *)
(* proposes one part; its proposal waits in the run until a person applies *)
(* it, then every element is decided, and the parts are validated as       *)
(* numbered versions.                                                      *)
(*                                                                         *)
(* The sources are the facts and the scope of the other modules.  A client *)
(* sends back the revision it has read, and is refused when it is not the  *)
(* last one: a write below is one of a client that is up to date.          *)
(*                                                                         *)
(* A list of elements is the set of the decisions in it: "pending", or the *)
(* sources that an element was retained on; a rejected one is left out.    *)
(***************************************************************************)
EXTENDS Integers, Sequences, FiniteSets

CONSTANTS
    Sources,     \* what the other modules may say, by fingerprint
    ScopeDone,   \* sources with a current scope statement
    Texts,       \* directions and statements that people write
    MaxRuns,     \* bound on the runs
    MaxWrites,   \* bound on the writes to a document
    Requests,    \* clients that launch a run at a time
    Slots,       \* slots of the worker
    Attempts,    \* attempts of a job (5 in the code)
    MaxStalled,  \* stalls of a job that are forgiven (1 in the code)
    None         \* no value

Runs == 1..MaxRuns

ASSUME PlanningAssumption ==
    /\ MaxRuns \in Nat /\ MaxWrites \in Nat
    /\ Attempts \in Nat \ {0} /\ MaxStalled \in Nat
    /\ ScopeDone \subseteq Sources
    /\ None \notin Runs \cup Sources \cup Texts \cup Slots /\ "pending" \notin Sources

VARIABLES
    sources,   \* what loadPlanningSources returns
    module,    \* "policy" or "processes", which have a document each
    state,     \* planning_states: revision, fingerprint of the reviewed sources, document
    version,   \* planning_versions, oldest first
    run,       \* planning_runs
    job,       \* the job of each run, as WorkQueue has it
    request,   \* the run that a client has created and not yet enqueued
    slot       \* what a slot of the worker is at

tables == <<state, version>>
vars == <<sources, module, tables, run, job, request, slot>>

Analysis == INSTANCE AnalysisRun

StagesOf == [policy |-> {"axes", "statement", "objectives"},
             processes |-> {"processes", "interactions"}]
Stages == UNION {StagesOf[m] : m \in DOMAIN StagesOf}
Kinds == {"policy", "objectives", "processes"}

NoRun == [status |-> "none", stage |-> None, revision |-> 0, fingerprint |-> None,
          document |-> None, output |-> FALSE, applied |-> FALSE]

emptyDocument ==
    [directions |-> None, axes |-> {}, statement |-> None, objectives |-> {},
     processes |-> {}, interactions |-> {}, detailed |-> FALSE, policy |-> None]

-----------------------------------------------------------------------------
(* The completion rules.  "detailed" is what only people fill in: the      *)
(* measures of the objectives, or the pilots of the processes and an       *)
(* interaction for each.                                                   *)

Retained(list) == list \ {"pending"}
decided(list) == "pending" \notin list /\ Retained(list) # {}

directionsComplete(d) == d.directions # None
axesComplete(d) == directionsComplete(d) /\ decided(d.axes)
statementComplete(d) == axesComplete(d) /\ d.statement # None
objectivesComplete(d) == d.policy # None /\ decided(d.objectives) /\ d.detailed
processesComplete(d) == decided(d.processes)
pilotsComplete(d) == processesComplete(d) /\ decided(d.interactions) /\ d.detailed

policyBasis(d) ==
    [directions |-> d.directions, axes |-> Retained(d.axes), statement |-> d.statement]

\* The document is linked to a policy of the same basis and sources.
policyCurrent(d) ==
    /\ d.policy # None
    /\ version[d.policy].kind = "policy" /\ version[d.policy].fingerprint = sources
    /\ policyBasis(version[d.policy].document) = policyBasis(d)

-----------------------------------------------------------------------------
\* A document without a row yet, or one whose first parts have been decided.
Init ==
    /\ sources \in ScopeDone
    /\ module \in DOMAIN StagesOf
    /\ \E started \in BOOLEAN : \E text \in Texts :
         state = [revision |-> 0, fingerprint |-> IF started THEN sources ELSE None,
                  document |->
                    IF ~started THEN emptyDocument
                    ELSE IF module = "policy"
                    THEN [emptyDocument EXCEPT !.directions = text, !.axes = {sources}]
                    ELSE [emptyDocument EXCEPT !.processes = {sources}]]
    /\ version = <<>>
    /\ run = [r \in Runs |-> NoRun]
    /\ Analysis!Init

ChangeSources ==
    /\ sources' \in Sources \ {sources}
    /\ UNCHANGED <<module, tables, run, job, request, slot>>

\* The row is created with the sources of its first write.
Reviewed == state.fingerprint \in {None, sources}

\* A write that leaves the document d.
Write(d) ==
    /\ state.revision < MaxWrites
    /\ state' = [revision |-> state.revision + 1, fingerprint |-> sources, document |-> d]
    /\ UNCHANGED <<sources, module, job, request, slot>>

Undecided(list) == IF list = {} THEN {} ELSE {"pending"}

\* Mutant of ReviewSources: the interactions stay decided.
ReviewMostSources ==
    /\ Write([state.document EXCEPT
         !.axes = Undecided(@), !.objectives = Undecided(@), !.processes = Undecided(@),
         !.policy = None])
    /\ UNCHANGED <<version, run>>

\* After the sources have changed, every element is decided again.
ReviewSources ==
    /\ Write([state.document EXCEPT
         !.axes = Undecided(@), !.objectives = Undecided(@), !.processes = Undecided(@),
         !.interactions = Undecided(@), !.policy = None])
    /\ UNCHANGED <<version, run>>

\* An edited list: nothing, something open, or all of it decided now.
Lists(list) == {list, {}, list \cup {"pending"}, Retained(list) \cup {sources}}

Detailed(docs) == docs \cup {[e EXCEPT !.detailed = ~e.detailed] : e \in docs}

\* What a client may have changed in the document of its module, one part at a time.
Edited(d) ==
    IF module = "policy"
    THEN {[d EXCEPT !.directions = x] : x \in Texts}
         \cup {[d EXCEPT !.axes = x] : x \in Lists(d.axes)}
         \cup {[d EXCEPT !.statement = x] : x \in Texts}
         \cup Detailed({[d EXCEPT !.objectives = x] : x \in Lists(d.objectives)})
    ELSE Detailed({[d EXCEPT !.processes = x] : x \in Lists(d.processes)})
         \cup {[d EXCEPT !.interactions = x] : x \in Lists(d.interactions)}

\* Mutant of Save: a document keeps its policy, whatever was edited.
SaveLinked ==
    /\ Reviewed
    /\ \E d \in Edited(state.document) : Write(d)
    /\ UNCHANGED <<version, run>>

\* The link to a validated policy is the server's, and ends with an edit of its basis.
Save ==
    /\ Reviewed
    /\ \E d \in Edited(state.document) :
         Write([d EXCEPT !.policy =
           IF module = "policy" /\ policyBasis(d) = policyBasis(state.document) THEN @ ELSE None])
    /\ UNCHANGED <<version, run>>

\* Proposals are appended, undecided, except for the statement that replaces the last.
Proposed(d, stage) ==
    CASE stage = "axes"         -> [d EXCEPT !.axes = @ \cup {"pending"}, !.policy = None]
      [] stage = "statement"    -> [d EXCEPT !.statement = "proposed", !.policy = None]
      [] stage = "objectives"   -> [d EXCEPT !.objectives = @ \cup {"pending"}, !.detailed = FALSE]
      [] stage = "processes"    -> [d EXCEPT !.processes = @ \cup {"pending"}, !.detailed = FALSE]
      [] stage = "interactions" -> [d EXCEPT !.interactions = @ \cup {"pending"}]

\* Mutant of Applicable: an old proposal is applied to a newer document.
ApplicableLate(r) == run[r].status = "COMPLETED" /\ ~run[r].applied /\ run[r].fingerprint = sources

Applicable(r) ==
    /\ run[r].status = "COMPLETED" /\ ~run[r].applied
    /\ run[r].revision = state.revision /\ run[r].fingerprint = sources

Apply(r) ==
    /\ Reviewed
    /\ Applicable(r)
    /\ Write(Proposed(state.document, run[r].stage))
    /\ run' = [run EXCEPT ![r].applied = TRUE]
    /\ UNCHANGED version

Valid(kind) ==
    CASE kind = "policy"     -> module = "policy" /\ statementComplete(state.document)
      [] kind = "objectives" -> /\ module = "policy" /\ objectivesComplete(state.document)
                                /\ policyCurrent(state.document)
      [] kind = "processes"  -> module = "processes" /\ pilotsComplete(state.document)

Validate(kind) ==
    LET d == state.document IN
    /\ Reviewed
    /\ sources \in ScopeDone
    /\ Valid(kind)
    /\ version' = Append(version, [kind |-> kind, document |-> d, fingerprint |-> sources])
    /\ Write(IF kind = "policy" THEN [d EXCEPT !.policy = Len(version')] ELSE d)
    /\ UNCHANGED run

StageReady(stage) ==
    LET d == state.document IN
    CASE stage = "axes"         -> directionsComplete(d)
      [] stage = "statement"    -> axesComplete(d)
      [] stage = "objectives"   -> policyCurrent(d)
      [] stage = "processes"    -> TRUE
      [] stage = "interactions" -> processesComplete(d)

\* A launch creates the row too, and writes nothing else.
Launch(q, stage) ==
    /\ request[q].pc = "idle"
    /\ Reviewed
    /\ sources \in ScopeDone
    /\ stage \in StagesOf[module]
    /\ StageReady(stage)
    /\ Analysis!NoActiveRun
    /\ state' = [state EXCEPT !.fingerprint = sources]
    /\ Analysis!Create(q, [NoRun EXCEPT !.status = "DRAFT", !.stage = stage,
         !.revision = state.revision, !.fingerprint = sources, !.document = state.document])
    /\ UNCHANGED <<sources, module, version, job, slot>>

Enqueue(q) == Analysis!Enqueue(q) /\ UNCHANGED <<sources, module, tables>>
EnqueueFails(q) == Analysis!EnqueueFails(q) /\ UNCHANGED <<sources, module, tables>>
RequestEnds(q) == Analysis!RequestEnds(q) /\ UNCHANGED <<sources, module, tables>>

-----------------------------------------------------------------------------
TakeJob(w, r) == Analysis!TakeJob(w, r) /\ UNCHANGED <<sources, module, tables>>
MarkRunning(w) == Analysis!MarkRunning(w) /\ UNCHANGED <<sources, module, tables>>

Generate(w) ==
    /\ slot[w].pc = "generate"
    /\ \E pc \in {"persist", "fail"} : Analysis!Goto(w, pc)
    /\ UNCHANGED <<sources, module, tables, run, job, request>>

\* The proposal stays in the run.  The trigger on the table refuses a second one.
Persist(w) ==
    LET r == slot[w].run IN
    /\ slot[w].pc = "persist"
    /\ run[r].status \notin Analysis!Ended /\ ~run[r].output
    /\ run' = [run EXCEPT ![r] = [@ EXCEPT !.status = "COMPLETED", !.output = TRUE]]
    /\ Analysis!Goto(w, "end")
    /\ UNCHANGED <<sources, module, tables, job, request>>

PersistDone(w) ==
    Analysis!AlreadyPersisted(w, Analysis!Ended) /\ UNCHANGED <<sources, module, tables>>
PersistFails(w) == Analysis!PersistFails(w) /\ UNCHANGED <<sources, module, tables>>
FailRun(w) == Analysis!FailUnlessCompleted(w) /\ UNCHANGED <<sources, module, tables>>
EndJob(w) == Analysis!EndJob(w) /\ UNCHANGED <<sources, module, tables>>
Crash(w) == Analysis!Crash(w) /\ UNCHANGED <<sources, module, tables>>
Stall(r) == Analysis!Stall(r) /\ UNCHANGED <<sources, module, tables>>

-----------------------------------------------------------------------------
WriteStep ==
    \/ ChangeSources \/ ReviewSources \/ Save
    \/ \E r \in Runs : Apply(r)
    \/ \E kind \in Kinds : Validate(kind)

RequestStep(q) ==
    \/ \E stage \in Stages : Launch(q, stage)
    \/ Enqueue(q) \/ EnqueueFails(q) \/ RequestEnds(q)

Proceed(w) ==
    \/ MarkRunning(w) \/ Generate(w) \/ Persist(w) \/ PersistDone(w) \/ PersistFails(w)
    \/ FailRun(w) \/ EndJob(w)

Next ==
    \/ WriteStep
    \/ \E q \in Requests : RequestStep(q)
    \/ \E w \in Slots : (\E r \in Runs : TakeJob(w, r)) \/ Proceed(w) \/ Crash(w)
    \/ \E r \in Runs : Stall(r)

Spec == Init /\ [][Next]_vars

-----------------------------------------------------------------------------
(* Properties.                                                             *)

Lists4 == SUBSET (Sources \cup {"pending"})
Documents ==
    [directions : Texts \cup {None}, axes : Lists4, statement : Texts \cup {None, "proposed"},
     objectives : Lists4, processes : Lists4, interactions : Lists4, detailed : BOOLEAN,
     policy : Nat \cup {None}]

\* Every variable holds what its table, queue or request can hold.
TypeOK ==
    /\ sources \in Sources /\ module \in DOMAIN StagesOf
    /\ state \in [revision : Nat, fingerprint : Sources \cup {None}, document : Documents]
    /\ version \in Seq([kind : Kinds, document : Documents, fingerprint : Sources])
    /\ run \in [Runs ->
         [status : {"none", "DRAFT", "RUNNING", "COMPLETED", "FAILED"}, stage : Stages \cup {None},
          revision : Nat, fingerprint : Sources \cup {None}, document : Documents \cup {None},
          output : BOOLEAN, applied : BOOLEAN]]
    /\ Analysis!Queue!TypeOK
    /\ request \in [Requests -> Analysis!RequestTypes({})]
    /\ slot \in [Slots -> Analysis!SlotTypes({})]

\* Everything that is retained in the document was decided on the sources that the
\* document says it was reviewed with: no version is validated on decisions that
\* somebody took before the sources changed.
DecisionsOnSources ==
    \A part \in {"axes", "objectives", "processes", "interactions"} :
      Retained(state.document[part]) \subseteq {state.fingerprint}

\* The document is linked to a policy only while the policy is still its own, and the
\* objectives of every version were validated under a policy of the same basis and the
\* same sources: a browser cannot pass off a draft as a policy.
PolicyLinkTrue ==
    LET Under(d) == /\ version[d.policy].kind = "policy"
                    /\ policyBasis(version[d.policy].document) = policyBasis(d) IN
    /\ state.document.policy # None => Under(state.document)
    /\ \A v \in DOMAIN version : version[v].kind = "objectives" =>
         /\ Under(version[v].document)
         /\ version[version[v].document.policy].fingerprint = version[v].fingerprint

\* A proposal is applied to the document it was made for, as it was at the launch.
AppliedToItsDocument ==
    [][\A r \in Runs : (~run[r].applied /\ run'[r].applied) =>
         run[r].document = state.document]_vars
=============================================================================
