---------------------------- MODULE ProcessSheet ----------------------------
(***************************************************************************)
(* The sheet of one process: prepared from the validated map of processes, *)
(* described by people, completed with activities that a run proposes, and *)
(* validated as numbered versions.                                         *)
(*                                                                         *)
(* The runs differ from those of PlanningDocument in how a worker takes    *)
(* them: a slot claims the run, and leaves one that has ended alone.       *)
(*                                                                         *)
(* Clients send back the revision they have read; writes below are those   *)
(* of clients that are up to date.  A list of activities is the set of the *)
(* decisions in it: "pending", or the sources an activity was retained on. *)
(***************************************************************************)
EXTENDS Integers, Sequences

CONSTANTS
    Sources,     \* the material of the sheet, by fingerprint
    MapCurrent,  \* sources with a current map that has the process
    MaxRuns,     \* bound on the runs
    MaxWrites,   \* bound on the writes to the sheet
    Requests,    \* clients that launch a run at a time
    Slots,       \* slots of the worker
    Attempts,    \* attempts of a job (5 in the code)
    MaxStalled,  \* stalls of a job that are forgiven (1 in the code)
    None         \* no value

Runs == 1..MaxRuns

VARIABLES
    sources,  \* what loadSheetSources returns
    sheet,    \* process_sheets: None, or revision, fingerprint of the snapshot, content
    version,  \* process_sheet_versions, oldest first
    run,      \* process_sheet_runs
    job,      \* the job of each run, as WorkQueue has it
    request,  \* the run that a client has created and not yet enqueued
    slot      \* what a slot of the worker is at

vars == <<sources, sheet, version, run, job, request, slot>>

Analysis == INSTANCE AnalysisRun

NoRun == [status |-> "none", revision |-> 0, fingerprint |-> None, content |-> None,
          output |-> FALSE, applied |-> FALSE]

\* The purpose, inputs and outputs come from the map; all else is open.
emptyContent == [described |-> FALSE, activities |-> {}, references |-> None]

\* A process without a sheet, and a sheet that has been described; its revisions are
\* counted from there.
Init ==
    /\ sources \in MapCurrent
    /\ sheet \in {None, [revision |-> 0, fingerprint |-> sources,
                        content |-> [emptyContent EXCEPT !.described = TRUE]]}
    /\ version = <<>>
    /\ run = [r \in Runs |-> NoRun]
    /\ Analysis!Init

ChangeSources ==
    /\ sources' \in Sources \ {sources}
    /\ UNCHANGED <<sheet, version, run, job, request, slot>>

usable == sources \in MapCurrent

\* A sheet that exists is opened as it is.
Prepare ==
    /\ usable
    /\ sheet = None
    /\ sheet' = [revision |-> 0, fingerprint |-> sources, content |-> emptyContent]
    /\ UNCHANGED <<sources, version, run, job, request, slot>>

\* A write that leaves the sheet with content c and the snapshot of fingerprint f.
Write(c, f) ==
    /\ sheet.revision < MaxWrites
    /\ sheet' = [revision |-> sheet.revision + 1, fingerprint |-> f, content |-> c]
    /\ UNCHANGED <<sources, job, request, slot>>

\* People describe the process, and decide on the activities and the references; also
\* while the sources have moved on, since the sheet shows its own snapshot.
Save ==
    /\ sheet # None
    /\ \E described \in BOOLEAN :
       \E activities \in {sheet.content.activities, {}, {sheet.fingerprint},
                          sheet.content.activities \cup {"pending"}} :
       \E references \in {None, sheet.fingerprint} :
         Write([described |-> described, activities |-> activities, references |-> references],
               sheet.fingerprint)
    /\ UNCHANGED <<version, run>>

\* Mutant of RefreshSources: the references stay reviewed.
RefreshActivities ==
    /\ usable /\ sheet # None
    /\ Write([sheet.content EXCEPT !.activities = IF @ = {} THEN {} ELSE {"pending"}], sources)
    /\ UNCHANGED <<version, run>>

\* Another snapshot opens all decisions again.
RefreshSources ==
    /\ usable /\ sheet # None
    /\ Write([sheet.content EXCEPT !.activities = IF @ = {} THEN {} ELSE {"pending"},
                                   !.references = None], sources)
    /\ UNCHANGED <<version, run>>

\* The map is current, and the sheet is one of it.
Current == usable /\ sheet # None /\ sheet.fingerprint = sources

\* Mutant of Applicable: an old proposal is applied to a newer sheet.
ApplicableLate(r) == run[r].status = "COMPLETED" /\ ~run[r].applied /\ run[r].fingerprint = sources

Applicable(r) ==
    /\ run[r].status = "COMPLETED" /\ ~run[r].applied
    /\ run[r].revision = sheet.revision /\ run[r].fingerprint = sources

Apply(r) ==
    /\ Current
    /\ Applicable(r)
    /\ Write([sheet.content EXCEPT !.activities = @ \cup {"pending"}], sheet.fingerprint)
    /\ run' = [run EXCEPT ![r].applied = TRUE]
    /\ UNCHANGED version

\* missingItems finds nothing.
Reviewed(c) ==
    /\ c.described /\ c.references # None
    /\ c.activities # {} /\ "pending" \notin c.activities

Validate ==
    /\ Current
    /\ Reviewed(sheet.content)
    /\ version' = Append(version, [content |-> sheet.content, fingerprint |-> sources])
    /\ Write(sheet.content, sheet.fingerprint)
    /\ UNCHANGED run

Launch(q) ==
    /\ request[q].pc = "idle"
    /\ Current
    /\ sheet.content.described
    /\ Analysis!NoActiveRun
    /\ Analysis!Create(q, [NoRun EXCEPT !.status = "DRAFT", !.revision = sheet.revision,
         !.fingerprint = sources, !.content = sheet.content])
    /\ UNCHANGED <<sources, sheet, version, job, slot>>

Enqueue(q) == Analysis!Enqueue(q) /\ UNCHANGED <<sources, sheet, version>>
EnqueueFails(q) == Analysis!EnqueueFails(q) /\ UNCHANGED <<sources, sheet, version>>
RequestEnds(q) == Analysis!RequestEnds(q) /\ UNCHANGED <<sources, sheet, version>>

-----------------------------------------------------------------------------
TakeJob(w, r) == Analysis!TakeJob(w, r) /\ UNCHANGED <<sources, sheet, version>>

\* Mutant of ClaimRun: a run that another slot has completed is taken again.
MarkRunning(w) == Analysis!MarkRunning(w) /\ UNCHANGED <<sources, sheet, version>>

ClaimRun(w) == Analysis!ClaimRun(w) /\ UNCHANGED <<sources, sheet, version>>

Generate(w) ==
    /\ slot[w].pc = "generate"
    /\ \E pc \in {"persist", "fail"} : Analysis!Goto(w, pc)
    /\ UNCHANGED <<sources, sheet, version, run, job, request>>

Persist(w) ==
    LET r == slot[w].run IN
    /\ slot[w].pc = "persist"
    /\ run[r].status \notin Analysis!Ended /\ ~run[r].output
    /\ run' = [run EXCEPT ![r].status = "COMPLETED", ![r].output = TRUE]
    /\ Analysis!Goto(w, "end")
    /\ UNCHANGED <<sources, sheet, version, job, request>>

PersistDone(w) ==
    Analysis!AlreadyPersisted(w, Analysis!Ended) /\ UNCHANGED <<sources, sheet, version>>
PersistFails(w) == Analysis!PersistFails(w) /\ UNCHANGED <<sources, sheet, version>>
FailRun(w) == Analysis!FailUnlessCompleted(w) /\ UNCHANGED <<sources, sheet, version>>
EndJob(w) == Analysis!EndJob(w) /\ UNCHANGED <<sources, sheet, version>>
Crash(w) == Analysis!Crash(w) /\ UNCHANGED <<sources, sheet, version>>
Stall(r) == Analysis!Stall(r) /\ UNCHANGED <<sources, sheet, version>>

-----------------------------------------------------------------------------
WriteStep ==
    \/ ChangeSources \/ Prepare \/ Save \/ RefreshSources \/ Validate
    \/ \E r \in Runs : Apply(r)

RequestStep(q) == Launch(q) \/ Enqueue(q) \/ EnqueueFails(q) \/ RequestEnds(q)

Proceed(w) ==
    \/ ClaimRun(w) \/ Generate(w) \/ Persist(w) \/ PersistDone(w) \/ PersistFails(w)
    \/ FailRun(w) \/ EndJob(w)

Next ==
    \/ WriteStep
    \/ \E q \in Requests : RequestStep(q)
    \/ \E w \in Slots : (\E r \in Runs : TakeJob(w, r)) \/ Proceed(w) \/ Crash(w)
    \/ \E r \in Runs : Stall(r)

Spec == Init /\ [][Next]_vars

\* As for the other modules.
Fairness ==
    /\ \A q \in Requests : WF_vars(Enqueue(q) \/ EnqueueFails(q))
    /\ \A w \in Slots : WF_vars(Proceed(w))
    /\ \A r \in Runs : WF_vars(\E w \in Slots : TakeJob(w, r))
    /\ \A r \in Runs : WF_vars(Analysis!Abandoned(r) /\ Stall(r))

FairSpec == Spec /\ Fairness

-----------------------------------------------------------------------------
(* Properties.                                                             *)

Contents == [described : BOOLEAN, activities : SUBSET (Sources \cup {"pending"}),
             references : Sources \cup {None}]

\* Every variable holds what its table, queue or request can hold.
TypeOK ==
    /\ sources \in Sources
    /\ sheet \in [revision : Nat, fingerprint : Sources, content : Contents] \cup {None}
    /\ version \in Seq([content : Contents, fingerprint : Sources])
    /\ run \in [Runs ->
         [status : {"none", "DRAFT", "RUNNING", "COMPLETED", "FAILED"}, revision : Nat,
          fingerprint : Sources \cup {None}, content : Contents \cup {None},
          output : BOOLEAN, applied : BOOLEAN]]
    /\ Analysis!Queue!TypeOK
    /\ request \in [Requests -> Analysis!RequestTypes({})]
    /\ slot \in [Slots -> Analysis!SlotTypes({})]

\* What is retained in the sheet, and in every version of it, was decided on the
\* sources that the sheet or the version shows next to it.
DecisionsOnSources ==
    LET On(c, f) == c.activities \subseteq {"pending", f} /\ c.references \in {None, f} IN
    /\ sheet # None => On(sheet.content, sheet.fingerprint)
    /\ \A v \in DOMAIN version : On(version[v].content, version[v].fingerprint)

\* A proposal is applied to the sheet it was made for, as it was at the launch.
AppliedToItsSheet ==
    [][\A r \in Runs : (~run[r].applied /\ run'[r].applied) =>
         run[r].content = sheet.content]_vars

\* A proposal that was completed stays available until it is applied: neither another
\* slot nor a late error takes it back.
ProposalKept ==
    [][\A r \in Runs : run[r].status = "COMPLETED" => run'[r].status = "COMPLETED"]_vars

\* A run of a sheet whose job was completed has ended, whatever slots had the job: no slot
\* takes up a run that another one has ended.
RunEndsWithItsJob ==
    \A r \in Runs : job[r].status = "completed" => run[r].status \in Analysis!Ended

\* A run of the sheet ends, or nobody will be given it any more: the claim keeps a slot
\* that lost its lock from reviving a run that the other slot has ended.
RunEnds ==
    \A r \in Runs :
      run[r].status \in Analysis!Active ~> (run[r].status \in Analysis!Ended \/ Analysis!Lost(r))
=============================================================================
