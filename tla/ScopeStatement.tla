--------------------------- MODULE ScopeStatement ---------------------------
(***************************************************************************)
(* The scope statement of one project: what the organisation declares,     *)
(* the verification of that declaration against the facts of the other     *)
(* modules, the statements that are drafted from both by a run, edited and *)
(* validated as numbered versions.                                         *)
(*                                                                         *)
(* A client sends back the revision and the fingerprint of the register it *)
(* has read, and is refused when one of them is not that of the moment: a  *)
(* write below is one of a client that is up to date.  The facts are       *)
(* outside: they change without the revision.                              *)
(***************************************************************************)
EXTENDS Integers, Sequences, FiniteSets

CONSTANTS
    Facts,         \* what the other modules may say
    Declarations,  \* what may be declared
    Coherent,      \* declarations without missing or incoherent answers
    MaxRuns,       \* bound on the runs
    MaxWrites,     \* bound on the writes to the register
    Requests,      \* clients that work on the register at a time
    Slots,         \* slots of the worker
    Attempts,      \* attempts of a job (5 in the code)
    MaxStalled,    \* stalls of a job that are forgiven (1 in the code)
    None           \* no value

Runs == 1..MaxRuns

VARIABLES
    facts,         \* the facts of the profile, the context, PIP and R&O
    state,         \* scope_states: revision and declaration (and the limit of the revision here)
    verification,  \* scope_verifications, oldest first
    statement,     \* scope_statements, oldest first
    run,           \* scope_runs
    job,           \* the job of each run, as WorkQueue has it
    request,       \* what a client has read of the register
    slot           \* what a slot of the worker is at

tables == <<state, verification, statement>>
vars == <<facts, tables, run, job, request, slot>>

Analysis == INSTANCE AnalysisRun

NoRun == [status |-> "none", revision |-> 0, fingerprint |-> None, verification |-> 0]

\* A project that starts, and one with a verified declaration and a draft, whose run
\* has ended: three writes.
Init ==
    /\ facts \in Facts
    /\ \/ /\ \E d \in Declarations \ Coherent :
              state = [revision |-> 0, limit |-> MaxWrites, declaration |-> d]
          /\ verification = <<>> /\ statement = <<>>
       \/ \E d \in Coherent :
            LET verified == [facts |-> facts, declaration |-> d] IN
            /\ state = [revision |-> 3, limit |-> 3 + MaxWrites, declaration |-> d]
            /\ verification = <<verified>>
            /\ statement = <<[status |-> "DRAFT", by |-> "ai", fingerprint |-> verified,
                              verification |-> 1, version |-> 0]>>
    /\ run = [r \in Runs |-> NoRun]
    /\ Analysis!Init

Fingerprint == [facts |-> facts, declaration |-> state.declaration]

Newest == Len(verification)

\* The newest verification is of the facts and the declaration as they are.
Verified == Newest > 0 /\ verification[Newest] = Fingerprint

-----------------------------------------------------------------------------
ChangeFacts ==
    /\ facts' \in Facts \ {facts}
    /\ UNCHANGED <<tables, run, job, request, slot>>

\* A write that leaves the declaration at d.
Write(d) ==
    /\ state.revision < state.limit
    /\ state' = [state EXCEPT !.revision = @ + 1, !.declaration = d]
    /\ UNCHANGED <<facts, run, job, request, slot>>

Declare ==
    /\ \E d \in Declarations : Write(d)
    /\ UNCHANGED <<verification, statement>>

\* canVerify: the answers are complete and the findings are acknowledged.  The decision
\* on clause 8.3 is in the row, that a statement refers to.
Verify ==
    /\ Write(state.declaration)
    /\ state.declaration \in Coherent
    /\ verification' = Append(verification, Fingerprint)
    /\ UNCHANGED statement

\* Mutant of CurrentDraft: a draft of an earlier verification of the same facts will do.
VerifiedDraft(s) ==
    /\ statement[s].status = "DRAFT"
    /\ Verified
    /\ statement[s].fingerprint = Fingerprint

\* A draft of the facts, the declaration and the verification as they are now.
CurrentDraft(s) ==
    /\ statement[s].status = "DRAFT"
    /\ Verified
    /\ statement[s].fingerprint = Fingerprint
    /\ statement[s].verification = Newest

EditStatement ==
    /\ Write(state.declaration)
    /\ \E s \in DOMAIN statement :
         CurrentDraft(s) /\ statement' = [statement EXCEPT ![s].by = "user"]
    /\ UNCHANGED verification

LastVersion ==
    LET versions == {statement[s].version : s \in DOMAIN statement} IN
    CHOOSE v \in versions : \A x \in versions : x <= v

ValidateStatement ==
    /\ Write(state.declaration)
    /\ \E s \in DOMAIN statement :
         /\ CurrentDraft(s)
         /\ statement' = [statement EXCEPT ![s].status = "VALIDATED",
                                           ![s].version = LastVersion + 1]
    /\ UNCHANGED verification

Launch(q) ==
    /\ request[q].pc = "idle"
    /\ Verified
    /\ Analysis!NoActiveRun
    /\ Analysis!Create(q, [status |-> "DRAFT", revision |-> state.revision,
                           fingerprint |-> Fingerprint, verification |-> Newest])
    /\ UNCHANGED <<facts, tables, job, slot>>

Enqueue(q) == Analysis!Enqueue(q) /\ UNCHANGED <<facts, tables>>
EnqueueFails(q) == Analysis!EnqueueFails(q) /\ UNCHANGED <<facts, tables>>
RequestEnds(q) == Analysis!RequestEnds(q) /\ UNCHANGED <<facts, tables>>

-----------------------------------------------------------------------------
TakeJob(w, r) == Analysis!TakeJob(w, r) /\ UNCHANGED <<facts, tables>>
MarkRunning(w) == Analysis!MarkRunning(w) /\ UNCHANGED <<facts, tables>>

\* Any error, also an invalid statement of the model, ends the run.
Generate(w) ==
    /\ slot[w].pc = "generate"
    /\ \E pc \in {"persist", "fail"} : Analysis!Goto(w, pc)
    /\ UNCHANGED <<facts, tables, run, job, request>>

\* Mutant of InputUnchanged: the draft is added whatever is declared by now.
InputUnchecked(r) == run[r].status # "none"

InputUnchanged(r) == state.revision = run[r].revision

Persist(w) ==
    LET r == slot[w].run IN
    /\ slot[w].pc = "persist"
    /\ run[r].status # "COMPLETED"
    /\ InputUnchanged(r)
    /\ state.revision < state.limit
    /\ statement' = Append(statement,
         [status |-> "DRAFT", by |-> "ai", fingerprint |-> run[r].fingerprint,
          verification |-> run[r].verification, version |-> 0])
    /\ state' = [state EXCEPT !.revision = @ + 1]
    /\ run' = [run EXCEPT ![r].status = "COMPLETED"]
    /\ Analysis!Goto(w, "end")
    /\ UNCHANGED <<facts, verification, job, request>>

PersistDone(w) == Analysis!AlreadyPersisted(w, {"COMPLETED"}) /\ UNCHANGED <<facts, tables>>
PersistFails(w) == Analysis!PersistFails(w) /\ UNCHANGED <<facts, tables>>
FailRun(w) == Analysis!FailRun(w) /\ UNCHANGED <<facts, tables>>
EndJob(w) == Analysis!EndJob(w) /\ UNCHANGED <<facts, tables>>
Crash(w) == Analysis!Crash(w) /\ UNCHANGED <<facts, tables>>
Stall(r) == Analysis!Stall(r) /\ UNCHANGED <<facts, tables>>

-----------------------------------------------------------------------------
WriteStep == ChangeFacts \/ Declare \/ Verify \/ EditStatement \/ ValidateStatement

RequestStep(q) ==
    \/ Launch(q) \/ Enqueue(q) \/ EnqueueFails(q) \/ RequestEnds(q)

Proceed(w) ==
    \/ MarkRunning(w) \/ Generate(w) \/ Persist(w) \/ PersistDone(w) \/ PersistFails(w)
    \/ FailRun(w) \/ EndJob(w)

Next ==
    \/ WriteStep
    \/ \E q \in Requests : RequestStep(q)
    \/ \E w \in Slots : (\E r \in Runs : TakeJob(w, r)) \/ Proceed(w) \/ Crash(w)
    \/ \E r \in Runs : Stall(r)

Spec == Init /\ [][Next]_vars

-----------------------------------------------------------------------------
(* Properties.                                                             *)

Fingerprints == [facts : Facts, declaration : Declarations]

\* Every variable holds what its table, queue or request can hold.
TypeOK ==
    /\ facts \in Facts
    /\ state \in [revision : Nat, limit : Nat, declaration : Declarations]
    /\ verification \in Seq(Fingerprints)
    /\ statement \in Seq([status : {"DRAFT", "VALIDATED"}, by : {"ai", "user"},
                          fingerprint : Fingerprints, verification : Nat, version : Nat])
    /\ run \in [Runs -> [status : {"none", "DRAFT", "RUNNING", "COMPLETED", "FAILED"},
                         revision : Nat, fingerprint : Fingerprints \cup {None},
                         verification : Nat]]
    /\ Analysis!Queue!TypeOK
    /\ request \in [Requests ->
         Analysis!RequestTypes({})]
    /\ slot \in [Slots -> Analysis!SlotTypes({})]

Validated == {s \in DOMAIN statement : statement[s].status = "VALIDATED"}

\* The validated versions are numbered without gap, and a later version never rests on
\* an earlier verification: a draft that waited while people verified anew, perhaps with
\* the opposite decision on clause 8.3, is not validated any more.
VersionsFollowVerifications ==
    /\ {statement[s].version : s \in Validated} = 1..Cardinality(Validated)
    /\ \A s, t \in Validated : statement[s].version < statement[t].version =>
         statement[s].verification <= statement[t].verification

\* A draft is added to the declaration and the verification it was written from, whatever
\* clients and another slot did in the meantime.
AppliedToItsDeclaration ==
    [][\A r \in Runs :
         (run[r].status # "COMPLETED" /\ run'[r].status = "COMPLETED") =>
           run[r].fingerprint.declaration = state.declaration /\ run[r].verification = Newest]_vars
=============================================================================
