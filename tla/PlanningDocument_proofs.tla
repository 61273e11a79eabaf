---------------------- MODULE PlanningDocument_proofs ----------------------
(***************************************************************************)
(* What holds of the documents of the SMQ for all sources, texts, runs and *)
(* slots: of PlanningDocument, of the scope statement, and of the process  *)
(* sheets; and that each of them behaves in the composition of MCDocuments *)
(* as its module says.                                                     *)
(***************************************************************************)
EXTENDS MCDocuments, FiniteSetTheorems, SequenceTheorems, TLAPS

A == INSTANCE AnalysisRun_proofs

StateRows == [revision : Nat, fingerprint : Sources \cup {None}, document : Documents]

VersionRows == [kind : Kinds, document : Documents, fingerprint : Sources]

RunRows ==
    [status : {"none", "DRAFT", "RUNNING", "COMPLETED", "FAILED"}, stage : Stages \cup {None},
     revision : Nat, fingerprint : Sources \cup {None}, document : Documents \cup {None},
     output : BOOLEAN, applied : BOOLEAN]

\* The document, its versions and the sources.
TablesTyped ==
    /\ sources \in Sources /\ module \in DOMAIN StagesOf
    /\ state \in StateRows /\ version \in Seq(VersionRows)

\* What is retained in d was decided on the sources f.
DecidedOn(d, f) ==
    /\ Retained(d.axes) \subseteq {f} /\ Retained(d.objectives) \subseteq {f}
    /\ Retained(d.processes) \subseteq {f} /\ Retained(d.interactions) \subseteq {f}

\* The policy of d is one of the versions, and of its own basis.
Linked(d, versions) ==
    d.policy # None =>
      /\ d.policy \in DOMAIN versions /\ versions[d.policy].kind = "policy"
      /\ policyBasis(versions[d.policy].document) = policyBasis(d)

\* Objectives are validated under a linked policy of the same sources.
ObjectivesLinked ==
    \A v \in DOMAIN version : version[v].kind = "objectives" =>
      /\ version[v].document.policy # None /\ Linked(version[v].document, version)
      /\ version[version[v].document.policy].fingerprint = version[v].fingerprint

DocumentInv ==
    DecidedOn(state.document, state.fingerprint) /\ Linked(state.document, version) /\ ObjectivesLinked

\* A run of the current revision was made for the document as it is now.
RunInput(r) ==
    run[r].status # "none" =>
      /\ run[r].stage \in Stages
      /\ run[r].revision <= state.revision
      /\ run[r].revision = state.revision => run[r].document = state.document

Inputs == run \in [Runs -> RunRows] /\ \A r \in Runs : RunInput(r)

IInv == TablesTyped /\ DocumentInv /\ Inputs /\ A!Wired({}, {})

-----------------------------------------------------------------------------
(* The steps that this module shares with the other analyses.              *)

LEMMA SharedQueue ==
    /\ \A r : Analysis!Queue!Add(r) <=> A!Queue!Add(r)
    /\ \A r, w : Analysis!Queue!Take(r, w) <=> A!Queue!Take(r, w)
    /\ \A r, w : Analysis!Queue!Complete(r, w) <=> A!Queue!Complete(r, w)
    /\ \A r, w : Analysis!Queue!Throw(r, w) <=> A!Queue!Throw(r, w)
    /\ \A r : Analysis!Queue!Stall(r) <=> A!Queue!Stall(r)
    /\ Analysis!Queue!Init <=> A!Queue!Init
BY DEF Analysis!Queue!Add, A!Queue!Add, Analysis!Queue!Added, A!Queue!Added,
       Analysis!Queue!Take, A!Queue!Take, Analysis!Queue!Taken, A!Queue!Taken,
       Analysis!Queue!Complete, A!Queue!Complete, Analysis!Queue!Completed, A!Queue!Completed,
       Analysis!Queue!Throw, A!Queue!Throw, Analysis!Queue!Thrown, A!Queue!Thrown,
       Analysis!Queue!Stall, A!Queue!Stall, Analysis!Queue!Recovered, A!Queue!Recovered,
       Analysis!Queue!Init, A!Queue!Init, Analysis!Queue!NoJob, A!Queue!NoJob
       
LEMMA SharedSteps ==
    /\ Analysis!Init <=> A!Init
    /\ \A q, x : Analysis!Read(q, x) <=> A!Read(q, x)
    /\ \A q : Analysis!Done(q) <=> A!Done(q)
    /\ \A q, x : Analysis!Create(q, x) <=> A!Create(q, x)
    /\ \A q : Analysis!Enqueue(q) <=> A!Enqueue(q)
    /\ \A w, r : Analysis!TakeJob(w, r) <=> A!TakeJob(w, r)
    /\ \A w, pc : Analysis!Goto(w, pc) <=> A!Goto(w, pc)
    /\ \A w : Analysis!EndJob(w) <=> A!EndJob(w)
    /\ \A w : Analysis!Crash(w) <=> A!Crash(w)
    /\ \A r : Analysis!Stall(r) <=> A!Stall(r)
BY SharedQueue DEF Analysis!Init, A!Init, Analysis!Free, A!Free, Analysis!Idle, A!Idle,
  Analysis!Read, A!Read, Analysis!Done, A!Done, Analysis!Create, A!Create,
  Analysis!IsNext, A!IsNext,
  Analysis!Enqueue, A!Enqueue, Analysis!TakeJob, A!TakeJob, Analysis!Goto, A!Goto,
  Analysis!Ended, A!Ended,
  Analysis!EndJob, A!EndJob, Analysis!Crash, A!Crash, Analysis!Stall, A!Stall

LEMMA Parameters == A!Parameters
BY PlanningAssumption DEF A!Parameters

-----------------------------------------------------------------------------
(* The documents that a step may write.                                    *)

LEMMA EmptyDocument == emptyDocument \in Documents
BY DEF emptyDocument, Documents, Lists4

LEMMA RetainedLists ==
    ASSUME NEW list \in Lists4, NEW f \in Sources \cup {None}, Retained(list) \subseteq {f},
           f \in {None, sources}, sources \in Sources
    PROVE  /\ Retained(list) \subseteq {sources}
           /\ list \cup {"pending"} \in Lists4 /\ Retained(list \cup {"pending"}) \subseteq {sources}
           /\ \A x \in Lists(list) : x \in Lists4 /\ Retained(x) \subseteq {sources}
           /\ Undecided(list) \in Lists4 /\ Retained(Undecided(list)) = {}
<1>1. Retained(list) \subseteq {sources}
  BY PlanningAssumption DEF Retained, Lists4
<1>2. Retained(Undecided(list)) = {} /\ Undecided(list) \in Lists4
  BY DEF Retained, Undecided, Lists4
<1>3. \A x \in Lists(list) : x \in Lists4 /\ Retained(x) \subseteq {sources}
  BY <1>1 DEF Lists, Retained, Lists4
<1> QED
  BY <1>1, <1>2, <1>3 DEF Retained, Lists4

\* A reviewed document has no decision but those on the sources of now.
LEMMA ReviewedDecisions ==
    ASSUME TablesTyped, DecidedOn(state.document, state.fingerprint), Reviewed
    PROVE  DecidedOn(state.document, sources)
<1>1. state.fingerprint \in {None, sources} /\ state.fingerprint \in Sources \cup {None}
      /\ sources \in Sources /\ state.document \in Documents
  BY DEF Reviewed, TablesTyped, StateRows
<1>2. /\ state.document.axes \in Lists4 /\ state.document.objectives \in Lists4
      /\ state.document.processes \in Lists4 /\ state.document.interactions \in Lists4
  BY <1>1 DEF Documents
<1> QED
  BY <1>1, <1>2, RetainedLists DEF DecidedOn

LEMMA ReopenedDocument ==
    ASSUME NEW d \in Documents
    PROVE  LET e == [d EXCEPT !.axes = Undecided(@), !.objectives = Undecided(@),
                              !.processes = Undecided(@), !.interactions = Undecided(@),
                              !.policy = None]
           IN  e \in Documents /\ e.policy = None /\ \A f : DecidedOn(e, f)
<1> DEFINE e == [d EXCEPT !.axes = Undecided(@), !.objectives = Undecided(@),
                          !.processes = Undecided(@), !.interactions = Undecided(@),
                          !.policy = None]
<1>1. /\ Undecided(d.axes) \in Lists4 /\ Undecided(d.objectives) \in Lists4
      /\ Undecided(d.processes) \in Lists4 /\ Undecided(d.interactions) \in Lists4
  BY DEF Undecided, Lists4
<1>2. e \in Documents
  BY <1>1 DEF Documents
<1>3. /\ e.axes = Undecided(d.axes) /\ e.objectives = Undecided(d.objectives)
      /\ e.processes = Undecided(d.processes) /\ e.interactions = Undecided(d.interactions)
      /\ e.policy = None
  BY DEF Documents
<1>4. \A list : Retained(Undecided(list)) = {}
  BY DEF Retained, Undecided
<1> HIDE DEF e
<1>5. \A f : DecidedOn(e, f)
  BY <1>3, <1>4 DEF DecidedOn
<1> QED
  BY <1>2, <1>3, <1>5 DEF e

LEMMA EditedDocument ==
    ASSUME NEW d \in Documents, sources \in Sources, DecidedOn(d, sources), NEW e \in Edited(d)
    PROVE  e \in Documents /\ DecidedOn(e, sources) /\ e.policy = d.policy
<1>1. /\ d.axes \in Lists4 /\ d.objectives \in Lists4
      /\ d.processes \in Lists4 /\ d.interactions \in Lists4
  BY DEF Documents
<1>2. \A list \in {d.axes, d.objectives, d.processes, d.interactions} : \A x \in Lists(list) :
        x \in Lists4 /\ Retained(x) \subseteq {sources}
  BY <1>1, RetainedLists DEF DecidedOn
<1>3. CASE \E x \in Texts : e = [d EXCEPT !.directions = x] \/ e = [d EXCEPT !.statement = x]
  BY <1>3 DEF Documents, DecidedOn
<1>4. CASE \E x \in Lists(d.axes) : e = [d EXCEPT !.axes = x]
  BY <1>2, <1>4 DEF Documents, DecidedOn
<1>5. CASE \E x \in Lists(d.interactions) : e = [d EXCEPT !.interactions = x]
  BY <1>2, <1>5 DEF Documents, DecidedOn
<1> DEFINE objectives == {[d EXCEPT !.objectives = x] : x \in Lists(d.objectives)}
           processes == {[d EXCEPT !.processes = x] : x \in Lists(d.processes)}
<1>6. \A f \in objectives \cup processes :
        f \in Documents /\ DecidedOn(f, sources) /\ f.policy = d.policy
  <2>1. ASSUME NEW x \in Lists(d.objectives), NEW f, f = [d EXCEPT !.objectives = x]
        PROVE  f \in Documents /\ DecidedOn(f, sources) /\ f.policy = d.policy
    BY <1>2, <2>1 DEF Documents, DecidedOn
  <2>2. ASSUME NEW x \in Lists(d.processes), NEW f, f = [d EXCEPT !.processes = x]
        PROVE  f \in Documents /\ DecidedOn(f, sources) /\ f.policy = d.policy
    BY <1>2, <2>2 DEF Documents, DecidedOn
  <2> QED
    BY <2>1, <2>2
<1> HIDE DEF objectives, processes
<1>7. CASE e \in Detailed(objectives) \/ e \in Detailed(processes)
  <2>1. PICK f \in objectives \cup processes : e = f \/ e = [f EXCEPT !.detailed = ~f.detailed]
    BY <1>7 DEF Detailed
  <2>2. f \in Documents /\ DecidedOn(f, sources) /\ f.policy = d.policy
    BY <1>6
  <2> QED
    BY <2>1, <2>2 DEF Documents, DecidedOn
<1>8. CASE module = "policy"
  <2>1. \/ e \in {[d EXCEPT !.directions = x] : x \in Texts}
        \/ e \in {[d EXCEPT !.axes = x] : x \in Lists(d.axes)}
        \/ e \in {[d EXCEPT !.statement = x] : x \in Texts}
        \/ e \in Detailed(objectives)
    BY <1>8 DEF Edited, objectives
  <2> QED
    BY <1>3, <1>4, <1>7, <2>1
<1>9. CASE module # "policy"
  <2>1. \/ e \in Detailed(processes)
        \/ e \in {[d EXCEPT !.interactions = x] : x \in Lists(d.interactions)}
    BY <1>9 DEF Edited, processes
  <2> QED
    BY <1>5, <1>7, <2>1
<1> QED
  BY <1>8, <1>9

LEMMA ProposedDocument ==
    ASSUME NEW d \in Documents, NEW f, DecidedOn(d, f), NEW stage \in Stages
    PROVE  LET e == Proposed(d, stage)
           IN  /\ e \in Documents /\ DecidedOn(e, f)
               /\ e.policy = None \/ (e.policy = d.policy /\ policyBasis(e) = policyBasis(d))
<1> DEFINE e == Proposed(d, stage)
<1>1. /\ d.axes \in Lists4 /\ d.objectives \in Lists4
      /\ d.processes \in Lists4 /\ d.interactions \in Lists4
  BY DEF Documents
<1>2. \A list \in Lists4 : list \cup {"pending"} \in Lists4
                           /\ Retained(list \cup {"pending"}) = Retained(list)
  BY DEF Lists4, Retained
<1>3. CASE stage = "axes"
  <2>1. e = [d EXCEPT !.axes = d.axes \cup {"pending"}, !.policy = None]
    BY <1>3 DEF Proposed
  <2>2. e \in Documents /\ e.policy = None
    BY <1>1, <1>2, <2>1 DEF Documents
  <2>3. e.axes = d.axes \cup {"pending"} /\ e.objectives = d.objectives
        /\ e.processes = d.processes /\ e.interactions = d.interactions
    BY <2>1 DEF Documents
  <2> QED
    BY <1>1, <1>2, <2>2, <2>3 DEF DecidedOn
<1>4. CASE stage = "statement"
  <2>1. e = [d EXCEPT !.statement = "proposed", !.policy = None]
    BY <1>4 DEF Proposed
  <2> QED
    BY <2>1 DEF Documents, DecidedOn
<1>5. CASE stage = "objectives"
  <2>1. e = [d EXCEPT !.objectives = d.objectives \cup {"pending"}, !.detailed = FALSE]
    BY <1>5 DEF Proposed
  <2>2. e \in Documents
    BY <1>1, <1>2, <2>1 DEF Documents
  <2>3. e.objectives = d.objectives \cup {"pending"} /\ e.axes = d.axes
        /\ e.processes = d.processes /\ e.interactions = d.interactions
        /\ e.policy = d.policy /\ e.directions = d.directions /\ e.statement = d.statement
    BY <2>1 DEF Documents
  <2> QED
    BY <1>1, <1>2, <2>2, <2>3 DEF DecidedOn, policyBasis
<1>6. CASE stage = "processes"
  <2>1. e = [d EXCEPT !.processes = d.processes \cup {"pending"}, !.detailed = FALSE]
    BY <1>6 DEF Proposed
  <2>2. e \in Documents
    BY <1>1, <1>2, <2>1 DEF Documents
  <2>3. e.processes = d.processes \cup {"pending"} /\ e.axes = d.axes
        /\ e.objectives = d.objectives /\ e.interactions = d.interactions
        /\ e.policy = d.policy /\ e.directions = d.directions /\ e.statement = d.statement
    BY <2>1 DEF Documents
  <2> QED
    BY <1>1, <1>2, <2>2, <2>3 DEF DecidedOn, policyBasis
<1>7. CASE stage = "interactions"
  <2>1. e = [d EXCEPT !.interactions = d.interactions \cup {"pending"}]
    BY <1>7 DEF Proposed
  <2>2. e \in Documents
    BY <1>1, <1>2, <2>1 DEF Documents
  <2>3. e.interactions = d.interactions \cup {"pending"} /\ e.axes = d.axes
        /\ e.objectives = d.objectives /\ e.processes = d.processes
        /\ e.policy = d.policy /\ e.directions = d.directions /\ e.statement = d.statement
    BY <2>1 DEF Documents
  <2> QED
    BY <1>1, <1>2, <2>2, <2>3 DEF DecidedOn, policyBasis
<1> QED
  BY <1>3, <1>4, <1>5, <1>6, <1>7 DEF Stages, StagesOf

-----------------------------------------------------------------------------
(* The writes.                                                             *)

\* A run may have been marked as applied; nothing else of it has changed.
RunsStay ==
    /\ run' \in [Runs -> RunRows]
    /\ \A r \in Runs : run'[r].status = run[r].status /\ run'[r].revision = run[r].revision
                       /\ run'[r].document = run[r].document /\ run'[r].stage = run[r].stage

LEMMA RunsUnchanged ==
    ASSUME IInv, UNCHANGED run
    PROVE  RunsStay
BY DEF IInv, Inputs, RunsStay

\* What a write has to show of its document and of the versions.
LEMMA WriteKeeps ==
    ASSUME IInv, NEW d \in Documents, Write(d), RunsStay, version' \in Seq(VersionRows),
           DecidedOn(d, sources), Linked(d, version'), ObjectivesLinked'
    PROVE  IInv'
<1>1. /\ state' = [revision |-> state.revision + 1, fingerprint |-> sources, document |-> d]
      /\ UNCHANGED <<sources, module, job, request, slot>>
  BY DEF Write
<1>2. state.revision \in Nat /\ sources \in Sources
  BY DEF IInv, TablesTyped, StateRows
<1>3. state' \in StateRows /\ state'.document = d /\ state'.fingerprint = sources
      /\ state'.revision = state.revision + 1
  BY <1>1, <1>2 DEF StateRows
<1>4. TablesTyped'
  BY <1>1, <1>3 DEF IInv, TablesTyped
<1>5. DocumentInv'
  BY <1>3 DEF DocumentInv, Linked
<1>6. Inputs'
  <2>1. ASSUME NEW r \in Runs PROVE RunInput(r)'
    <3>1. run[r].revision \in Nat
      BY DEF IInv, Inputs, RunRows
    <3> QED
      BY <1>2, <1>3, <3>1 DEF IInv, Inputs, RunInput, RunsStay
  <2> QED
    BY <2>1 DEF Inputs, RunsStay
<1>7. A!Wired({}, {})'
  <2>1. A!RunsKept
    BY DEF A!RunsKept, RunsStay
  <2> QED
    BY <1>1, <2>1, A!RunsMoveWired DEF IInv
<1> QED
  BY <1>4, <1>5, <1>6, <1>7 DEF IInv

LEMMA SameVersions ==
    ASSUME IInv, UNCHANGED version
    PROVE  /\ version' \in Seq(VersionRows) /\ ObjectivesLinked'
           /\ \A d : Linked(d, version) => Linked(d, version')
BY DEF IInv, TablesTyped, DocumentInv, ObjectivesLinked, Linked

LEMMA UnlinkedDocument ==
    ASSUME NEW d, d.policy = None
    PROVE  Linked(d, version')
BY DEF Linked

LEMMA DocumentTyped ==
    ASSUME IInv
    PROVE  state.document \in Documents /\ sources \in Sources
BY DEF IInv, TablesTyped, StateRows

LEMMA ChangeSourcesKeeps ==
    ASSUME IInv, ChangeSources
    PROVE  IInv'
<1>1. /\ sources' \in Sources
      /\ UNCHANGED <<module, state, version, run, job, request, slot>>
  BY DEF ChangeSources, tables
<1>2. TablesTyped' /\ DocumentInv' /\ Inputs'
  BY <1>1 DEF IInv, TablesTyped, DocumentInv, DecidedOn, Linked, ObjectivesLinked, Inputs, RunInput
<1>3. A!Wired({}, {})'
  BY <1>1, A!RunsMoveWired DEF IInv, A!RunsKept
<1> QED
  BY <1>2, <1>3 DEF IInv

LEMMA ReviewSourcesKeeps ==
    ASSUME IInv, ReviewSources
    PROVE  IInv'
<1> DEFINE d == state.document
           e == [d EXCEPT !.axes = Undecided(@), !.objectives = Undecided(@),
                          !.processes = Undecided(@), !.interactions = Undecided(@),
                          !.policy = None]
<1>1. Write(e) /\ UNCHANGED <<version, run>>
  BY DEF ReviewSources
<1>2. e \in Documents /\ e.policy = None /\ DecidedOn(e, sources)
  BY ReopenedDocument, DocumentTyped
<1> HIDE DEF e
<1> QED
  BY <1>1, <1>2, WriteKeeps, UnlinkedDocument, SameVersions, RunsUnchanged

LEMMA SaveKeeps ==
    ASSUME IInv, Save
    PROVE  IInv'
<1> DEFINE own(d) == module = "policy" /\ policyBasis(d) = policyBasis(state.document)
<1>1. PICK d \in Edited(state.document) :
        Write([d EXCEPT !.policy = IF own(d) THEN @ ELSE None])
  BY DEF Save
<1>2. d \in Documents /\ DecidedOn(d, sources) /\ d.policy = state.document.policy
  <2>1. DecidedOn(state.document, sources)
    BY ReviewedDecisions DEF Save, IInv, DocumentInv
  <2> QED
    BY <2>1, DocumentTyped, EditedDocument
<1> DEFINE e == [d EXCEPT !.policy = IF own(d) THEN @ ELSE None]
<1>3. /\ e \in Documents /\ DecidedOn(e, sources) /\ policyBasis(e) = policyBasis(d)
      /\ e.policy = IF own(d) THEN d.policy ELSE None
  BY <1>2 DEF Documents, DecidedOn, policyBasis
<1>4. Linked(e, version)
  BY <1>2, <1>3 DEF Linked, IInv, DocumentInv
<1> HIDE DEF e, own
<1>5. UNCHANGED <<version, run>> /\ Write(e)
  BY <1>1 DEF Save, e
<1> QED
  BY <1>3, <1>4, <1>5, WriteKeeps, SameVersions, RunsUnchanged

LEMMA ApplyKeeps ==
    ASSUME IInv, NEW r \in Runs, Apply(r)
    PROVE  IInv' /\ run[r].document = state.document /\ \A s \in Runs \ {r} : run'[s] = run[s]
<1> DEFINE e == Proposed(state.document, run[r].stage)
<1>1. /\ Reviewed /\ Applicable(r) /\ Write(e) /\ UNCHANGED version
      /\ run' = [run EXCEPT ![r].applied = TRUE]
  BY DEF Apply
<1>2. run[r] \in RunRows /\ RunInput(r) /\ run[r].status = "COMPLETED"
      /\ run[r].revision = state.revision
  BY <1>1 DEF Applicable, IInv, Inputs
<1>3. run[r].document = state.document
  BY <1>2 DEF RunInput
<1>4. RunsStay /\ \A s \in Runs \ {r} : run'[s] = run[s]
  BY <1>1, <1>2 DEF RunsStay, RunRows, IInv, Inputs
<1>5. run[r].stage \in Stages
  BY <1>2 DEF RunInput
<1>6. DecidedOn(state.document, sources)
  BY <1>1, ReviewedDecisions DEF IInv, DocumentInv
<1>7. /\ e \in Documents /\ DecidedOn(e, sources)
      /\ e.policy = None \/ (e.policy = state.document.policy
                             /\ policyBasis(e) = policyBasis(state.document))
  BY <1>5, <1>6, DocumentTyped, ProposedDocument
<1> HIDE DEF e
<1>8. Linked(e, version)
  BY <1>7 DEF Linked, IInv, DocumentInv
<1>9. IInv'
  BY <1>1, <1>4, <1>7, <1>8, WriteKeeps, SameVersions
<1> QED
  BY <1>3, <1>4, <1>9

LEMMA AppendedVersion ==
    ASSUME IInv, NEW v \in VersionRows, version' = Append(version, v)
    PROVE  /\ version' \in Seq(VersionRows)
           /\ Len(version') \in DOMAIN version' /\ Len(version') \in Nat
           /\ version'[Len(version')] = v
           /\ DOMAIN version' = DOMAIN version \cup {Len(version')}
           /\ \A i \in DOMAIN version : version'[i] = version[i]
           /\ \A d : Linked(d, version) => Linked(d, version')
<1>1. version \in Seq(VersionRows) /\ Len(version) \in Nat /\ DOMAIN version = 1..Len(version)
  BY DEF IInv, TablesTyped
<1>2. /\ version' \in Seq(VersionRows) /\ Len(version') = Len(version) + 1
      /\ DOMAIN version' = 1..Len(version') /\ version'[Len(version')] = v
      /\ \A i \in 1..Len(version) : version'[i] = version[i]
  BY <1>1
<1>3. DOMAIN version' = DOMAIN version \cup {Len(version')}
  BY <1>1, <1>2
<1>4. \A d : Linked(d, version) => Linked(d, version')
  BY <1>1, <1>2, <1>3 DEF Linked
<1> QED
  BY <1>1, <1>2, <1>3, <1>4

LEMMA ValidateKeeps ==
    ASSUME IInv, NEW kind \in Kinds, Validate(kind)
    PROVE  IInv'
<1> DEFINE d == state.document
           v == [kind |-> kind, document |-> d, fingerprint |-> sources]
           n == Len(version')
           e == IF kind = "policy" THEN [d EXCEPT !.policy = n] ELSE d
<1>1. /\ Reviewed /\ Valid(kind) /\ version' = Append(version, v) /\ UNCHANGED run /\ Write(e)
  BY DEF Validate
<1>2. d \in Documents /\ sources \in Sources /\ Linked(d, version)
  BY DocumentTyped DEF IInv, DocumentInv
<1>3. v \in VersionRows /\ v.kind = kind /\ v.document = d /\ v.fingerprint = sources
  BY <1>2 DEF VersionRows
<1> HIDE DEF v
<1>4. /\ version' \in Seq(VersionRows) /\ n \in DOMAIN version' /\ n \in Nat /\ version'[n] = v
      /\ DOMAIN version' = DOMAIN version \cup {n}
      /\ \A i \in DOMAIN version : version'[i] = version[i]
      /\ \A f : Linked(f, version) => Linked(f, version')
  BY <1>1, <1>3, AppendedVersion
<1> HIDE DEF n
<1>5. DecidedOn(d, sources)
  BY <1>1, ReviewedDecisions DEF IInv, DocumentInv
<1>6. e \in Documents /\ DecidedOn(e, sources) /\ policyBasis(e) = policyBasis(d)
      /\ e.policy = IF kind = "policy" THEN n ELSE d.policy
  BY <1>2, <1>4, <1>5 DEF Documents, DecidedOn, policyBasis
<1>7. Linked(e, version')
  <2>1. CASE kind = "policy"
    BY <1>3, <1>4, <1>6, <2>1 DEF Linked
  <2>2. CASE kind # "policy"
    BY <1>2, <1>4, <1>6, <2>2
  <2> QED
    BY <2>1, <2>2
<1>8. ObjectivesLinked'
  <2> SUFFICES ASSUME NEW i \in DOMAIN version', version'[i].kind = "objectives"
               PROVE  /\ version'[i].document.policy # None
                      /\ Linked(version'[i].document, version')
                      /\ version'[version'[i].document.policy].fingerprint = version'[i].fingerprint
    BY DEF ObjectivesLinked
  <2>1. CASE i \in DOMAIN version
    BY <1>4, <2>1 DEF IInv, DocumentInv, ObjectivesLinked, Linked
  <2>2. CASE i = n
    <3>1. version'[i] = v /\ kind = "objectives"
      BY <1>3, <1>4, <2>2
    <3>2. policyCurrent(d)
      BY <1>1, <3>1 DEF Valid
    <3>3. d.policy # None /\ d.policy \in DOMAIN version /\ version[d.policy].fingerprint = sources
      BY <1>2, <3>2 DEF policyCurrent, Linked
    <3> QED
      BY <1>2, <1>3, <1>4, <3>1, <3>3
  <2> QED
    BY <1>4, <2>1, <2>2
<1> HIDE DEF e
<1>9. RunsStay
  BY <1>1, RunsUnchanged
<1> QED
  BY <1>1, <1>4, <1>6, <1>7, <1>8, <1>9, WriteKeeps

-----------------------------------------------------------------------------
(* The launch and the steps of the queue and the slots.                    *)

LEMMA LaunchKeeps ==
    ASSUME IInv, NEW q \in Requests, NEW stage \in Stages, Launch(q, stage)
    PROVE  IInv' /\ \E r \in Runs : ~run'[r].applied /\ \A s \in Runs \ {r} : run'[s] = run[s]
<1> DEFINE new == [NoRun EXCEPT !.status = "DRAFT", !.stage = stage,
         !.revision = state.revision, !.fingerprint = sources, !.document = state.document]
<1>1. /\ Reviewed /\ state' = [state EXCEPT !.fingerprint = sources]
      /\ A!Create(q, new) /\ UNCHANGED <<sources, module, version, job, slot>>
  BY SharedSteps DEF Launch
<1>2. state \in StateRows /\ sources \in Sources
  BY DEF IInv, TablesTyped
<1>3. /\ new \in RunRows /\ new.status = "DRAFT" /\ new.stage = stage /\ ~new.applied
      /\ new.revision = state.revision /\ new.document = state.document
  BY <1>2 DEF NoRun, RunRows, StateRows
<1> HIDE DEF new
<1>4. state' \in StateRows /\ state'.document = state.document /\ state'.fingerprint = sources
      /\ state'.revision = state.revision
  BY <1>1, <1>2 DEF StateRows
<1>5. PICK r \in Runs : run' = [run EXCEPT ![r] = new]
  BY <1>1 DEF A!Create
<1>6. A!Wired({}, {})'
  BY <1>1, <1>3, A!CreateWired DEF IInv, Inputs
<1>7. TablesTyped'
  BY <1>1, <1>4 DEF IInv, TablesTyped
<1>8. DecidedOn(state.document, sources)
  BY <1>1, ReviewedDecisions DEF IInv, DocumentInv
<1>9. DocumentInv'
  BY <1>1, <1>4, <1>8, SameVersions DEF IInv, DocumentInv
<1>10. Inputs'
  <2>1. run' \in [Runs -> RunRows]
    BY <1>3, <1>5 DEF IInv, Inputs
  <2>2. ASSUME NEW t \in Runs PROVE RunInput(t)'
    <3>1. CASE t = r
      BY <1>2, <1>3, <1>4, <1>5, <3>1 DEF RunInput, IInv, Inputs, StateRows
    <3>2. CASE t # r
      BY <1>4, <1>5, <3>2 DEF RunInput, IInv, Inputs
    <3> QED
      BY <3>1, <3>2
  <2> QED
    BY <2>1, <2>2 DEF Inputs
<1>11. ~run'[r].applied /\ \A s \in Runs \ {r} : run'[s] = run[s]
  BY <1>3, <1>5 DEF IInv, Inputs
<1> QED
  BY <1>6, <1>7, <1>9, <1>10, <1>11 DEF IInv

\* A run that has another status now, and maybe its proposal.
StatusSet(r) ==
    \E row \in RunRows :
      /\ run' = [run EXCEPT ![r] = row] /\ row.status # "none" /\ row.stage = run[r].stage
      /\ row.revision = run[r].revision /\ row.document = run[r].document
      /\ row.applied = run[r].applied

OthersStay == \A r \in Runs : run'[r].applied = run[r].applied

LEMMA TablesKept ==
    ASSUME IInv, UNCHANGED <<sources, module, tables>>, A!Wired({}, {})',
           UNCHANGED run \/ \E r \in Runs : run[r].status # "none" /\ StatusSet(r)
    PROVE  IInv' /\ OthersStay
<1>1. TablesTyped' /\ DocumentInv'
  BY DEF IInv, TablesTyped, DocumentInv, DecidedOn, Linked, ObjectivesLinked, tables
<1>2. Inputs' /\ OthersStay
  <2>1. state' = state
    BY DEF tables
  <2>2. CASE UNCHANGED run
    BY <2>1, <2>2 DEF IInv, Inputs, RunInput, OthersStay
  <2>3. CASE \E r \in Runs : run[r].status # "none" /\ StatusSet(r)
    BY <2>1, <2>3 DEF IInv, Inputs, RunInput, OthersStay, StatusSet
  <2> QED
    BY <2>2, <2>3
<1> QED
  BY <1>1, <1>2 DEF IInv

LEMMA StatusKeepsRuns ==
    ASSUME IInv, UNCHANGED run \/ \E r \in Runs : StatusSet(r)
    PROVE  A!RunsKept
BY DEF IInv, Inputs, A!RunsKept, StatusSet

LEMMA StatusIsSet ==
    ASSUME IInv, NEW r \in Runs, run[r].status # "none",
           NEW status \in {"RUNNING", "COMPLETED", "FAILED"},
           run' = [run EXCEPT ![r].status = status]
    PROVE  StatusSet(r)
<1> DEFINE new == [run[r] EXCEPT !.status = status]
<1>1. run[r] \in RunRows /\ run' = [run EXCEPT ![r] = new]
  BY DEF IInv, Inputs
<1>2. /\ new \in RunRows /\ new.status # "none" /\ new.stage = run[r].stage
      /\ new.revision = run[r].revision /\ new.document = run[r].document
      /\ new.applied = run[r].applied
  BY <1>1 DEF RunRows
<1> HIDE DEF new
<1> QED
  BY <1>1, <1>2 DEF StatusSet

LEMMA RunAtWork ==
    ASSUME IInv
    PROVE  /\ \A q \in Requests : request[q].pc = "enqueue" =>
                request[q].run \in Runs /\ run[request[q].run].status # "none"
           /\ \A w \in Slots : slot[w].pc # "idle" =>
                slot[w].run \in Runs /\ run[slot[w].run].status # "none"
BY DEF IInv, A!Wired, A!RequestsWired, A!SlotsWired, A!JobsHaveRuns

LEMMA QuietRequestStep ==
    ASSUME IInv, NEW q \in Requests, Enqueue(q) \/ EnqueueFails(q) \/ RequestEnds(q)
    PROVE  IInv' /\ OthersStay
<1>1. CASE Enqueue(q)
  <2>1. A!Enqueue(q) /\ UNCHANGED run
    BY <1>1, SharedSteps DEF Enqueue, Analysis!Enqueue
  <2>2. A!Wired({}, {})'
    BY <2>1, StatusKeepsRuns, Parameters, A!EnqueueWired DEF IInv
  <2> QED
    BY <1>1, <2>1, <2>2, TablesKept DEF Enqueue
<1>2. CASE EnqueueFails(q)
  <2>1. A!Done(q) /\ UNCHANGED <<job, slot>> /\ request[q].pc = "enqueue"
        /\ run' = [run EXCEPT ![request[q].run].status = "FAILED"]
    BY <1>2, SharedSteps DEF EnqueueFails, Analysis!EnqueueFails
  <2>2. StatusSet(request[q].run) /\ request[q].run \in Runs /\ run[request[q].run].status # "none"
    BY <2>1, RunAtWork, StatusIsSet
  <2>3. A!Wired({}, {})'
    BY <2>1, <2>2, StatusKeepsRuns, A!RequestEndsWired DEF IInv
  <2> QED
    BY <1>2, <2>2, <2>3, TablesKept DEF EnqueueFails
<1>3. CASE RequestEnds(q)
  <2>1. A!Done(q) /\ UNCHANGED <<run, job, slot>>
    BY <1>3, SharedSteps DEF RequestEnds, Analysis!RequestEnds
  <2>2. A!Wired({}, {})'
    BY <2>1, StatusKeepsRuns, A!RequestEndsWired DEF IInv
  <2> QED
    BY <1>3, <2>1, <2>2, TablesKept DEF RequestEnds
<1> QED
  BY <1>1, <1>2, <1>3

LEMMA SlotGoesOn ==
    ASSUME IInv, NEW w \in Slots, slot[w].pc # "idle",
           NEW pc \in {"generate", "persist", "fail", "throw", "end"}, Analysis!Goto(w, pc),
           UNCHANGED <<sources, module, tables, job, request>>,
           UNCHANGED run \/ StatusSet(slot[w].run)
    PROVE  IInv' /\ OthersStay
<1>1. slot[w].run \in Runs /\ run[slot[w].run].status # "none"
  BY RunAtWork
<1>2. A!SlotMoves
  BY SharedSteps DEF A!SlotMoves
<1>3. A!Wired({}, {})'
  BY <1>1, <1>2, StatusKeepsRuns, A!SlotMovesWired DEF IInv
<1> QED
  BY <1>1, <1>3, TablesKept

LEMMA SlotStep ==
    ASSUME IInv, NEW w \in Slots,
           \/ MarkRunning(w) \/ Generate(w) \/ Persist(w) \/ PersistDone(w) \/ PersistFails(w)
           \/ FailRun(w)
    PROVE  IInv' /\ OthersStay
<1> DEFINE r == slot[w].run
<1>1. slot[w].pc # "idle" => r \in Runs /\ run[r].status # "none" /\ run[r] \in RunRows
  BY RunAtWork DEF IInv, Inputs
<1>2. CASE MarkRunning(w)
  BY <1>1, <1>2, StatusIsSet, SlotGoesOn DEF MarkRunning, Analysis!MarkRunning, Analysis!Goto
<1>3. CASE Generate(w)
  BY <1>3, SlotGoesOn DEF Generate
<1>4. CASE Persist(w)
  <2> DEFINE new == [run[r] EXCEPT !.status = "COMPLETED", !.output = TRUE]
  <2>1. run' = [run EXCEPT ![r] = new]
    BY <1>4 DEF Persist
  <2>2. /\ new \in RunRows /\ new.status # "none" /\ new.stage = run[r].stage
        /\ new.revision = run[r].revision /\ new.document = run[r].document
        /\ new.applied = run[r].applied
    BY <1>1, <1>4 DEF Persist, RunRows
  <2> HIDE DEF new
  <2>3. StatusSet(r)
    BY <2>1, <2>2 DEF StatusSet
  <2> QED
    BY <1>4, <2>3, SlotGoesOn DEF Persist
<1>5. CASE PersistDone(w)
  BY <1>5, SlotGoesOn DEF PersistDone, Analysis!AlreadyPersisted
<1>6. CASE PersistFails(w)
  BY <1>6, SlotGoesOn DEF PersistFails, Analysis!PersistFails
<1>7. CASE FailRun(w)
  <2>1. slot[w].pc = "fail" /\ Analysis!Goto(w, "end") /\ UNCHANGED <<job, request>>
    BY <1>7 DEF FailRun, Analysis!FailUnlessCompleted
  <2>2. \E status \in {"COMPLETED", "FAILED"} : run' = [run EXCEPT ![r].status = status]
    BY <1>7 DEF FailRun, Analysis!FailUnlessCompleted
  <2>3. StatusSet(r)
    BY <1>1, <2>1, <2>2, StatusIsSet
  <2> QED
    BY <1>7, <2>1, <2>3, SlotGoesOn DEF FailRun
<1> QED
  BY <1>2, <1>3, <1>4, <1>5, <1>6, <1>7

LEMMA JobStep ==
    ASSUME IInv, NEW r \in Runs,
           Stall(r) \/ \E w \in Slots : TakeJob(w, r) \/ EndJob(w) \/ Crash(w)
    PROVE  IInv' /\ OthersStay
<1>1. UNCHANGED <<sources, module, tables, run>>
  BY DEF TakeJob, EndJob, Crash, Stall, Analysis!TakeJob, Analysis!EndJob, Analysis!Crash,
         Analysis!Stall
<1>2. A!Stall(r) \/ \E w \in Slots : A!TakeJob(w, r) \/ A!EndJob(w) \/ A!Crash(w)
  BY SharedSteps DEF TakeJob, EndJob, Crash, Stall
<1>3. A!Wired({}, {})'
  BY <1>1, <1>2, StatusKeepsRuns, Parameters, A!TakeJobWired, A!EndJobWired, A!CrashWired,
     A!StallWired DEF IInv
<1> QED
  BY <1>1, <1>3, TablesKept

-----------------------------------------------------------------------------
(* The steps together.                                                     *)

LEMMA Starts ==
    ASSUME Init
    PROVE  IInv
<1>1. sources \in Sources /\ module \in DOMAIN StagesOf /\ version = <<>>
      /\ run = [r \in Runs |-> NoRun] /\ A!Init
  BY PlanningAssumption, SharedSteps DEF Init
<1>2. PICK started \in BOOLEAN, text \in Texts :
         state = [revision |-> 0, fingerprint |-> IF started THEN sources ELSE None,
                  document |->
                    IF ~started THEN emptyDocument
                    ELSE IF module = "policy"
                    THEN [emptyDocument EXCEPT !.directions = text, !.axes = {sources}]
                    ELSE [emptyDocument EXCEPT !.processes = {sources}]]
  BY DEF Init
<1>3. {sources} \in Lists4 /\ Retained({sources}) \subseteq {sources} /\ Retained({}) = {}
  BY <1>1 DEF Lists4, Retained
<1>4. state.document \in Documents /\ DecidedOn(state.document, state.fingerprint)
      /\ state.document.policy = None
  <2>1. CASE ~started
    BY <1>2, <1>3, <2>1, EmptyDocument DEF emptyDocument, DecidedOn
  <2>2. CASE started /\ module = "policy"
    <3>1. state.document = [emptyDocument EXCEPT !.directions = text, !.axes = {sources}]
          /\ state.fingerprint = sources
      BY <1>2, <2>2
    <3> QED
      BY <1>2, <1>3, <3>1, EmptyDocument DEF emptyDocument, Documents, DecidedOn
  <2>3. CASE started /\ module # "policy"
    <3>1. state.document = [emptyDocument EXCEPT !.processes = {sources}]
          /\ state.fingerprint = sources
      BY <1>2, <2>3
    <3> QED
      BY <1>2, <1>3, <3>1, EmptyDocument DEF emptyDocument, Documents, DecidedOn
  <2> QED
    BY <2>1, <2>2, <2>3
<1>5. TablesTyped
  BY <1>1, <1>2, <1>4 DEF TablesTyped, StateRows
<1>6. DocumentInv
  BY <1>1, <1>4 DEF DocumentInv, Linked, ObjectivesLinked
<1>7. Inputs
  <2>1. NoRun \in RunRows /\ NoRun.status = "none"
    BY DEF NoRun, RunRows
  <2> QED
    BY <1>1, <2>1 DEF Inputs, RunInput
<1>8. A!Wired({}, {})
  BY <1>1, Parameters, A!InitWired DEF NoRun
<1> QED
  BY <1>5, <1>6, <1>7, <1>8 DEF IInv

\* What a step does to the runs that are applied by it.
AppliedRight ==
    \A r \in Runs : ~run[r].applied /\ run'[r].applied => run[r].document = state.document

LEMMA StepKeeps ==
    ASSUME IInv, [Next]_vars
    PROVE  IInv' /\ AppliedRight
<1>1. CASE UNCHANGED vars
  <2>1. UNCHANGED <<sources, module, tables, run, job, request, slot>>
    BY <1>1 DEF vars
  <2>2. A!Wired({}, {})'
    BY <2>1, StatusKeepsRuns, A!RunsMoveWired DEF IInv
  <2> QED
    BY <2>1, <2>2, TablesKept DEF AppliedRight
<1>2. CASE ChangeSources \/ ReviewSources \/ Save \/ \E kind \in Kinds : Validate(kind)
  <2>1. UNCHANGED run
    BY <1>2 DEF ChangeSources, ReviewSources, Save, Validate
  <2> QED
    BY <1>2, <2>1, ChangeSourcesKeeps, ReviewSourcesKeeps, SaveKeeps, ValidateKeeps
    DEF AppliedRight
<1>3. CASE \E r \in Runs : Apply(r)
  <2>1. PICK r \in Runs : Apply(r)
    BY <1>3
  <2>2. IInv' /\ run[r].document = state.document /\ \A s \in Runs \ {r} : run'[s] = run[s]
    BY <2>1, ApplyKeeps
  <2> QED
    BY <2>2 DEF AppliedRight
<1>4. ASSUME NEW q \in Requests, RequestStep(q)
      PROVE  IInv' /\ AppliedRight
  <2>1. CASE Enqueue(q) \/ EnqueueFails(q) \/ RequestEnds(q)
    BY <2>1, QuietRequestStep DEF OthersStay, AppliedRight
  <2>2. CASE \E stage \in Stages : Launch(q, stage)
    BY <2>2, LaunchKeeps DEF AppliedRight
  <2> QED
    BY <1>4, <2>1, <2>2 DEF RequestStep
<1>5. ASSUME NEW w \in Slots, Proceed(w) \/ Crash(w)
      PROVE  IInv' /\ AppliedRight
  <2>1. CASE EndJob(w) \/ Crash(w)
    <3>1. slot[w].run \in Runs
      BY <2>1, RunAtWork DEF EndJob, Crash, Analysis!EndJob, Analysis!Crash
    <3> QED
      BY <2>1, <3>1, JobStep DEF OthersStay, AppliedRight
  <2>2. CASE \/ MarkRunning(w) \/ Generate(w) \/ Persist(w) \/ PersistDone(w)
             \/ PersistFails(w) \/ FailRun(w)
    BY <2>2, SlotStep DEF OthersStay, AppliedRight
  <2> QED
    BY <1>5, <2>1, <2>2 DEF Proceed
<1>6. ASSUME NEW r \in Runs, Stall(r) \/ \E w \in Slots : TakeJob(w, r)
      PROVE  IInv' /\ AppliedRight
  BY <1>6, JobStep DEF OthersStay, AppliedRight
<1> QED
  BY <1>1, <1>2, <1>3, <1>4, <1>5, <1>6 DEF Next, WriteStep

LEMMA InvariantTypes ==
    ASSUME IInv
    PROVE  TypeOK
<1>1. Analysis!Queue!TypeOK
  BY DEF IInv, A!Wired, A!JobsTyped, A!JobRecords, Analysis!Queue!TypeOK
<1>2. request \in [Requests -> Analysis!RequestTypes({})]
  BY DEF IInv, A!Wired, A!RequestsWired, A!RequestTypes, Analysis!RequestTypes
<1>3. slot \in [Slots -> Analysis!SlotTypes({})]
  BY DEF IInv, A!Wired, A!SlotsWired, A!SlotTypes, Analysis!SlotTypes
<1> QED
  BY <1>1, <1>2, <1>3 DEF IInv, TablesTyped, StateRows, VersionRows, Inputs, RunRows, TypeOK

\* Documents, versions, runs, jobs and requests hold what their tables can hold.
THEOREM TypeCorrect == Spec => []TypeOK
<1>1. Init => IInv
  BY Starts
<1>2. IInv /\ [Next]_vars => IInv'
  BY StepKeeps
<1>3. IInv => TypeOK
  BY InvariantTypes
<1> QED
  BY <1>1, <1>2, <1>3, PTL DEF Spec

\* All that is retained in a document was decided on the sources it was reviewed with,
\* for any sources, writes, runs and slots.
THEOREM DecisionsAreOnSources == Spec => []DecisionsOnSources
<1>1. Init => IInv
  BY Starts
<1>2. IInv /\ [Next]_vars => IInv'
  BY StepKeeps
<1>3. IInv => DecisionsOnSources
  BY DEF IInv, DocumentInv, DecidedOn, DecisionsOnSources
<1> QED
  BY <1>1, <1>2, <1>3, PTL DEF Spec

\* A document is linked to a policy of its own basis, and objectives are validated
\* under one of the same sources, whatever is edited, applied and validated in between.
THEOREM PolicyLinksAreTrue == Spec => []PolicyLinkTrue
<1>1. Init => IInv
  BY Starts
<1>2. IInv /\ [Next]_vars => IInv'
  BY StepKeeps
<1>3. IInv => PolicyLinkTrue
  BY DEF IInv, DocumentInv, ObjectivesLinked, Linked, PolicyLinkTrue
<1> QED
  BY <1>1, <1>2, <1>3, PTL DEF Spec

\* A proposal is applied to the document that its run was launched with.
THEOREM ProposalsFitTheDocument == Spec => AppliedToItsDocument
<1>1. Init => IInv
  BY Starts
<1>2. IInv /\ [Next]_vars => IInv'
  BY StepKeeps
<1>3. IInv /\ [Next]_vars =>
        [\A r \in Runs : (~run[r].applied /\ run'[r].applied) =>
           run[r].document = state.document]_vars
  BY StepKeeps DEF AppliedRight
<1> QED
  BY <1>1, <1>2, <1>3, PTL DEF Spec, AppliedToItsDocument

-----------------------------------------------------------------------------
(* The jobs.                                                               *)

LEMMA QueueSteps ==
    ASSUME IInv, [Next]_vars
    PROVE  [A!Queue!Next]_job
<1>w. A!Wired({}, {})
  BY DEF IInv
<1>1. CASE UNCHANGED vars
  BY <1>1 DEF vars
<1>2. CASE WriteStep
  BY <1>2 DEF Write, WriteStep, ChangeSources, ReviewSources, Save, Apply, Validate
<1>3. ASSUME NEW q \in Requests, RequestStep(q)
      PROVE  [A!Queue!Next]_job
  <2>1. CASE Enqueue(q)
    <3>1. A!Enqueue(q)
      BY <2>1, SharedSteps DEF Enqueue
    <3> QED
      BY <1>w, <3>1, A!QueueMoves
  <2>2. CASE ~Enqueue(q)
    BY <1>3, <2>2 DEF RequestStep, Launch, EnqueueFails, RequestEnds, Analysis!EnqueueFails,
       Analysis!RequestEnds, Analysis!Create
  <2> QED
    BY <2>1, <2>2
<1>4. ASSUME NEW w \in Slots, Proceed(w) \/ Crash(w)
      PROVE  [A!Queue!Next]_job
  <2>1. CASE EndJob(w)
    <3>1. A!EndJob(w)
      BY <2>1, SharedSteps DEF EndJob
    <3> QED
      BY <1>w, <3>1, A!QueueMoves
  <2>2. CASE ~EndJob(w)
    BY <1>4, <2>2 DEF Proceed, Crash, MarkRunning, Generate, Persist, PersistDone, PersistFails,
       FailRun, Analysis!MarkRunning, Analysis!AlreadyPersisted,
       Analysis!PersistFails, Analysis!FailUnlessCompleted, Analysis!Crash,
       Analysis!Goto
  <2> QED
    BY <2>1, <2>2
<1>5. ASSUME NEW r \in Runs, Stall(r) \/ \E w \in Slots : TakeJob(w, r)
      PROVE  [A!Queue!Next]_job
  <2>1. A!Stall(r) \/ \E w \in Slots : A!TakeJob(w, r)
    BY <1>5, SharedSteps DEF Stall, TakeJob
  <2> QED
    BY <1>w, <2>1, A!QueueMoves
<1> QED
  BY <1>1, <1>2, <1>3, <1>4, <1>5 DEF Next

LEMMA SameQueue ==
    /\ A!Queue!Delivery!Init <=> Analysis!Queue!Delivery!Init
    /\ [A!Queue!Delivery!Next]_([i \in Runs |-> A!Queue!Progress(job[i])])
       <=> [Analysis!Queue!Delivery!Next]_([i \in Runs |-> Analysis!Queue!Progress(job[i])])
BY Zenon DEF A!Queue!Progress, Analysis!Queue!Progress, A!Queue!Delivery!Init,
  Analysis!Queue!Delivery!Init, A!Queue!Delivery!Add, Analysis!Queue!Delivery!Add,
  A!Queue!Delivery!Deliver, Analysis!Queue!Delivery!Deliver,
  A!Queue!Delivery!Complete, Analysis!Queue!Delivery!Complete,
  A!Queue!Delivery!GiveUp, Analysis!Queue!Delivery!GiveUp, A!Queue!Delivery!Next,
  Analysis!Queue!Delivery!Next

\* The jobs of the planning documents make only steps of the queue.
THEOREM JobsAreDelivered == Spec => Analysis!Queue!DeliveryImplemented
<1>1. Init => IInv /\ A!Queue!Init
  <2>1. Init => A!Init
    BY SharedSteps DEF Init
  <2> QED
    BY <2>1, Starts DEF A!Init
<1>2. IInv /\ [Next]_vars => IInv' /\ [A!Queue!Next]_job
  BY StepKeeps, QueueSteps
<1>3. A!Queue!Spec => A!Queue!DeliveryImplemented
  BY Parameters, A!DeliveryIsImplemented
<1>4. Spec => A!Queue!DeliveryImplemented
  BY <1>1, <1>2, <1>3, PTL DEF Spec, A!Queue!Spec
<1>5. A!Queue!Delivery!Init <=> Analysis!Queue!Delivery!Init
  BY SameQueue
<1>6. [A!Queue!Delivery!Next]_([i \in Runs |-> A!Queue!Progress(job[i])])
       <=> [Analysis!Queue!Delivery!Next]_([i \in Runs |-> Analysis!Queue!Progress(job[i])])
  BY SameQueue
<1> QED
  BY <1>4, <1>5, <1>6, PTL DEF A!Queue!DeliveryImplemented,
     Analysis!Queue!DeliveryImplemented, A!Queue!Delivery!Spec,
     Analysis!Queue!Delivery!Spec

-----------------------------------------------------------------------------
(* The scope statement.  Beside the types and the wiring, its invariant    *)
(* says that drafts have no version, that the validated ones are numbered  *)
(* without gap in the order of their verifications, and that a run of the  *)
(* current revision was launched on the declaration and the verification   *)
(* of now.                                                                 *)

ScopeA == INSTANCE AnalysisRun_proofs WITH
    Runs <- Scope!Runs, run <- scRun, job <- scJob, request <- scRequest, slot <- scSlot

ScopeStates == [revision : Nat, limit : Nat, declaration : Declarations]

ScopeStatements ==
    [status : {"DRAFT", "VALIDATED"}, by : {"ai", "user"}, fingerprint : Scope!Fingerprints,
     verification : Nat, version : Nat]

ScopeRuns ==
    [status : {"none", "DRAFT", "RUNNING", "COMPLETED", "FAILED"}, revision : Nat,
     fingerprint : Scope!Fingerprints \cup {None}, verification : Nat]

ScopeTyped ==
    /\ scFacts \in Facts /\ scState \in ScopeStates
    /\ scVerification \in Seq(Scope!Fingerprints) /\ scStatement \in Seq(ScopeStatements)
    /\ scRun \in [Scope!Runs -> ScopeRuns]

\* A statement rests on a verification that was made; a draft has no version yet.
StatementsRest ==
    \A s \in DOMAIN scStatement :
      /\ scStatement[s].verification <= Len(scVerification)
      /\ scStatement[s].status = "DRAFT" => scStatement[s].version = 0

ScopeRunInput(r) ==
    scRun[r].status # "none" =>
      /\ scRun[r].fingerprint \in Scope!Fingerprints
      /\ scRun[r].verification <= Len(scVerification)
      /\ scRun[r].revision <= scState.revision
      /\ scRun[r].revision = scState.revision =>
           /\ scRun[r].fingerprint.declaration = scState.declaration
           /\ scRun[r].verification = Len(scVerification)

ScopeInputs == \A r \in Scope!Runs : ScopeRunInput(r)

ScopeInv ==
    /\ ScopeTyped /\ StatementsRest /\ Scope!VersionsFollowVerifications /\ ScopeInputs
    /\ ScopeA!Wired({}, {})

LEMMA ScopeParameters == ScopeA!Parameters
BY PlanningAssumption DEF ScopeA!Parameters

LEMMA ScopeSharedQueue ==
    /\ \A r : Scope!Analysis!Queue!Add(r) <=> ScopeA!Queue!Add(r)
    /\ \A r, w : Scope!Analysis!Queue!Take(r, w) <=> ScopeA!Queue!Take(r, w)
    /\ \A r, w : Scope!Analysis!Queue!Complete(r, w) <=> ScopeA!Queue!Complete(r, w)
    /\ \A r, w : Scope!Analysis!Queue!Throw(r, w) <=> ScopeA!Queue!Throw(r, w)
    /\ \A r : Scope!Analysis!Queue!Stall(r) <=> ScopeA!Queue!Stall(r)
    /\ Scope!Analysis!Queue!Init <=> ScopeA!Queue!Init
BY DEF Scope!Analysis!Queue!Add, ScopeA!Queue!Add, Scope!Analysis!Queue!Added,
       ScopeA!Queue!Added, Scope!Analysis!Queue!Take, ScopeA!Queue!Take,
       Scope!Analysis!Queue!Taken, ScopeA!Queue!Taken, Scope!Analysis!Queue!Complete,
       ScopeA!Queue!Complete, Scope!Analysis!Queue!Completed, ScopeA!Queue!Completed,
       Scope!Analysis!Queue!Throw, ScopeA!Queue!Throw, Scope!Analysis!Queue!Thrown,
       ScopeA!Queue!Thrown, Scope!Analysis!Queue!Stall, ScopeA!Queue!Stall,
       Scope!Analysis!Queue!Recovered, ScopeA!Queue!Recovered, Scope!Analysis!Queue!Init,
       ScopeA!Queue!Init, Scope!Analysis!Queue!NoJob, ScopeA!Queue!NoJob

LEMMA ScopeSharedSteps ==
    /\ Scope!Analysis!Init <=> ScopeA!Init
    /\ \A q : Scope!Analysis!Done(q) <=> ScopeA!Done(q)
    /\ \A q, x : Scope!Analysis!Create(q, x) <=> ScopeA!Create(q, x)
    /\ \A q : Scope!Analysis!Enqueue(q) <=> ScopeA!Enqueue(q)
    /\ \A w, r : Scope!Analysis!TakeJob(w, r) <=> ScopeA!TakeJob(w, r)
    /\ \A w, pc : Scope!Analysis!Goto(w, pc) <=> ScopeA!Goto(w, pc)
    /\ \A w : Scope!Analysis!EndJob(w) <=> ScopeA!EndJob(w)
    /\ \A w : Scope!Analysis!Crash(w) <=> ScopeA!Crash(w)
    /\ \A r : Scope!Analysis!Stall(r) <=> ScopeA!Stall(r)
BY ScopeSharedQueue DEF Scope!Analysis!Init, ScopeA!Init, Scope!Analysis!Free, ScopeA!Free,
  Scope!Analysis!Idle, ScopeA!Idle, Scope!Analysis!Done, ScopeA!Done, Scope!Analysis!Create,
  ScopeA!Create, Scope!Analysis!IsNext, ScopeA!IsNext, Scope!Analysis!Enqueue, ScopeA!Enqueue,
  Scope!Analysis!TakeJob, ScopeA!TakeJob, Scope!Analysis!Goto, ScopeA!Goto,
  Scope!Analysis!Ended, ScopeA!Ended, Scope!Analysis!EndJob, ScopeA!EndJob,
  Scope!Analysis!Crash, ScopeA!Crash, Scope!Analysis!Stall, ScopeA!Stall

-----------------------------------------------------------------------------
(* The numbers of the validated statements.                                *)

\* ScopeStatement counts as FiniteSets does.
LEMMA SameCardinality == \A S : Scope!Cardinality(S) = Cardinality(S)
BY Zenon DEF Cardinality, Scope!Cardinality

LEMMA ScopeValues ==
    ASSUME ScopeTyped
    PROVE  /\ scState.revision \in Nat /\ scState.declaration \in Declarations
           /\ Len(scVerification) \in Nat /\ Scope!Fingerprint \in Scope!Fingerprints
           /\ Scope!Fingerprint.declaration = scState.declaration
           /\ \A s \in DOMAIN scStatement :
                scStatement[s] \in ScopeStatements /\ scStatement[s].version \in Nat
                /\ scStatement[s].verification \in Nat
<1>1. scState.revision \in Nat /\ scState.declaration \in Declarations
  BY DEF ScopeTyped, ScopeStates
<1>2. \A s \in DOMAIN scStatement : scStatement[s] \in ScopeStatements
  BY DEF ScopeTyped
<1>3. \A s \in DOMAIN scStatement : scStatement[s].version \in Nat
                                    /\ scStatement[s].verification \in Nat
  BY <1>2 DEF ScopeStatements
<1> QED
  BY <1>1, <1>2, <1>3 DEF ScopeTyped, Scope!Fingerprint, Scope!Fingerprints

LEMMA ValidatedFinite ==
    ASSUME ScopeTyped
    PROVE  /\ IsFiniteSet(Scope!Validated) /\ Cardinality(Scope!Validated) \in Nat
           /\ Scope!Validated \subseteq DOMAIN scStatement
<1>1. IsFiniteSet(DOMAIN scStatement)
  <2>1. DOMAIN scStatement = 1..Len(scStatement) /\ Len(scStatement) \in Nat
    BY DEF ScopeTyped
  <2> QED
    BY <2>1, FS_Interval
<1>2. Scope!Validated \subseteq DOMAIN scStatement
  BY DEF Scope!Validated
<1> QED
  BY <1>1, <1>2, FS_Subset, FS_CardinalityType

\* The number of a new version is one more than there are versions.
LEMMA NextVersion ==
    ASSUME ScopeTyped, StatementsRest, Scope!VersionsFollowVerifications,
           NEW s \in DOMAIN scStatement, scStatement[s].status = "DRAFT"
    PROVE  Scope!LastVersion = Cardinality(Scope!Validated)
<1> DEFINE n == Cardinality(Scope!Validated)
           versions == {scStatement[t].version : t \in DOMAIN scStatement}
<1>1. n \in Nat /\ {scStatement[t].version : t \in Scope!Validated} = 1..n
  <2>1. n \in Nat
    BY ValidatedFinite
  <2>2. {scStatement[t].version : t \in Scope!Validated} = 1..n
    BY SameCardinality, Zenon DEF Scope!VersionsFollowVerifications
  <2> QED
    BY <2>1, <2>2
<1>2. \A t \in DOMAIN scStatement : t \notin Scope!Validated => scStatement[t].version = 0
  <2> SUFFICES ASSUME NEW t \in DOMAIN scStatement, t \notin Scope!Validated
               PROVE  scStatement[t].version = 0
    OBVIOUS
  <2>1. scStatement[t].status \in {"DRAFT", "VALIDATED"}
    BY ScopeValues DEF ScopeStatements
  <2> QED
    BY <2>1 DEF StatementsRest, Scope!Validated
<1>3. versions = 0..n
  <2>1. scStatement[s].version = 0
    BY DEF StatementsRest
  <2>2. \A v \in versions : v = 0 \/ v \in 1..n
    BY <1>1, <1>2
  <2>3. \A v \in 1..n : v \in versions
    BY <1>1 DEF Scope!Validated
  <2>4. 0..n = {0} \cup 1..n
    BY <1>1
  <2> HIDE DEF n
  <2> QED
    BY <2>1, <2>2, <2>3, <2>4
<1>4. Scope!LastVersion = CHOOSE v \in versions : \A x \in versions : x <= v
  BY DEF Scope!LastVersion
<1> HIDE DEF n, versions
<1>5. n \in 0..n /\ \A v \in 0..n : (\A x \in 0..n : x <= v) => v = n
  BY <1>1
<1> QED
  BY <1>1, <1>3, <1>4, <1>5 DEF n

\* Statements that are the same but for who wrote them keep their numbers, and so do
\* they when a draft is added.
LEMMA SameNumbers ==
    ASSUME Scope!VersionsFollowVerifications,
           Scope!Validated' = Scope!Validated,
           \A s \in Scope!Validated : /\ scStatement'[s].version = scStatement[s].version
                                      /\ scStatement'[s].verification = scStatement[s].verification
    PROVE  Scope!VersionsFollowVerifications'
BY DEF Scope!VersionsFollowVerifications

LEMMA SequenceReplaced ==
    ASSUME NEW S, NEW seq \in Seq(S), NEW i \in DOMAIN seq, NEW e \in S,
           NEW t, t = [seq EXCEPT ![i] = e]
    PROVE  /\ t \in Seq(S) /\ DOMAIN t = DOMAIN seq
           /\ \A j \in DOMAIN seq : t[j] = IF j = i THEN e ELSE seq[j]
<1>1. DOMAIN seq = 1..Len(seq)
  OBVIOUS
<1>2. t \in Seq(S)
  BY <1>1, ExceptSeq
<1> QED
  BY <1>2

\* A draft of the newest verification becomes the next version.
LEMMA NewNumber ==
    ASSUME ScopeTyped, StatementsRest, Scope!VersionsFollowVerifications,
           NEW s \in DOMAIN scStatement, scStatement[s].status = "DRAFT",
           scStatement[s].verification = Len(scVerification),
           scStatement' = [scStatement EXCEPT ![s].status = "VALIDATED",
                                              ![s].version = Scope!LastVersion + 1],
           UNCHANGED scVerification
    PROVE  /\ scStatement' \in Seq(ScopeStatements) /\ StatementsRest'
           /\ Scope!VersionsFollowVerifications'
<1> DEFINE n == Cardinality(Scope!Validated)
           new == [scStatement[s] EXCEPT !.status = "VALIDATED", !.version = n + 1]
<1>1. n \in Nat /\ IsFiniteSet(Scope!Validated) /\ Scope!Validated \subseteq DOMAIN scStatement
      /\ {scStatement[t].version : t \in Scope!Validated} = 1..n
  <2>1. {scStatement[t].version : t \in Scope!Validated} = 1..n
    BY SameCardinality, Zenon DEF Scope!VersionsFollowVerifications
  <2> QED
    BY <2>1, ValidatedFinite
<1>2. scStatement' = [scStatement EXCEPT ![s] = new] /\ scStatement[s] \in ScopeStatements
  BY NextVersion, ScopeValues
<1>3. /\ new \in ScopeStatements /\ new.status = "VALIDATED" /\ new.version = n + 1
      /\ new.verification = Len(scVerification)
  BY <1>1, <1>2 DEF ScopeStatements
<1> HIDE DEF new
<1>4. /\ scStatement' \in Seq(ScopeStatements) /\ DOMAIN scStatement' = DOMAIN scStatement
      /\ \A t \in DOMAIN scStatement : scStatement'[t] = IF t = s THEN new ELSE scStatement[t]
  <2>1. scStatement \in Seq(ScopeStatements)
    BY DEF ScopeTyped
  <2>2. new \in ScopeStatements
    BY <1>3
  <2>3. scStatement' = [scStatement EXCEPT ![s] = new]
    BY <1>2
  <2> QED
    BY <2>1, <2>2, <2>3, SequenceReplaced
<1>5. StatementsRest'
  <2> SUFFICES ASSUME NEW t \in DOMAIN scStatement
               PROVE  /\ scStatement'[t].verification <= Len(scVerification)
                      /\ scStatement'[t].status = "DRAFT" => scStatement'[t].version = 0
    BY <1>4 DEF StatementsRest
  <2>1. CASE t = s
    <3>1. Len(scVerification) <= Len(scVerification)
      BY ScopeValues
    <3> QED
      BY <1>3, <1>4, <2>1, <3>1
  <2>2. CASE t # s
    BY <1>4, <2>2 DEF StatementsRest
  <2> QED
    BY <2>1, <2>2
<1>6. s \notin Scope!Validated /\ Scope!Validated' = Scope!Validated \cup {s}
  BY <1>3, <1>4 DEF Scope!Validated
<1>7. Cardinality(Scope!Validated') = n + 1
  BY <1>1, <1>6, FS_AddElement
<1>8. {scStatement'[t].version : t \in Scope!Validated'} = 1..(n + 1)
  <2>1. \A t \in Scope!Validated : scStatement'[t].version = scStatement[t].version
    BY <1>1, <1>4, <1>6
  <2>2. scStatement'[s].version = n + 1
    BY <1>3, <1>4
  <2>3. {scStatement'[t].version : t \in Scope!Validated'} = 1..n \cup {n + 1}
    BY <1>1, <1>6, <2>1, <2>2
  <2>4. 1..n \cup {n + 1} = 1..(n + 1)
    <3> HIDE DEF n
    <3> QED
      BY <1>1
  <2> QED
    BY <2>3, <2>4
<1>9. ASSUME NEW t \in Scope!Validated', NEW u \in Scope!Validated',
             scStatement'[t].version < scStatement'[u].version
      PROVE  scStatement'[t].verification <= scStatement'[u].verification
  <2>1. t \in DOMAIN scStatement /\ u \in DOMAIN scStatement
    BY <1>1, <1>6
  <2>2. CASE u = s
    BY <1>3, <1>4, <1>5, <2>1, <2>2 DEF StatementsRest
  <2>3. CASE u # s /\ t = s
    <3>1. scStatement[u].version \in 1..n /\ scStatement'[u] = scStatement[u]
      BY <1>1, <1>4, <1>6, <2>1, <2>3
    <3>2. scStatement'[t].version = n + 1
      BY <1>3, <1>4, <2>3
    <3>3. n + 1 < scStatement[u].version /\ n \in Nat
      BY <1>1, <1>9, <3>1, <3>2
    <3> HIDE DEF n
    <3> QED
      BY <3>1, <3>3
  <2>4. CASE u # s /\ t # s
    BY <1>4, <1>6, <1>9, <2>1, <2>4 DEF Scope!VersionsFollowVerifications
  <2> QED
    BY <2>2, <2>3, <2>4
<1> QED
  <2>1. {scStatement'[t].version : t \in Scope!Validated'} = 1..Cardinality(Scope!Validated')
    BY <1>7, <1>8
  <2> QED
    BY <1>4, <1>5, <1>9, <2>1, SameCardinality, Zenon
    DEF Scope!VersionsFollowVerifications

-----------------------------------------------------------------------------
(* The writes of the scope.                                                *)

\* Runs may end or start to run; what they were launched with stays.
ScopeRunsStay ==
    /\ scRun' \in [Scope!Runs -> ScopeRuns]
    /\ \A r \in Scope!Runs :
         /\ (scRun'[r].status = "none") <=> (scRun[r].status = "none")
         /\ scRun'[r].revision = scRun[r].revision
         /\ scRun'[r].fingerprint = scRun[r].fingerprint
         /\ scRun'[r].verification = scRun[r].verification

LEMMA ScopeRunsUnchanged ==
    ASSUME ScopeInv, UNCHANGED scRun
    PROVE  ScopeRunsStay
BY DEF ScopeInv, ScopeTyped, ScopeRunsStay

LEMMA ScopeRunsMove ==
    ASSUME ScopeInv, ScopeRunsStay, UNCHANGED <<scJob, scRequest, scSlot>>
    PROVE  ScopeA!Wired({}, {})'
BY ScopeA!RunsMoveWired DEF ScopeInv, ScopeRunsStay, ScopeA!RunsKept

\* A write moves the revision and leaves no run with a current input.
LEMMA ScopeWritten ==
    ASSUME ScopeInv, ScopeRunsStay, scState' \in ScopeStates,
           scState'.revision = scState.revision + 1,
           Len(scVerification') \in Nat, Len(scVerification) <= Len(scVerification')
    PROVE  ScopeInputs'
<1> SUFFICES ASSUME NEW r \in Scope!Runs, scRun'[r].status # "none"
             PROVE  /\ scRun'[r].fingerprint \in Scope!Fingerprints
                    /\ scRun'[r].verification <= Len(scVerification')
                    /\ scRun'[r].revision <= scState'.revision
                    /\ scRun'[r].revision # scState'.revision
  BY DEF ScopeInputs, ScopeRunInput
<1>1. /\ scRun[r].status # "none" /\ scRun'[r].revision = scRun[r].revision
      /\ scRun'[r].fingerprint = scRun[r].fingerprint
      /\ scRun'[r].verification = scRun[r].verification
  BY DEF ScopeRunsStay
<1>2. /\ scRun[r].fingerprint \in Scope!Fingerprints
      /\ scRun[r].verification <= Len(scVerification) /\ scRun[r].revision <= scState.revision
  BY <1>1 DEF ScopeInv, ScopeInputs, ScopeRunInput
<1>3. scRun[r].revision \in Nat /\ scRun[r].verification \in Nat
  BY DEF ScopeInv, ScopeTyped, ScopeRuns
<1>4. scState.revision \in Nat /\ Len(scVerification) \in Nat
  BY ScopeValues DEF ScopeInv
<1> QED
  BY <1>1, <1>2, <1>3, <1>4

\* What a write has to show of the statements and the verifications.
LEMMA ScopeWriteKeeps ==
    ASSUME ScopeInv, NEW d \in Declarations, Scope!Write(d),
           scStatement' \in Seq(ScopeStatements), StatementsRest',
           Scope!VersionsFollowVerifications',
           scVerification' \in Seq(Scope!Fingerprints),
           Len(scVerification) <= Len(scVerification')
    PROVE  ScopeInv'
<1>1. /\ scState' = [scState EXCEPT !.revision = @ + 1, !.declaration = d]
      /\ UNCHANGED <<scFacts, scRun, scJob, scRequest, scSlot>>
  BY DEF Scope!Write
<1>2. scState \in ScopeStates /\ scState.revision + 1 \in Nat
  BY ScopeValues DEF ScopeInv, ScopeTyped
<1>3. scState' \in ScopeStates /\ scState'.revision = scState.revision + 1
  BY <1>1, <1>2 DEF ScopeStates
<1>4. ScopeTyped'
  BY <1>1, <1>3 DEF ScopeInv, ScopeTyped
<1>5. ScopeInputs'
  BY <1>1, <1>3, ScopeRunsUnchanged, ScopeWritten
<1>6. ScopeA!Wired({}, {})'
  BY <1>1, ScopeRunsUnchanged, ScopeRunsMove
<1> QED
  BY <1>4, <1>5, <1>6 DEF ScopeInv

LEMMA SameStatements ==
    ASSUME ScopeInv, UNCHANGED scStatement,
           scVerification' \in Seq(Scope!Fingerprints), Len(scVerification) <= Len(scVerification')
    PROVE  /\ scStatement' \in Seq(ScopeStatements) /\ StatementsRest'
           /\ Scope!VersionsFollowVerifications'
<1>1. Scope!Validated' = Scope!Validated
  BY DEF Scope!Validated
<1>2. Scope!VersionsFollowVerifications'
  BY <1>1, SameNumbers DEF ScopeInv
<1>3. StatementsRest'
  <2> SUFFICES ASSUME NEW s \in DOMAIN scStatement
               PROVE  /\ scStatement[s].verification <= Len(scVerification')
                      /\ scStatement[s].status = "DRAFT" => scStatement[s].version = 0
    BY DEF StatementsRest
  <2>1. scStatement[s].verification \in Nat /\ Len(scVerification) \in Nat
    BY ScopeValues DEF ScopeInv
  <2>2. scStatement[s].verification <= Len(scVerification)
        /\ (scStatement[s].status = "DRAFT" => scStatement[s].version = 0)
    BY DEF ScopeInv, StatementsRest
  <2>3. Len(scVerification') \in Nat
    OBVIOUS
  <2> QED
    BY <2>1, <2>2, <2>3
<1> QED
  BY <1>2, <1>3 DEF ScopeInv, ScopeTyped

LEMMA SameVerifications ==
    ASSUME ScopeInv, UNCHANGED scVerification
    PROVE  scVerification' \in Seq(Scope!Fingerprints) /\ Len(scVerification) <= Len(scVerification')
<1>1. Len(scVerification) \in Nat
  BY ScopeValues DEF ScopeInv
<1> QED
  BY <1>1 DEF ScopeInv, ScopeTyped

\* Statements that are edited keep their status, number and verification.
LEMMA StatementEdited ==
    ASSUME ScopeInv, NEW s \in DOMAIN scStatement, UNCHANGED scVerification,
           scStatement' = [scStatement EXCEPT ![s].by = "user"]
    PROVE  /\ scStatement' \in Seq(ScopeStatements) /\ StatementsRest'
           /\ Scope!VersionsFollowVerifications'
<1> DEFINE new == [scStatement[s] EXCEPT !.by = "user"]
<1>1. scStatement[s] \in ScopeStatements /\ scStatement \in Seq(ScopeStatements)
  BY ScopeValues DEF ScopeInv, ScopeTyped
<1>2. /\ new \in ScopeStatements /\ new.status = scStatement[s].status
      /\ new.version = scStatement[s].version
      /\ new.verification = scStatement[s].verification
  BY <1>1 DEF ScopeStatements
<1>3. scStatement' = [scStatement EXCEPT ![s] = new]
  OBVIOUS
<1> HIDE DEF new
<1>4. /\ scStatement' \in Seq(ScopeStatements) /\ DOMAIN scStatement' = DOMAIN scStatement
      /\ \A t \in DOMAIN scStatement : scStatement'[t] = IF t = s THEN new ELSE scStatement[t]
  <2>1. new \in ScopeStatements
    BY <1>2
  <2> QED
    BY <1>1, <1>3, <2>1, SequenceReplaced
<1>5. \A t \in DOMAIN scStatement :
        /\ scStatement'[t].status = scStatement[t].status
        /\ scStatement'[t].version = scStatement[t].version
        /\ scStatement'[t].verification = scStatement[t].verification
  BY <1>2, <1>4
<1>6. StatementsRest'
  BY <1>4, <1>5 DEF ScopeInv, StatementsRest
<1>7. Scope!Validated' = Scope!Validated
  BY <1>4, <1>5 DEF Scope!Validated
<1>8. Scope!VersionsFollowVerifications'
  BY <1>5, <1>7, SameNumbers DEF ScopeInv, Scope!Validated
<1> QED
  BY <1>4, <1>6, <1>8

\* A draft is added.
LEMMA StatementDrafted ==
    ASSUME ScopeInv, NEW row \in ScopeStatements, row.status = "DRAFT", row.version = 0,
           row.verification <= Len(scVerification), UNCHANGED scVerification,
           scStatement' = Append(scStatement, row)
    PROVE  /\ scStatement' \in Seq(ScopeStatements) /\ StatementsRest'
           /\ Scope!VersionsFollowVerifications'
<1>1. scStatement \in Seq(ScopeStatements)
  BY DEF ScopeInv, ScopeTyped
<1>2. /\ scStatement' \in Seq(ScopeStatements)
      /\ DOMAIN scStatement' = DOMAIN scStatement \cup {Len(scStatement) + 1}
      /\ Len(scStatement) + 1 \notin DOMAIN scStatement
      /\ scStatement'[Len(scStatement) + 1] = row
      /\ \A t \in DOMAIN scStatement : scStatement'[t] = scStatement[t]
  BY <1>1
<1>3. StatementsRest'
  BY <1>2 DEF ScopeInv, StatementsRest
<1>4. Scope!Validated' = Scope!Validated
  BY <1>2 DEF Scope!Validated
<1>5. Scope!VersionsFollowVerifications'
  BY <1>2, <1>4, SameNumbers DEF ScopeInv, Scope!Validated
<1> QED
  BY <1>2, <1>3, <1>5

LEMMA ScopeWriteStepKeeps ==
    ASSUME ScopeInv, Scope!WriteStep
    PROVE  ScopeInv' /\ UNCHANGED scRun
<1>1. CASE Scope!ChangeFacts
  <2>1. scFacts' \in Facts
        /\ UNCHANGED <<scState, scVerification, scStatement, scRun, scJob, scRequest, scSlot>>
    BY <1>1 DEF Scope!ChangeFacts, Scope!tables
  <2>2. ScopeTyped' /\ ScopeInputs'
    BY <2>1 DEF ScopeInv, ScopeTyped, ScopeInputs, ScopeRunInput
  <2>3. StatementsRest' /\ Scope!VersionsFollowVerifications'
    BY <2>1, SameVerifications, SameStatements
  <2>4. ScopeA!Wired({}, {})'
    BY <2>1, ScopeRunsUnchanged, ScopeRunsMove
  <2> QED
    BY <2>1, <2>2, <2>3, <2>4 DEF ScopeInv
<1>2. CASE Scope!Declare
  BY <1>2, SameVerifications, SameStatements, ScopeWriteKeeps DEF Scope!Declare, Scope!Write
<1>3. CASE Scope!Verify
  <2>1. /\ Scope!Write(scState.declaration) /\ UNCHANGED scStatement
        /\ scVerification' = Append(scVerification, Scope!Fingerprint)
    BY <1>3 DEF Scope!Verify
  <2>2. /\ scState.declaration \in Declarations /\ Scope!Fingerprint \in Scope!Fingerprints
        /\ scVerification \in Seq(Scope!Fingerprints)
    BY ScopeValues DEF ScopeInv, ScopeTyped
  <2>3. scVerification' \in Seq(Scope!Fingerprints)
        /\ Len(scVerification) <= Len(scVerification')
    BY <2>1, <2>2
  <2> QED
    BY <2>1, <2>2, <2>3, SameStatements, ScopeWriteKeeps DEF Scope!Write
<1>4. CASE Scope!EditStatement
  <2>1. PICK s \in DOMAIN scStatement : scStatement' = [scStatement EXCEPT ![s].by = "user"]
    BY <1>4 DEF Scope!EditStatement
  <2>2. Scope!Write(scState.declaration) /\ UNCHANGED scVerification
        /\ scState.declaration \in Declarations
    BY <1>4, ScopeValues DEF Scope!EditStatement, ScopeInv
  <2> QED
    BY <2>1, <2>2, StatementEdited, SameVerifications, ScopeWriteKeeps DEF Scope!Write
<1>5. CASE Scope!ValidateStatement
  <2>1. PICK s \in DOMAIN scStatement :
          /\ Scope!CurrentDraft(s)
          /\ scStatement' = [scStatement EXCEPT ![s].status = "VALIDATED",
                                                ![s].version = Scope!LastVersion + 1]
    BY <1>5 DEF Scope!ValidateStatement
  <2>2. Scope!Write(scState.declaration) /\ UNCHANGED scVerification
        /\ scState.declaration \in Declarations
    BY <1>5, ScopeValues DEF Scope!ValidateStatement, ScopeInv
  <2>3. scStatement[s].status = "DRAFT" /\ scStatement[s].verification = Len(scVerification)
    BY <2>1 DEF Scope!CurrentDraft, Scope!Newest
  <2>4. /\ scStatement' \in Seq(ScopeStatements) /\ StatementsRest'
        /\ Scope!VersionsFollowVerifications'
    BY <2>1, <2>2, <2>3, NewNumber DEF ScopeInv
  <2> QED
    BY <2>2, <2>4, SameVerifications, ScopeWriteKeeps DEF Scope!Write
<1> QED
  BY <1>1, <1>2, <1>3, <1>4, <1>5 DEF Scope!WriteStep

-----------------------------------------------------------------------------
(* The launch, the queue and the slots of the scope.                       *)

\* What AppliedToItsDeclaration says of a step.
DraftRight ==
    \A r \in Scope!Runs :
      scRun[r].status # "COMPLETED" /\ scRun'[r].status = "COMPLETED" =>
        scRun[r].fingerprint.declaration = scState.declaration
        /\ scRun[r].verification = Len(scVerification)

LEMMA ScopeRunAtWork ==
    ASSUME ScopeInv
    PROVE  /\ \A q \in Requests : scRequest[q].pc = "enqueue" =>
                scRequest[q].run \in Scope!Runs /\ scRun[scRequest[q].run].status # "none"
           /\ \A w \in Slots : scSlot[w].pc # "idle" =>
                scSlot[w].run \in Scope!Runs /\ scRun[scSlot[w].run].status # "none"
BY DEF ScopeInv, ScopeA!Wired, ScopeA!RequestsWired, ScopeA!SlotsWired, ScopeA!JobsHaveRuns

LEMMA ScopeLaunchKeeps ==
    ASSUME ScopeInv, NEW q \in Requests, Scope!Launch(q)
    PROVE  ScopeInv' /\ DraftRight
<1> DEFINE new == [status |-> "DRAFT", revision |-> scState.revision,
                   fingerprint |-> Scope!Fingerprint, verification |-> Scope!Newest]
<1>1. /\ ScopeA!Create(q, new)
      /\ UNCHANGED <<scFacts, scState, scVerification, scStatement, scJob, scSlot>>
  BY ScopeSharedSteps DEF Scope!Launch, Scope!tables
<1>2. /\ scState.revision \in Nat /\ Len(scVerification) \in Nat
      /\ Scope!Fingerprint \in Scope!Fingerprints
      /\ Scope!Fingerprint.declaration = scState.declaration
  BY ScopeValues DEF ScopeInv
<1>3. /\ new \in ScopeRuns /\ new.status = "DRAFT" /\ new.revision = scState.revision
      /\ new.fingerprint = Scope!Fingerprint /\ new.verification = Len(scVerification)
  BY <1>2 DEF ScopeRuns, Scope!Newest
<1> HIDE DEF new
<1>4. PICK r \in Scope!Runs : scRun' = [scRun EXCEPT ![r] = new]
  BY <1>1 DEF ScopeA!Create
<1>5. scRun' \in [Scope!Runs -> ScopeRuns] /\ scRun'[r] = new
      /\ \A t \in Scope!Runs \ {r} : scRun'[t] = scRun[t]
  BY <1>3, <1>4 DEF ScopeInv, ScopeTyped
<1>6. ScopeTyped'
  BY <1>1, <1>5 DEF ScopeInv, ScopeTyped
<1>7. StatementsRest' /\ Scope!VersionsFollowVerifications'
  BY <1>1, SameVerifications, SameStatements
<1>8. ScopeInputs'
  <2>1. ASSUME NEW t \in Scope!Runs PROVE ScopeRunInput(t)'
    <3>1. CASE t = r
      BY <1>1, <1>2, <1>3, <1>5, <3>1 DEF ScopeRunInput
    <3>2. CASE t # r
      BY <1>1, <1>5, <3>2 DEF ScopeRunInput, ScopeInv, ScopeInputs
    <3> QED
      BY <3>1, <3>2
  <2> QED
    BY <2>1 DEF ScopeInputs
<1>9. ScopeA!Wired({}, {})'
  BY <1>1, <1>3, ScopeA!CreateWired DEF ScopeInv, ScopeTyped
<1>10. DraftRight
  BY <1>3, <1>5 DEF DraftRight
<1> QED
  BY <1>6, <1>7, <1>8, <1>9, <1>10 DEF ScopeInv

\* A run has another status, and is not completed by it.
ScopeStatusSet(r) ==
    \E status \in {"RUNNING", "FAILED"} : scRun' = [scRun EXCEPT ![r].status = status]

LEMMA ScopeStatusKeeps ==
    ASSUME ScopeInv,
           \/ UNCHANGED scRun
           \/ \E r \in Scope!Runs : scRun[r].status # "none" /\ ScopeStatusSet(r)
    PROVE  ScopeRunsStay /\ DraftRight /\ ScopeA!RunsKept
<1>1. CASE UNCHANGED scRun
  BY <1>1, ScopeRunsUnchanged DEF DraftRight, ScopeA!RunsKept
<1>2. ASSUME NEW r \in Scope!Runs, scRun[r].status # "none", ScopeStatusSet(r)
      PROVE  ScopeRunsStay /\ DraftRight /\ ScopeA!RunsKept
  <2>1. PICK status \in {"RUNNING", "FAILED"} : scRun' = [scRun EXCEPT ![r].status = status]
    BY <1>2 DEF ScopeStatusSet
  <2> DEFINE new == [scRun[r] EXCEPT !.status = status]
  <2>2. scRun' = [scRun EXCEPT ![r] = new] /\ scRun[r] \in ScopeRuns
    BY <2>1 DEF ScopeInv, ScopeTyped
  <2>3. /\ new \in ScopeRuns /\ new.status = status /\ new.revision = scRun[r].revision
        /\ new.fingerprint = scRun[r].fingerprint /\ new.verification = scRun[r].verification
    BY <2>2 DEF ScopeRuns
  <2> HIDE DEF new
  <2>4. scRun' \in [Scope!Runs -> ScopeRuns] /\ scRun'[r] = new
        /\ \A t \in Scope!Runs \ {r} : scRun'[t] = scRun[t]
    BY <2>2, <2>3 DEF ScopeInv, ScopeTyped
  <2> QED
    BY <1>2, <2>3, <2>4 DEF ScopeRunsStay, DraftRight, ScopeA!RunsKept
<1> QED
  BY <1>1, <1>2

LEMMA ScopeTablesKept ==
    ASSUME ScopeInv, UNCHANGED <<scFacts, Scope!tables>>, ScopeA!Wired({}, {})',
           \/ UNCHANGED scRun
           \/ \E r \in Scope!Runs : scRun[r].status # "none" /\ ScopeStatusSet(r)
    PROVE  ScopeInv' /\ DraftRight
<1>1. UNCHANGED <<scFacts, scState, scVerification, scStatement>>
  BY DEF Scope!tables
<1>2. ScopeRunsStay /\ DraftRight
  BY ScopeStatusKeeps
<1>3. ScopeTyped'
  BY <1>1, <1>2 DEF ScopeInv, ScopeTyped, ScopeRunsStay
<1>4. ScopeInputs'
  BY <1>1, <1>2 DEF ScopeInv, ScopeInputs, ScopeRunInput, ScopeRunsStay
<1>5. StatementsRest' /\ Scope!VersionsFollowVerifications'
  BY <1>1, SameVerifications, SameStatements
<1> QED
  BY <1>2, <1>3, <1>4, <1>5 DEF ScopeInv

LEMMA ScopeQuietRequest ==
    ASSUME ScopeInv, NEW q \in Requests,
           Scope!Enqueue(q) \/ Scope!EnqueueFails(q) \/ Scope!RequestEnds(q)
    PROVE  ScopeInv' /\ DraftRight
<1>1. CASE Scope!Enqueue(q)
  <2>1. ScopeA!Enqueue(q) /\ UNCHANGED scRun
    BY <1>1, ScopeSharedSteps DEF Scope!Enqueue, Scope!Analysis!Enqueue
  <2>2. ScopeA!Wired({}, {})'
    BY <2>1, ScopeStatusKeeps, ScopeParameters, ScopeA!EnqueueWired DEF ScopeInv
  <2> QED
    BY <1>1, <2>1, <2>2, ScopeTablesKept DEF Scope!Enqueue
<1>2. CASE Scope!EnqueueFails(q)
  <2>1. ScopeA!Done(q) /\ UNCHANGED <<scJob, scSlot>> /\ scRequest[q].pc = "enqueue"
        /\ scRun' = [scRun EXCEPT ![scRequest[q].run].status = "FAILED"]
    BY <1>2, ScopeSharedSteps DEF Scope!EnqueueFails, Scope!Analysis!EnqueueFails
  <2>2. /\ scRequest[q].run \in Scope!Runs /\ scRun[scRequest[q].run].status # "none"
        /\ ScopeStatusSet(scRequest[q].run)
    BY <2>1, ScopeRunAtWork DEF ScopeStatusSet
  <2>3. ScopeA!Wired({}, {})'
    BY <2>1, <2>2, ScopeStatusKeeps, ScopeA!RequestEndsWired DEF ScopeInv
  <2> QED
    BY <1>2, <2>2, <2>3, ScopeTablesKept DEF Scope!EnqueueFails
<1>3. CASE Scope!RequestEnds(q)
  <2>1. ScopeA!Done(q) /\ UNCHANGED <<scRun, scJob, scSlot>>
    BY <1>3, ScopeSharedSteps DEF Scope!RequestEnds, Scope!Analysis!RequestEnds
  <2>2. ScopeA!Wired({}, {})'
    BY <2>1, ScopeStatusKeeps, ScopeA!RequestEndsWired DEF ScopeInv
  <2> QED
    BY <1>3, <2>1, <2>2, ScopeTablesKept DEF Scope!RequestEnds
<1> QED
  BY <1>1, <1>2, <1>3

LEMMA ScopeSlotGoesOn ==
    ASSUME ScopeInv, NEW w \in Slots, scSlot[w].pc # "idle",
           NEW pc \in {"generate", "persist", "fail", "throw", "end"},
           Scope!Analysis!Goto(w, pc),
           UNCHANGED <<scFacts, Scope!tables, scJob, scRequest>>,
           UNCHANGED scRun \/ ScopeStatusSet(scSlot[w].run)
    PROVE  ScopeInv' /\ DraftRight
<1>1. scSlot[w].run \in Scope!Runs /\ scRun[scSlot[w].run].status # "none"
  BY ScopeRunAtWork
<1>2. ScopeA!SlotMoves
  BY ScopeSharedSteps DEF ScopeA!SlotMoves
<1>3. ScopeA!Wired({}, {})'
  BY <1>1, <1>2, ScopeStatusKeeps, ScopeA!SlotMovesWired DEF ScopeInv
<1> QED
  BY <1>1, <1>3, ScopeTablesKept

LEMMA ScopePersistKeeps ==
    ASSUME ScopeInv, NEW w \in Slots, Scope!Persist(w)
    PROVE  ScopeInv' /\ DraftRight
<1> DEFINE r == scSlot[w].run
           new == [scRun[r] EXCEPT !.status = "COMPLETED"]
           row == [status |-> "DRAFT", by |-> "ai", fingerprint |-> scRun[r].fingerprint,
                   verification |-> scRun[r].verification, version |-> 0]
<1>1. /\ scSlot[w].pc = "persist" /\ scState.revision = scRun[r].revision
      /\ scStatement' = Append(scStatement, row)
      /\ scState' = [scState EXCEPT !.revision = @ + 1]
      /\ scRun' = [scRun EXCEPT ![r].status = "COMPLETED"]
      /\ Scope!Analysis!Goto(w, "end")
      /\ UNCHANGED <<scFacts, scVerification, scJob, scRequest>>
  BY DEF Scope!Persist, Scope!InputUnchanged
<1>2. r \in Scope!Runs /\ scRun[r].status # "none" /\ scRun[r] \in ScopeRuns
  BY <1>1, ScopeRunAtWork DEF ScopeInv, ScopeTyped
<1>3. /\ scRun[r].fingerprint \in Scope!Fingerprints
      /\ scRun[r].fingerprint.declaration = scState.declaration
      /\ scRun[r].verification = Len(scVerification)
      /\ scRun[r].verification <= Len(scVerification)
  BY <1>1, <1>2 DEF ScopeInv, ScopeInputs, ScopeRunInput
<1>4. /\ new \in ScopeRuns /\ new.status = "COMPLETED" /\ new.revision = scRun[r].revision
      /\ new.fingerprint = scRun[r].fingerprint /\ new.verification = scRun[r].verification
      /\ scRun' = [scRun EXCEPT ![r] = new]
  BY <1>1, <1>2 DEF ScopeRuns
<1>5. /\ row \in ScopeStatements /\ row.status = "DRAFT" /\ row.version = 0
      /\ row.verification = scRun[r].verification
  BY <1>2, <1>3 DEF ScopeRuns, ScopeStatements
<1> HIDE DEF new, row
<1>6. scRun' \in [Scope!Runs -> ScopeRuns] /\ scRun'[r] = new
      /\ \A t \in Scope!Runs \ {r} : scRun'[t] = scRun[t]
  BY <1>2, <1>4 DEF ScopeInv, ScopeTyped
<1>7. ScopeRunsStay /\ ScopeA!RunsKept
  BY <1>2, <1>4, <1>6 DEF ScopeRunsStay, ScopeA!RunsKept
<1>8. DraftRight
  BY <1>3, <1>6 DEF DraftRight
<1>9. /\ scStatement' \in Seq(ScopeStatements) /\ StatementsRest'
      /\ Scope!VersionsFollowVerifications'
  BY <1>1, <1>3, <1>5, StatementDrafted
<1>10. scState' \in ScopeStates /\ scState'.revision = scState.revision + 1
  <2>1. scState \in ScopeStates /\ scState.revision + 1 \in Nat
    BY ScopeValues DEF ScopeInv, ScopeTyped
  <2> QED
    BY <1>1, <2>1 DEF ScopeStates
<1>11. ScopeTyped'
  BY <1>1, <1>6, <1>9, <1>10 DEF ScopeInv, ScopeTyped
<1>12. ScopeInputs'
  <2>1. Len(scVerification') \in Nat /\ Len(scVerification) <= Len(scVerification')
    BY <1>1, ScopeValues DEF ScopeInv
  <2> QED
    BY <1>7, <1>10, <2>1, ScopeWritten
<1>13. ScopeA!Wired({}, {})'
  <2>1. ScopeA!SlotMoves
    BY <1>1, ScopeSharedSteps DEF ScopeA!SlotMoves
  <2> QED
    BY <1>7, <2>1, ScopeA!SlotMovesWired DEF ScopeInv
<1> QED
  BY <1>8, <1>9, <1>11, <1>12, <1>13 DEF ScopeInv

LEMMA ScopeSlotStep ==
    ASSUME ScopeInv, NEW w \in Slots,
           \/ Scope!MarkRunning(w) \/ Scope!Generate(w) \/ Scope!PersistDone(w)
           \/ Scope!PersistFails(w) \/ Scope!FailRun(w)
    PROVE  ScopeInv' /\ DraftRight
<1>1. CASE Scope!MarkRunning(w)
  BY <1>1, ScopeSlotGoesOn DEF Scope!MarkRunning, Scope!Analysis!MarkRunning, ScopeStatusSet
<1>2. CASE Scope!Generate(w)
  BY <1>2, ScopeSlotGoesOn DEF Scope!Generate
<1>3. CASE Scope!PersistDone(w)
  BY <1>3, ScopeSlotGoesOn DEF Scope!PersistDone, Scope!Analysis!AlreadyPersisted
<1>4. CASE Scope!PersistFails(w)
  BY <1>4, ScopeSlotGoesOn DEF Scope!PersistFails, Scope!Analysis!PersistFails
<1>5. CASE Scope!FailRun(w)
  BY <1>5, ScopeSlotGoesOn DEF Scope!FailRun, Scope!Analysis!FailRun, ScopeStatusSet
<1> QED
  BY <1>1, <1>2, <1>3, <1>4, <1>5

LEMMA ScopeJobStep ==
    ASSUME ScopeInv,
           \/ \E r \in Scope!Runs : Scope!Stall(r)
           \/ \E w \in Slots : \/ \E r \in Scope!Runs : Scope!TakeJob(w, r)
                               \/ Scope!EndJob(w) \/ Scope!Crash(w)
    PROVE  ScopeInv' /\ DraftRight
<1>1. UNCHANGED <<scFacts, Scope!tables, scRun>>
  BY DEF Scope!TakeJob, Scope!EndJob, Scope!Crash, Scope!Stall, Scope!Analysis!TakeJob,
     Scope!Analysis!EndJob, Scope!Analysis!Crash, Scope!Analysis!Stall
<1>2. \/ \E r \in Scope!Runs : ScopeA!Stall(r)
      \/ \E w \in Slots : \/ \E r \in Scope!Runs : ScopeA!TakeJob(w, r)
                          \/ ScopeA!EndJob(w) \/ ScopeA!Crash(w)
  BY ScopeSharedSteps DEF Scope!TakeJob, Scope!EndJob, Scope!Crash, Scope!Stall
<1>3. ScopeA!Wired({}, {})'
  BY <1>1, <1>2, ScopeStatusKeeps, ScopeParameters, ScopeA!TakeJobWired, ScopeA!EndJobWired,
     ScopeA!CrashWired, ScopeA!StallWired DEF ScopeInv
<1> QED
  BY <1>1, <1>3, ScopeTablesKept

-----------------------------------------------------------------------------
(* The steps of the scope together.                                        *)

LEMMA ScopeStart ==
    ASSUME Scope!Init
    PROVE  ScopeInv
<1>1. scFacts \in Facts /\ scRun = [r \in Scope!Runs |-> Scope!NoRun] /\ ScopeA!Init
  BY ScopeSharedSteps DEF Scope!Init
<1>2. Scope!NoRun \in ScopeRuns /\ Scope!NoRun.status = "none"
  BY DEF Scope!NoRun, ScopeRuns
<1>3. /\ scState \in ScopeStates /\ scVerification \in Seq(Scope!Fingerprints)
      /\ scStatement \in Seq(ScopeStatements)
      /\ \A s \in DOMAIN scStatement :
           /\ scStatement[s].status = "DRAFT" /\ scStatement[s].version = 0
           /\ scStatement[s].verification <= Len(scVerification)
  <2>1. CASE \E d \in Declarations \ Coherent :
               /\ scState = [revision |-> 0, limit |-> ScopeWrites, declaration |-> d]
               /\ scVerification = <<>> /\ scStatement = <<>>
    BY <2>1, DocumentsAssumption DEF ScopeStates
  <2>2. ASSUME NEW d \in Coherent,
               scState = [revision |-> 3, limit |-> 3 + ScopeWrites, declaration |-> d],
               scVerification = <<[facts |-> scFacts, declaration |-> d]>>,
               scStatement = <<[status |-> "DRAFT", by |-> "ai",
                                fingerprint |-> [facts |-> scFacts, declaration |-> d],
                                verification |-> 1, version |-> 0]>>
        PROVE  /\ scState \in ScopeStates /\ scVerification \in Seq(Scope!Fingerprints)
               /\ scStatement \in Seq(ScopeStatements)
               /\ \A s \in DOMAIN scStatement :
                    /\ scStatement[s].status = "DRAFT" /\ scStatement[s].version = 0
                    /\ scStatement[s].verification <= Len(scVerification)
    <3> DEFINE verified == [facts |-> scFacts, declaration |-> d]
               row == [status |-> "DRAFT", by |-> "ai", fingerprint |-> verified,
                       verification |-> 1, version |-> 0]
    <3>1. verified \in Scope!Fingerprints
      BY <1>1, DocumentsAssumption DEF Scope!Fingerprints
    <3>2. scVerification = <<verified>> /\ scStatement = <<row>>
      BY <2>2
    <3> HIDE DEF verified
    <3>3. row \in ScopeStatements /\ row.status = "DRAFT" /\ row.version = 0
          /\ row.verification = 1
      BY <3>1 DEF ScopeStatements
    <3> HIDE DEF row
    <3>4. scState \in ScopeStates
      BY <2>2, DocumentsAssumption DEF ScopeStates
    <3> QED
      BY <3>1, <3>2, <3>3, <3>4
  <2> QED
    BY <2>1, <2>2 DEF Scope!Init
<1>4. ScopeTyped /\ StatementsRest /\ ScopeInputs
  BY <1>1, <1>2, <1>3 DEF ScopeTyped, StatementsRest, ScopeInputs, ScopeRunInput
<1>5. Scope!VersionsFollowVerifications
  <2>1. Scope!Validated = {}
    BY <1>3 DEF Scope!Validated
  <2>2. Cardinality({}) = 0
    BY FS_EmptySet
  <2> QED
    BY <2>1, <2>2, SameCardinality DEF Scope!VersionsFollowVerifications
<1>6. ScopeA!Wired({}, {})
  BY <1>1, <1>2, ScopeParameters, ScopeA!InitWired
<1> QED
  BY <1>4, <1>5, <1>6 DEF ScopeInv

LEMMA ScopeStepKeeps ==
    ASSUME ScopeInv, [Scope!Next]_(Scope!vars)
    PROVE  ScopeInv' /\ DraftRight
<1>1. CASE UNCHANGED Scope!vars
  <2>1. UNCHANGED <<scFacts, Scope!tables, scRun, scJob, scRequest, scSlot>>
    BY <1>1 DEF Scope!vars
  <2>2. ScopeA!Wired({}, {})'
    BY <2>1, ScopeRunsUnchanged, ScopeRunsMove
  <2> QED
    BY <2>1, <2>2, ScopeTablesKept
<1>2. CASE Scope!WriteStep
  BY <1>2, ScopeWriteStepKeeps DEF DraftRight
<1>3. ASSUME NEW q \in Requests, Scope!RequestStep(q)
      PROVE  ScopeInv' /\ DraftRight
  BY <1>3, ScopeLaunchKeeps, ScopeQuietRequest DEF Scope!RequestStep
<1>4. ASSUME NEW w \in Slots, Scope!Proceed(w)
      PROVE  ScopeInv' /\ DraftRight
  BY <1>4, ScopePersistKeeps, ScopeSlotStep, ScopeJobStep DEF Scope!Proceed
<1>5. CASE \/ \E r \in Scope!Runs : Scope!Stall(r)
           \/ \E w \in Slots : (\E r \in Scope!Runs : Scope!TakeJob(w, r)) \/ Scope!Crash(w)
  BY <1>5, ScopeJobStep
<1> QED
  BY <1>1, <1>2, <1>3, <1>4, <1>5 DEF Scope!Next

LEMMA ScopeTypes ==
    ASSUME ScopeInv
    PROVE  Scope!TypeOK
<1>1. Scope!Analysis!Queue!TypeOK
  BY DEF ScopeInv, ScopeA!Wired, ScopeA!JobsTyped, ScopeA!JobRecords, Scope!Analysis!Queue!TypeOK
<1>2. scRequest \in [Requests -> Scope!Analysis!RequestTypes({})]
  BY DEF ScopeInv, ScopeA!Wired, ScopeA!RequestsWired, ScopeA!RequestTypes,
     Scope!Analysis!RequestTypes
<1>3. scSlot \in [Slots -> Scope!Analysis!SlotTypes({})]
  BY DEF ScopeInv, ScopeA!Wired, ScopeA!SlotsWired, ScopeA!SlotTypes, Scope!Analysis!SlotTypes
<1> QED
  BY <1>1, <1>2, <1>3 DEF ScopeInv, ScopeTyped, ScopeStates, ScopeStatements, ScopeRuns,
     Scope!TypeOK

\* The validated scope statements are numbered without gap, in the order of the
\* verifications that they rest on, for any facts, declarations, writes and runs.
THEOREM VersionsAreNumbered == Scope!Spec => []VersionsFollowVerifications
<1>1. Scope!Init => ScopeInv
  BY ScopeStart
<1>2. ScopeInv /\ [Scope!Next]_(Scope!vars) => ScopeInv'
  BY ScopeStepKeeps
<1>3. ScopeInv => VersionsFollowVerifications
  BY ScopeTypes DEF ScopeInv, VersionsFollowVerifications
<1> QED
  BY <1>1, <1>2, <1>3, PTL DEF Scope!Spec

\* A draft of the scope is added to the declaration and the verification that its run was
\* launched with, whatever was declared, verified and delivered in between.
THEOREM DraftsFitTheDeclaration == Scope!Spec => Scope!AppliedToItsDeclaration
<1>1. Scope!Init => ScopeInv
  BY ScopeStart
<1>2. ScopeInv /\ [Scope!Next]_(Scope!vars) => ScopeInv'
  BY ScopeStepKeeps
<1>3. ScopeInv /\ [Scope!Next]_(Scope!vars) =>
        [\A r \in Scope!Runs :
           (scRun[r].status # "COMPLETED" /\ scRun'[r].status = "COMPLETED") =>
             scRun[r].fingerprint.declaration = scState.declaration
             /\ scRun[r].verification = Scope!Newest]_(Scope!vars)
  BY ScopeStepKeeps DEF DraftRight, Scope!Newest
<1> QED
  BY <1>1, <1>2, <1>3, PTL DEF Scope!Spec, Scope!AppliedToItsDeclaration

-----------------------------------------------------------------------------
(* The jobs of the scope.                                                  *)

LEMMA ScopeQueueSteps ==
    ASSUME ScopeInv, [Scope!Next]_(Scope!vars)
    PROVE  [ScopeA!Queue!Next]_scJob
<1>w. ScopeA!Wired({}, {})
  BY DEF ScopeInv
<1>1. CASE UNCHANGED Scope!vars
  BY <1>1 DEF Scope!vars
<1>2. CASE Scope!WriteStep
  BY <1>2 DEF Scope!Write, Scope!WriteStep, Scope!ChangeFacts, Scope!Declare, Scope!Verify,
     Scope!EditStatement, Scope!ValidateStatement
<1>3. ASSUME NEW q \in Requests, Scope!RequestStep(q)
      PROVE  [ScopeA!Queue!Next]_scJob
  <2>1. CASE Scope!Enqueue(q)
    <3>1. ScopeA!Enqueue(q)
      BY <2>1, ScopeSharedSteps DEF Scope!Enqueue
    <3> QED
      BY <1>w, <3>1, ScopeA!QueueMoves
  <2>2. CASE ~Scope!Enqueue(q)
    BY <1>3, <2>2 DEF Scope!RequestStep, Scope!Launch, Scope!EnqueueFails, Scope!RequestEnds,
       Scope!Analysis!EnqueueFails, Scope!Analysis!RequestEnds,
       Scope!Analysis!Create
  <2> QED
    BY <2>1, <2>2
<1>4. ASSUME NEW w \in Slots, Scope!Proceed(w) \/ Scope!Crash(w)
      PROVE  [ScopeA!Queue!Next]_scJob
  <2>1. CASE Scope!EndJob(w)
    <3>1. ScopeA!EndJob(w)
      BY <2>1, ScopeSharedSteps DEF Scope!EndJob
    <3> QED
      BY <1>w, <3>1, ScopeA!QueueMoves
  <2>2. CASE ~Scope!EndJob(w)
    BY <1>4, <2>2 DEF Scope!Proceed, Scope!Crash, Scope!MarkRunning, Scope!Generate,
       Scope!Persist, Scope!PersistDone, Scope!PersistFails, Scope!FailRun,
       Scope!Analysis!MarkRunning, Scope!Analysis!AlreadyPersisted,
       Scope!Analysis!PersistFails, Scope!Analysis!FailRun, Scope!Analysis!Crash,
       Scope!Analysis!Goto
  <2> QED
    BY <2>1, <2>2
<1>5. ASSUME NEW r \in Scope!Runs, Scope!Stall(r) \/ \E w \in Slots : Scope!TakeJob(w, r)
      PROVE  [ScopeA!Queue!Next]_scJob
  <2>1. ScopeA!Stall(r) \/ \E w \in Slots : ScopeA!TakeJob(w, r)
    BY <1>5, ScopeSharedSteps DEF Scope!Stall, Scope!TakeJob
  <2> QED
    BY <1>w, <2>1, ScopeA!QueueMoves
<1> QED
  BY <1>1, <1>2, <1>3, <1>4, <1>5 DEF Scope!Next

LEMMA ScopeSameQueue ==
    /\ ScopeA!Queue!Delivery!Init <=> Scope!Analysis!Queue!Delivery!Init
    /\ [ScopeA!Queue!Delivery!Next]_([i \in Scope!Runs |-> ScopeA!Queue!Progress(scJob[i])])
       <=> [Scope!Analysis!Queue!Delivery!Next]_([i \in Scope!Runs |-> Scope!Analysis!Queue!Progress(scJob[i])])
BY Zenon DEF ScopeA!Queue!Progress, Scope!Analysis!Queue!Progress,
  ScopeA!Queue!Delivery!Init, Scope!Analysis!Queue!Delivery!Init,
  ScopeA!Queue!Delivery!Add, Scope!Analysis!Queue!Delivery!Add,
  ScopeA!Queue!Delivery!Deliver, Scope!Analysis!Queue!Delivery!Deliver,
  ScopeA!Queue!Delivery!Complete, Scope!Analysis!Queue!Delivery!Complete,
  ScopeA!Queue!Delivery!GiveUp, Scope!Analysis!Queue!Delivery!GiveUp,
  ScopeA!Queue!Delivery!Next, Scope!Analysis!Queue!Delivery!Next

\* The jobs of the scope make only steps of the queue.
THEOREM ScopeJobsAreDelivered == Scope!Spec => Scope!Analysis!Queue!DeliveryImplemented
<1>1. Scope!Init => ScopeInv /\ ScopeA!Queue!Init
  <2>1. Scope!Init => ScopeA!Init
    BY ScopeSharedSteps DEF Scope!Init
  <2> QED
    BY <2>1, ScopeStart DEF ScopeA!Init
<1>2. ScopeInv /\ [Scope!Next]_(Scope!vars) => ScopeInv' /\ [ScopeA!Queue!Next]_scJob
  BY ScopeStepKeeps, ScopeQueueSteps
<1>3. ScopeA!Queue!Spec => ScopeA!Queue!DeliveryImplemented
  BY ScopeParameters, ScopeA!DeliveryIsImplemented
<1>4. Scope!Spec => ScopeA!Queue!DeliveryImplemented
  BY <1>1, <1>2, <1>3, PTL DEF Scope!Spec, ScopeA!Queue!Spec
<1>5. ScopeA!Queue!Delivery!Init <=> Scope!Analysis!Queue!Delivery!Init
  BY ScopeSameQueue
<1>6. [ScopeA!Queue!Delivery!Next]_([i \in Scope!Runs |-> ScopeA!Queue!Progress(scJob[i])])
       <=> [Scope!Analysis!Queue!Delivery!Next]_([i \in Scope!Runs |-> Scope!Analysis!Queue!Progress(scJob[i])])
  BY ScopeSameQueue
<1> QED
  BY <1>4, <1>5, <1>6, PTL DEF ScopeA!Queue!DeliveryImplemented,
     Scope!Analysis!Queue!DeliveryImplemented, ScopeA!Queue!Delivery!Spec,
     Scope!Analysis!Queue!Delivery!Spec

-----------------------------------------------------------------------------
(* The sheets.  Beside the types, the decisions and the wiring of the      *)
(* queue, the invariant says that a run of the current revision was        *)
(* launched on the content that the sheet has now, and that a run which a  *)
(* slot has claimed or completed has a job: the request that created it    *)
(* will not fail it any more.                                              *)

SheetA == INSTANCE AnalysisRun_proofs WITH
    Runs <- Sheet!Runs, Slots <- SheetSlots,
    run <- shRun, job <- shJob, request <- shRequest, slot <- shSlot

SheetRows == [revision : Nat, fingerprint : SheetSources, content : Sheet!Contents]

SheetVersions == [content : Sheet!Contents, fingerprint : SheetSources]

SheetRuns ==
    [status : {"none", "DRAFT", "RUNNING", "COMPLETED", "FAILED"}, revision : Nat,
     fingerprint : SheetSources \cup {None}, content : Sheet!Contents \cup {None},
     output : BOOLEAN, applied : BOOLEAN]

\* At least one attempt; None stands for no slot and for no sheet.
SheetParameters ==
    /\ MaxRuns \in Nat /\ SheetWrites \in Nat
    /\ Attempts \in Nat \ {0} /\ MaxStalled \in Nat
    /\ MapCurrent \subseteq SheetSources
    /\ None \notin SheetSlots /\ None \notin SheetRows

LEMMA SheetConstants == SheetParameters
BY PlanningAssumption, DocumentsAssumption DEF SheetParameters, SheetRows

SheetTyped ==
    /\ shSources \in SheetSources /\ shSheet \in SheetRows \cup {None}
    /\ shVersion \in Seq(SheetVersions) /\ shRun \in [Sheet!Runs -> SheetRuns]

SheetDecidedOn(c, f) == c.activities \subseteq {"pending", f} /\ c.references \in {None, f}

SheetDecided == shSheet # None => SheetDecidedOn(shSheet.content, shSheet.fingerprint)

SheetVersionsDecided ==
    \A v \in DOMAIN shVersion : SheetDecidedOn(shVersion[v].content, shVersion[v].fingerprint)

\* A run of the current revision was launched on the content of now.
SheetRunInput(r) ==
    shRun[r].status # "none" =>
      /\ shSheet # None /\ shRun[r].revision <= shSheet.revision
      /\ shRun[r].revision = shSheet.revision => shRun[r].content = shSheet.content

\* A run that a slot has claimed is one whose request has gone.
SheetDelivered(r) == shRun[r].status \in {"RUNNING", "COMPLETED"} => shJob[r].status # "none"

SheetInputs == \A r \in Sheet!Runs : SheetRunInput(r) /\ SheetDelivered(r)

SheetInv ==
    SheetTyped /\ SheetDecided /\ SheetVersionsDecided /\ SheetInputs /\ SheetA!Wired({}, {})

-----------------------------------------------------------------------------
(* The steps that this module shares with the other analyses.              *)

LEMMA SheetSharedQueue ==
    /\ \A r : Sheet!Analysis!Queue!Add(r) <=> SheetA!Queue!Add(r)
    /\ \A r, w : Sheet!Analysis!Queue!Take(r, w) <=> SheetA!Queue!Take(r, w)
    /\ \A r, w : Sheet!Analysis!Queue!Complete(r, w) <=> SheetA!Queue!Complete(r, w)
    /\ \A r, w : Sheet!Analysis!Queue!Throw(r, w) <=> SheetA!Queue!Throw(r, w)
    /\ \A r : Sheet!Analysis!Queue!Stall(r) <=> SheetA!Queue!Stall(r)
    /\ Sheet!Analysis!Queue!Init <=> SheetA!Queue!Init
BY DEF Sheet!Analysis!Queue!Add, SheetA!Queue!Add, Sheet!Analysis!Queue!Added,
   SheetA!Queue!Added, Sheet!Analysis!Queue!Take, SheetA!Queue!Take, Sheet!Analysis!Queue!Taken,
   SheetA!Queue!Taken, Sheet!Analysis!Queue!Complete, SheetA!Queue!Complete,
   Sheet!Analysis!Queue!Completed, SheetA!Queue!Completed, Sheet!Analysis!Queue!Throw,
   SheetA!Queue!Throw, Sheet!Analysis!Queue!Thrown, SheetA!Queue!Thrown,
   Sheet!Analysis!Queue!Stall, SheetA!Queue!Stall, Sheet!Analysis!Queue!Recovered,
   SheetA!Queue!Recovered, Sheet!Analysis!Queue!Init, SheetA!Queue!Init,
   Sheet!Analysis!Queue!NoJob, SheetA!Queue!NoJob

LEMMA SheetSharedSteps ==
    /\ Sheet!Analysis!Init <=> SheetA!Init
    /\ \A q : Sheet!Analysis!Done(q) <=> SheetA!Done(q)
    /\ \A q, x : Sheet!Analysis!Create(q, x) <=> SheetA!Create(q, x)
    /\ \A q : Sheet!Analysis!Enqueue(q) <=> SheetA!Enqueue(q)
    /\ \A w, r : Sheet!Analysis!TakeJob(w, r) <=> SheetA!TakeJob(w, r)
    /\ \A w, pc : Sheet!Analysis!Goto(w, pc) <=> SheetA!Goto(w, pc)
    /\ \A w : Sheet!Analysis!EndJob(w) <=> SheetA!EndJob(w)
    /\ \A w : Sheet!Analysis!Crash(w) <=> SheetA!Crash(w)
    /\ \A r : Sheet!Analysis!Stall(r) <=> SheetA!Stall(r)
BY SheetSharedQueue DEF Sheet!Analysis!Init, SheetA!Init, Sheet!Analysis!Free, SheetA!Free,
   Sheet!Analysis!Idle, SheetA!Idle, Sheet!Analysis!Done, SheetA!Done, Sheet!Analysis!Create,
   SheetA!Create, Sheet!Analysis!IsNext, SheetA!IsNext, Sheet!Analysis!Enqueue, SheetA!Enqueue,
   Sheet!Analysis!TakeJob, SheetA!TakeJob, Sheet!Analysis!Goto, SheetA!Goto,
   Sheet!Analysis!Ended, SheetA!Ended, Sheet!Analysis!EndJob, SheetA!EndJob,
   Sheet!Analysis!Crash, SheetA!Crash, Sheet!Analysis!Stall, SheetA!Stall

LEMMA SheetQueueParameters ==
    ASSUME SheetParameters
    PROVE  SheetA!Parameters
BY DEF SheetParameters, SheetA!Parameters

\* What a step does to the jobs: at most one of them moves on.
SheetQueueStep == SheetA!Queue!Next \/ UNCHANGED shJob

SheetJobsKept == \A r \in Sheet!Runs : shJob[r].status # "none" => shJob'[r].status # "none"

LEMMA SheetQueueStepKeeps ==
    ASSUME SheetParameters, SheetA!JobsTyped, SheetQueueStep
    PROVE  SheetJobsKept
<1>1. CASE UNCHANGED shJob
  BY <1>1 DEF SheetJobsKept
<1>2. CASE SheetA!Queue!Next
  <2>1. PICK r \in Sheet!Runs :
          \/ SheetA!Queue!Add(r) \/ SheetA!Queue!Stall(r)
          \/ \E w \in SheetSlots : SheetA!Queue!Take(r, w) \/ SheetA!Queue!Complete(r,
               w) \/ SheetA!Queue!Throw(r, w)
    BY <1>2 DEF SheetA!Queue!Next
  <2>2. SheetA!JobsStep(r)
    BY <2>1, SheetQueueParameters, SheetA!AddStep, SheetA!StallStep, SheetA!TakeStep,
       SheetA!CompleteStep, SheetA!ThrowStep
  <2> QED
    BY <2>2 DEF SheetA!JobsStep, SheetJobsKept
<1> QED
  BY <1>1, <1>2 DEF SheetQueueStep

-----------------------------------------------------------------------------
(* The writes of people.                                                   *)

\* A run may have been marked as applied; nothing else of it has changed.
SheetRunsStay ==
    /\ shRun' \in [Sheet!Runs -> SheetRuns]
    /\ \A r \in Sheet!Runs : shRun'[r].status = shRun[r].status
         /\ shRun'[r].revision = shRun[r].revision
                       /\ shRun'[r].content = shRun[r].content

LEMMA SheetRunsUnchanged ==
    ASSUME SheetInv, UNCHANGED shRun
    PROVE  SheetRunsStay
BY DEF SheetInv, SheetTyped, SheetRunsStay

LEMMA SheetFields ==
    ASSUME SheetInv, shSheet # None
    PROVE  /\ shSheet \in SheetRows /\ shSheet.revision \in Nat /\ shSheet.fingerprint \in SheetSources
           /\ shSheet.content \in Sheet!Contents /\ shSources \in SheetSources
           /\ SheetDecidedOn(shSheet.content, shSheet.fingerprint)
BY DEF SheetInv, SheetTyped, SheetRows, SheetDecided

LEMMA SheetStayWired ==
    ASSUME SheetInv, SheetRunsStay, UNCHANGED <<shJob, shRequest, shSlot>>
    PROVE  SheetA!Wired({}, {})'
BY SheetA!RunsMoveWired DEF SheetInv, SheetRunsStay, SheetA!RunsKept

\* What a write has to show of the content, the fingerprint and the versions.
LEMMA SheetWriteKeeps ==
    ASSUME SheetInv, SheetParameters, shSheet # None, NEW c \in Sheet!Contents,
      NEW f \in SheetSources, Sheet!Write(c, f),
           SheetDecidedOn(c, f), SheetRunsStay, shVersion' \in Seq(SheetVersions),
             SheetVersionsDecided'
    PROVE  SheetInv'
<1>1. /\ shSheet' = [revision |-> shSheet.revision + 1, fingerprint |-> f, content |-> c]
      /\ UNCHANGED <<shSources, shJob, shRequest, shSlot>>
  BY DEF Sheet!Write
<1>2. shSheet.revision \in Nat
  BY SheetFields
<1>3. shSheet' \in SheetRows /\ shSheet'.content = c /\ shSheet'.fingerprint = f
      /\ shSheet'.revision = shSheet.revision + 1
  BY <1>1, <1>2 DEF SheetRows
<1>4. shSheet' # None
  BY <1>3 DEF SheetParameters
<1>5. SheetTyped' /\ SheetDecided'
  BY <1>1, <1>3 DEF SheetInv, SheetTyped, SheetRunsStay, SheetDecided
<1>6. SheetInputs'
  <2>1. ASSUME NEW r \in Sheet!Runs PROVE SheetRunInput(r)' /\ SheetDelivered(r)'
    <3>1. shRun[r].revision \in Nat
      BY DEF SheetInv, SheetTyped, SheetRuns
    <3>2. SheetRunInput(r)'
      BY <1>2, <1>3, <1>4, <3>1 DEF SheetInv, SheetInputs, SheetRunInput, SheetRunsStay
    <3>3. SheetDelivered(r)'
      BY <1>1 DEF SheetInv, SheetInputs, SheetDelivered, SheetRunsStay
    <3> QED
      BY <3>2, <3>3
  <2> QED
    BY <2>1 DEF SheetInputs
<1>7. SheetA!Wired({}, {})'
  BY <1>1, SheetStayWired
<1> QED
  BY <1>5, <1>6, <1>7 DEF SheetInv

LEMMA SheetSameVersions ==
    ASSUME SheetInv, UNCHANGED shVersion
    PROVE  shVersion' \in Seq(SheetVersions) /\ SheetVersionsDecided'
BY DEF SheetInv, SheetTyped, SheetVersionsDecided

LEMMA SheetChangeSourcesKeeps ==
    ASSUME SheetInv, Sheet!ChangeSources
    PROVE  SheetInv'
<1>1. shSources' \in SheetSources /\ UNCHANGED <<shSheet, shVersion, shRun, shJob, shRequest,
        shSlot>>
  BY DEF Sheet!ChangeSources
<1>2. SheetTyped' /\ SheetDecided' /\ SheetVersionsDecided' /\ SheetInputs'
  BY <1>1 DEF SheetInv, SheetTyped, SheetDecided, SheetVersionsDecided, SheetInputs,
     SheetRunInput, SheetDelivered
<1>3. SheetA!Wired({}, {})'
  BY <1>1, SheetRunsUnchanged, SheetStayWired
<1> QED
  BY <1>2, <1>3 DEF SheetInv

LEMMA SheetEmptyContent ==
    ASSUME NEW f
    PROVE  /\ Sheet!emptyContent \in Sheet!Contents /\ SheetDecidedOn(Sheet!emptyContent, f)
           /\ [Sheet!emptyContent EXCEPT !.described = TRUE] \in Sheet!Contents
           /\ SheetDecidedOn([Sheet!emptyContent EXCEPT !.described = TRUE], f)
BY DEF Sheet!emptyContent, Sheet!Contents, SheetDecidedOn

LEMMA SheetPrepareKeeps ==
    ASSUME SheetInv, SheetParameters, Sheet!Prepare
    PROVE  SheetInv'
<1>1. /\ shSheet = None /\ UNCHANGED <<shSources, shVersion, shRun, shJob, shRequest, shSlot>>
      /\ shSheet' = [revision |-> 0, fingerprint |-> shSources, content |-> Sheet!emptyContent]
      /\ shSources \in SheetSources
  BY DEF Sheet!Prepare, SheetInv, SheetTyped
<1>2. shSheet' \in SheetRows /\ shSheet'.content = Sheet!emptyContent
        /\ shSheet'.fingerprint = shSources
  BY <1>1, SheetEmptyContent DEF SheetRows
<1>3. SheetTyped' /\ SheetDecided' /\ SheetVersionsDecided'
  BY <1>1, <1>2, SheetEmptyContent, SheetSameVersions DEF SheetInv, SheetTyped, SheetDecided
<1>4. SheetInputs'
  BY <1>1 DEF SheetInv, SheetInputs, SheetRunInput, SheetDelivered
<1>5. SheetA!Wired({}, {})'
  BY <1>1, SheetRunsUnchanged, SheetStayWired
<1> QED
  BY <1>3, <1>4, <1>5 DEF SheetInv

LEMMA SheetSaveKeeps ==
    ASSUME SheetInv, SheetParameters, Sheet!Save
    PROVE  SheetInv'
<1>1. PICK described \in BOOLEAN,
           activities \in {shSheet.content.activities, {}, {shSheet.fingerprint},
                           shSheet.content.activities \cup {"pending"}},
           references \in {None, shSheet.fingerprint} :
        Sheet!Write([described |-> described, activities |-> activities,
          references |-> references],
              shSheet.fingerprint)
  BY DEF Sheet!Save
<1>2. shSheet # None /\ UNCHANGED <<shVersion, shRun>>
  BY DEF Sheet!Save
<1> DEFINE c == [described |-> described, activities |-> activities, references |-> references]
<1>3. /\ shSheet.content.activities \in SUBSET (SheetSources \cup {"pending"})
      /\ shSheet.content.activities \subseteq {"pending", shSheet.fingerprint}
      /\ shSheet.fingerprint \in SheetSources
  BY <1>2, SheetFields DEF Sheet!Contents, SheetDecidedOn
<1>4. activities \in SUBSET (SheetSources \cup {"pending"})
      /\ activities \subseteq {"pending", shSheet.fingerprint}
  BY <1>3
<1>5. c \in Sheet!Contents /\ SheetDecidedOn(c, shSheet.fingerprint)
  BY <1>3, <1>4 DEF Sheet!Contents, SheetDecidedOn
<1> HIDE DEF c
<1> QED
  BY <1>1, <1>2, <1>3, <1>5, SheetSameVersions, SheetRunsUnchanged, SheetWriteKeeps DEF c

LEMMA SheetRefreshSourcesKeeps ==
    ASSUME SheetInv, SheetParameters, Sheet!RefreshSources
    PROVE  SheetInv'
<1> DEFINE c == [shSheet.content EXCEPT !.activities = IF @ = {} THEN {} ELSE {"pending"},
                                      !.references = None]
<1>1. shSheet # None /\ Sheet!Write(c, shSources) /\ UNCHANGED <<shVersion, shRun>>
  BY DEF Sheet!RefreshSources
<1>2. shSheet.content \in Sheet!Contents /\ shSources \in SheetSources
  BY <1>1, SheetFields
<1>3. c \in Sheet!Contents /\ SheetDecidedOn(c, shSources)
  BY <1>2 DEF Sheet!Contents, SheetDecidedOn
<1> HIDE DEF c
<1> QED
  BY <1>1, <1>2, <1>3, SheetSameVersions, SheetRunsUnchanged, SheetWriteKeeps

\* A proposal is applied to the content that it was made for.
LEMMA SheetApplyKeeps ==
    ASSUME SheetInv, SheetParameters, NEW r \in Sheet!Runs, Sheet!Apply(r)
    PROVE  /\ SheetInv' /\ shRun[r].content = shSheet.content /\ SheetRunsStay
           /\ \A s \in Sheet!Runs \ {r} : shRun'[s] = shRun[s]
<1> DEFINE c == [shSheet.content EXCEPT !.activities = @ \cup {"pending"}]
           new == [shRun[r] EXCEPT !.applied = TRUE]
<1>1. /\ shSheet # None /\ Sheet!Applicable(r) /\ Sheet!Write(c, shSheet.fingerprint)
      /\ shRun' = [shRun EXCEPT ![r].applied = TRUE] /\ UNCHANGED shVersion
  BY DEF Sheet!Apply, Sheet!Current
<1>2. /\ shSheet.content \in Sheet!Contents /\ shSheet.fingerprint \in SheetSources
      /\ SheetDecidedOn(shSheet.content, shSheet.fingerprint)
  BY <1>1, SheetFields
<1>3. c \in Sheet!Contents /\ SheetDecidedOn(c, shSheet.fingerprint)
  <2>1. c.activities = shSheet.content.activities \cup {"pending"}
        /\ c.references = shSheet.content.references
    BY <1>2 DEF Sheet!Contents
  <2>2. c \in Sheet!Contents
    BY <1>2 DEF Sheet!Contents
  <2> HIDE DEF c
  <2> QED
    BY <1>2, <2>1, <2>2 DEF SheetDecidedOn
<1> HIDE DEF c
<1>4. shRun[r] \in SheetRuns /\ shRun' = [shRun EXCEPT ![r] = new]
  BY <1>1 DEF SheetInv, SheetTyped
<1>5. /\ new \in SheetRuns /\ new.status = shRun[r].status /\ new.revision = shRun[r].revision
      /\ new.content = shRun[r].content
  BY <1>4 DEF SheetRuns
<1> HIDE DEF new
<1>6. SheetRunsStay /\ \A s \in Sheet!Runs \ {r} : shRun'[s] = shRun[s]
  BY <1>4, <1>5 DEF SheetInv, SheetTyped, SheetRunsStay
<1>7. shRun[r].content = shSheet.content
  BY <1>1 DEF Sheet!Applicable, SheetInv, SheetInputs, SheetRunInput
<1> QED
  BY <1>1, <1>2, <1>3, <1>6, <1>7, SheetSameVersions, SheetWriteKeeps

LEMMA SheetValidateKeeps ==
    ASSUME SheetInv, SheetParameters, Sheet!Validate
    PROVE  SheetInv'
<1> DEFINE v == [content |-> shSheet.content, fingerprint |-> shSources]
<1>1. /\ shSheet # None /\ shSheet.fingerprint = shSources /\ shVersion' = Append(shVersion, v)
      /\ Sheet!Write(shSheet.content, shSheet.fingerprint) /\ UNCHANGED shRun
  BY DEF Sheet!Validate, Sheet!Current
<1>2. /\ shSheet.content \in Sheet!Contents /\ shSources \in SheetSources
      /\ SheetDecidedOn(shSheet.content, shSources)
  BY <1>1, SheetFields
<1>3. v \in SheetVersions /\ v.content = shSheet.content /\ v.fingerprint = shSources
  BY <1>2 DEF SheetVersions
<1> HIDE DEF v
<1>4. shVersion' \in Seq(SheetVersions)
  BY <1>1, <1>3 DEF SheetInv, SheetTyped
<1>5. SheetVersionsDecided'
  <2> SUFFICES ASSUME NEW i \in DOMAIN shVersion'
               PROVE  SheetDecidedOn(shVersion'[i].content, shVersion'[i].fingerprint)
    BY DEF SheetVersionsDecided
  <2>1. CASE i \in DOMAIN shVersion
    <3>1. shVersion'[i] = shVersion[i]
      BY <1>1, <1>3, <2>1 DEF SheetInv, SheetTyped
    <3> QED
      BY <2>1, <3>1 DEF SheetInv, SheetVersionsDecided
  <2>2. CASE i \notin DOMAIN shVersion
    <3>1. shVersion'[i] = v
      BY <1>1, <1>3, <2>2 DEF SheetInv, SheetTyped
    <3> QED
      BY <1>2, <1>3, <3>1
  <2> QED
    BY <2>1, <2>2
<1> QED
  BY <1>1, <1>2, <1>4, <1>5, SheetRunsUnchanged, SheetWriteKeeps

-----------------------------------------------------------------------------
(* The launch, and the steps of the queue and the slots.                   *)

SheetCompletedStays == \A r \in Sheet!Runs : shRun[r].status = "COMPLETED"
  => shRun'[r].status = "COMPLETED"

LEMMA SheetLaunchKeeps ==
    ASSUME SheetInv, NEW q \in Requests, Sheet!Launch(q)
    PROVE  /\ SheetInv' /\ SheetCompletedStays /\ UNCHANGED shJob
           /\ \E r \in Sheet!Runs : ~shRun'[r].applied
                /\ \A s \in Sheet!Runs \ {r} : shRun'[s] = shRun[s]
<1> DEFINE new == [Sheet!NoRun EXCEPT !.status = "DRAFT", !.revision = shSheet.revision,
                                !.fingerprint = shSources, !.content = shSheet.content]
<1>1. /\ shSheet # None /\ SheetA!Create(q, new) /\ UNCHANGED <<shSources, shSheet, shVersion,
        shJob, shSlot>>
  BY SheetSharedSteps DEF Sheet!Launch, Sheet!Current
<1>2. shSheet.revision \in Nat /\ shSheet.content \in Sheet!Contents /\ shSources \in SheetSources
  BY <1>1, SheetFields
<1>3. /\ new \in SheetRuns /\ new.status = "DRAFT" /\ ~new.applied
      /\ new.revision = shSheet.revision /\ new.content = shSheet.content
  BY <1>2 DEF Sheet!NoRun, SheetRuns
<1> HIDE DEF new
<1>4. PICK r \in Sheet!Runs : shRun[r].status = "none" /\ shRun' = [shRun EXCEPT ![r] = new]
  BY <1>1 DEF SheetA!Create, SheetA!IsNext
<1>5. SheetA!Wired({}, {})'
  BY <1>1, <1>3, SheetA!CreateWired DEF SheetInv, SheetTyped
<1>6. shRun' \in [Sheet!Runs -> SheetRuns] /\ shRun'[r] = new
        /\ \A s \in Sheet!Runs \ {r} : shRun'[s] = shRun[s]
  BY <1>3, <1>4 DEF SheetInv, SheetTyped
<1>7. SheetTyped' /\ SheetDecided' /\ SheetVersionsDecided'
  BY <1>1, <1>6, SheetSameVersions DEF SheetInv, SheetTyped, SheetDecided
<1>8. SheetInputs'
  <2>1. ASSUME NEW t \in Sheet!Runs PROVE SheetRunInput(t)' /\ SheetDelivered(t)'
    <3>1. CASE t = r
      BY <1>1, <1>2, <1>3, <1>6, <3>1 DEF SheetRunInput, SheetDelivered
    <3>2. CASE t # r
      BY <1>1, <1>6, <3>2 DEF SheetRunInput, SheetDelivered, SheetInv, SheetInputs
    <3> QED
      BY <3>1, <3>2
  <2> QED
    BY <2>1 DEF SheetInputs
<1>9. SheetCompletedStays
  BY <1>4, <1>6 DEF SheetCompletedStays
<1> QED
  BY <1>1, <1>3, <1>5, <1>6, <1>7, <1>8, <1>9 DEF SheetInv

\* A run that has another status now, and maybe its proposal; one that is claimed or
\* completed has a job.
SheetStatusSet(r) ==
    \E row \in SheetRuns :
      /\ shRun' = [shRun EXCEPT ![r] = row] /\ row.status # "none"
      /\ row.status \in {"RUNNING", "COMPLETED"} => shJob[r].status # "none"
      /\ shRun[r].status = "COMPLETED" => row.status = "COMPLETED"
      /\ row.revision = shRun[r].revision /\ row.content = shRun[r].content
      /\ row.applied = shRun[r].applied

SheetOthersStay == \A r \in Sheet!Runs : shRun'[r].applied = shRun[r].applied

LEMMA SheetStatusKeepsRuns ==
    ASSUME SheetInv, UNCHANGED shRun \/ \E r \in Sheet!Runs : SheetStatusSet(r)
    PROVE  SheetA!RunsKept
BY DEF SheetInv, SheetTyped, SheetA!RunsKept, SheetStatusSet

LEMMA SheetTablesKept ==
    ASSUME SheetInv, SheetParameters, UNCHANGED <<shSources, shSheet, shVersion>>,
      SheetA!Wired({}, {})',
           SheetQueueStep, UNCHANGED shRun \/ \E r \in Sheet!Runs : shRun[r].status # "none"
             /\ SheetStatusSet(r)
    PROVE  SheetInv' /\ SheetOthersStay /\ SheetCompletedStays
<1>1. SheetDecided' /\ SheetVersionsDecided'
  BY DEF SheetInv, SheetDecided, SheetVersionsDecided
<1>2. SheetJobsKept
  BY SheetQueueStepKeeps DEF SheetInv, SheetA!Wired
<1>3. CASE UNCHANGED shRun
  BY <1>1, <1>2, <1>3 DEF SheetInv, SheetTyped, SheetInputs, SheetRunInput, SheetDelivered,
     SheetJobsKept, SheetOthersStay, SheetCompletedStays
<1>4. ASSUME NEW r \in Sheet!Runs, shRun[r].status # "none", SheetStatusSet(r)
      PROVE  SheetInv' /\ SheetOthersStay /\ SheetCompletedStays
  <2>1. PICK row \in SheetRuns :
          /\ shRun' = [shRun EXCEPT ![r] = row] /\ row.status # "none"
          /\ row.status \in {"RUNNING", "COMPLETED"} => shJob[r].status # "none"
          /\ shRun[r].status = "COMPLETED" => row.status = "COMPLETED"
          /\ row.revision = shRun[r].revision /\ row.content = shRun[r].content
          /\ row.applied = shRun[r].applied
    BY <1>4 DEF SheetStatusSet
  <2>2. shRun' \in [Sheet!Runs -> SheetRuns] /\ shRun'[r] = row
          /\ \A s \in Sheet!Runs \ {r} : shRun'[s] = shRun[s]
    BY <2>1 DEF SheetInv, SheetTyped
  <2>3. ASSUME NEW t \in Sheet!Runs PROVE SheetRunInput(t)' /\ SheetDelivered(t)'
    <3>1. SheetRunInput(t) /\ SheetDelivered(t)
      BY DEF SheetInv, SheetInputs
    <3>2. CASE t = r
      BY <1>2, <1>4, <2>1, <2>2, <3>1, <3>2 DEF SheetRunInput, SheetDelivered, SheetJobsKept
    <3>3. CASE t # r
      BY <1>2, <2>2, <3>1, <3>3 DEF SheetRunInput, SheetDelivered, SheetJobsKept
    <3> QED
      BY <3>2, <3>3
  <2>4. SheetTyped' /\ SheetInputs'
    BY <2>2, <2>3 DEF SheetInv, SheetTyped, SheetInputs
  <2>5. SheetOthersStay /\ SheetCompletedStays
    BY <2>1, <2>2 DEF SheetOthersStay, SheetCompletedStays
  <2> QED
    BY <1>1, <2>4, <2>5 DEF SheetInv
<1> QED
  BY <1>3, <1>4

\* What a status needs to be set.
LEMMA SheetStatusIsSet ==
    ASSUME SheetInv, NEW r \in Sheet!Runs, NEW status \in {"RUNNING", "COMPLETED", "FAILED"},
           status \in {"RUNNING", "COMPLETED"} => shJob[r].status # "none",
           shRun[r].status = "COMPLETED" => status = "COMPLETED",
           shRun' = [shRun EXCEPT ![r].status = status]
    PROVE  SheetStatusSet(r)
<1> DEFINE new == [shRun[r] EXCEPT !.status = status]
<1>1. shRun[r] \in SheetRuns /\ shRun' = [shRun EXCEPT ![r] = new]
  BY DEF SheetInv, SheetTyped
<1>2. /\ new \in SheetRuns /\ new.status = status /\ new.revision = shRun[r].revision
      /\ new.content = shRun[r].content /\ new.applied = shRun[r].applied
  BY <1>1 DEF SheetRuns
<1> HIDE DEF new
<1> QED
  BY <1>1, <1>2 DEF SheetStatusSet

LEMMA SheetRunAtWork ==
    ASSUME SheetInv
    PROVE  /\ \A q \in Requests : shRequest[q].pc = "enqueue" =>
                /\ shRequest[q].run \in Sheet!Runs /\ shRun[shRequest[q].run].status # "none"
                /\ shJob[shRequest[q].run].status = "none"
           /\ \A w \in SheetSlots : shSlot[w].pc # "idle" =>
                /\ shSlot[w].run \in Sheet!Runs /\ shRun[shSlot[w].run].status # "none"
                /\ shJob[shSlot[w].run].status # "none"
BY DEF SheetInv, SheetA!Wired, SheetA!RequestsWired, SheetA!SlotsWired, SheetA!JobsHaveRuns

\* What every step of the requests, the slots and the queue shows.
SheetStepOK == SheetInv' /\ SheetOthersStay /\ SheetCompletedStays /\ SheetQueueStep

LEMMA SheetQuietRequestStep ==
    ASSUME SheetInv, SheetParameters, NEW q \in Requests,
      Sheet!Enqueue(q) \/ Sheet!EnqueueFails(q) \/ Sheet!RequestEnds(q)
    PROVE  SheetStepOK
<1>1. CASE Sheet!Enqueue(q)
  <2>1. SheetA!Enqueue(q) /\ UNCHANGED shRun
    BY <1>1, SheetSharedSteps DEF Sheet!Enqueue, Sheet!Analysis!Enqueue
  <2>2. SheetA!Wired({}, {})'
    BY <2>1, SheetStatusKeepsRuns, SheetQueueParameters, SheetA!EnqueueWired DEF SheetInv
  <2>3. SheetQueueStep
    BY <2>1, SheetRunAtWork DEF SheetA!Enqueue, SheetQueueStep, SheetA!Queue!Next
  <2> QED
    BY <1>1, <2>1, <2>2, <2>3, SheetTablesKept DEF Sheet!Enqueue, SheetStepOK
<1>2. CASE Sheet!EnqueueFails(q)
  <2>1. SheetA!Done(q) /\ UNCHANGED <<shJob, shSlot>> /\ shRequest[q].pc = "enqueue"
        /\ shRun' = [shRun EXCEPT ![shRequest[q].run].status = "FAILED"]
    BY <1>2, SheetSharedSteps DEF Sheet!EnqueueFails, Sheet!Analysis!EnqueueFails
  <2>2. shRequest[q].run \in Sheet!Runs /\ shRun[shRequest[q].run].status \notin {"none",
          "COMPLETED"}
    BY <2>1, SheetRunAtWork DEF SheetInv, SheetInputs, SheetDelivered
  <2>3. SheetStatusSet(shRequest[q].run)
    BY <2>1, <2>2, SheetStatusIsSet
  <2>4. SheetA!Wired({}, {})'
    BY <2>1, <2>2, <2>3, SheetStatusKeepsRuns, SheetA!RequestEndsWired DEF SheetInv
  <2> QED
    BY <1>2, <2>1, <2>2, <2>3, <2>4, SheetTablesKept DEF Sheet!EnqueueFails, SheetStepOK,
       SheetQueueStep
<1>3. CASE Sheet!RequestEnds(q)
  <2>1. SheetA!Done(q) /\ UNCHANGED <<shRun, shJob, shSlot>>
    BY <1>3, SheetSharedSteps DEF Sheet!RequestEnds, Sheet!Analysis!RequestEnds
  <2>2. SheetA!Wired({}, {})'
    BY <2>1, SheetStatusKeepsRuns, SheetA!RequestEndsWired DEF SheetInv
  <2> QED
    BY <1>3, <2>1, <2>2, SheetTablesKept DEF Sheet!RequestEnds, SheetStepOK, SheetQueueStep
<1> QED
  BY <1>1, <1>2, <1>3

LEMMA SheetSlotGoesOn ==
    ASSUME SheetInv, SheetParameters, NEW w \in SheetSlots, shSlot[w].pc # "idle",
           NEW pc \in {"generate", "persist", "fail", "throw", "end"}, Sheet!Analysis!Goto(w, pc),
           UNCHANGED <<shSources, shSheet, shVersion, shJob, shRequest>>,
           UNCHANGED shRun \/ SheetStatusSet(shSlot[w].run)
    PROVE  SheetStepOK
<1>1. shSlot[w].run \in Sheet!Runs /\ shRun[shSlot[w].run].status # "none"
  BY SheetRunAtWork
<1>2. SheetA!SlotMoves
  BY SheetSharedSteps DEF SheetA!SlotMoves
<1>3. SheetA!Wired({}, {})'
  BY <1>1, <1>2, SheetStatusKeepsRuns, SheetA!SlotMovesWired DEF SheetInv
<1> QED
  BY <1>1, <1>3, SheetTablesKept DEF SheetStepOK, SheetQueueStep

LEMMA SheetSlotStep ==
    ASSUME SheetInv, SheetParameters, NEW w \in SheetSlots,
           \/ Sheet!ClaimRun(w) \/ Sheet!Generate(w) \/ Sheet!Persist(w)
           \/ Sheet!PersistDone(w) \/ Sheet!PersistFails(w) \/ Sheet!FailRun(w)
    PROVE  SheetStepOK
<1> DEFINE r == shSlot[w].run
<1>1. shSlot[w].pc # "idle" =>
        r \in Sheet!Runs /\ shRun[r].status # "none" /\ shRun[r] \in SheetRuns
          /\ shJob[r].status # "none"
  BY SheetRunAtWork DEF SheetInv, SheetTyped
<1>2. CASE Sheet!ClaimRun(w)
  <2>1. shSlot[w].pc = "mark" /\ UNCHANGED <<shSources, shSheet, shVersion, shJob, shRequest>>
    BY <1>2 DEF Sheet!ClaimRun, Sheet!Analysis!ClaimRun
  <2>2. CASE shRun[r].status \in Sheet!Analysis!Active
    <3>1. Sheet!Analysis!Goto(w, "generate") /\ shRun' = [shRun EXCEPT ![r].status = "RUNNING"]
      BY <1>2, <2>2 DEF Sheet!ClaimRun, Sheet!Analysis!ClaimRun
    <3>2. SheetStatusSet(r)
      BY <1>1, <2>1, <2>2, <3>1, SheetStatusIsSet DEF Sheet!Analysis!Active
    <3> QED
      BY <2>1, <3>1, <3>2, SheetSlotGoesOn
  <2>3. CASE shRun[r].status \notin Sheet!Analysis!Active
    <3>1. Sheet!Analysis!Goto(w, "end") /\ UNCHANGED shRun
      BY <1>2, <2>3 DEF Sheet!ClaimRun, Sheet!Analysis!ClaimRun
    <3> QED
      BY <2>1, <3>1, SheetSlotGoesOn
  <2> QED
    BY <2>2, <2>3
<1>3. CASE Sheet!Generate(w)
  BY <1>3, SheetSlotGoesOn DEF Sheet!Generate
<1>4. CASE Sheet!Persist(w)
  <2> DEFINE new == [shRun[r] EXCEPT !.status = "COMPLETED", !.output = TRUE]
  <2>1. shRun' = [shRun EXCEPT ![r] = new] /\ shSlot[w].pc = "persist"
    BY <1>4 DEF Sheet!Persist
  <2>2. /\ new \in SheetRuns /\ new.status = "COMPLETED" /\ new.revision = shRun[r].revision
        /\ new.content = shRun[r].content /\ new.applied = shRun[r].applied
    BY <1>1, <2>1 DEF SheetRuns
  <2> HIDE DEF new
  <2>3. SheetStatusSet(r)
    BY <1>1, <2>1, <2>2 DEF SheetStatusSet
  <2> QED
    BY <1>4, <2>3, SheetSlotGoesOn DEF Sheet!Persist
<1>5. CASE Sheet!PersistDone(w)
  BY <1>5, SheetSlotGoesOn DEF Sheet!PersistDone, Sheet!Analysis!AlreadyPersisted
<1>6. CASE Sheet!PersistFails(w)
  BY <1>6, SheetSlotGoesOn DEF Sheet!PersistFails, Sheet!Analysis!PersistFails
<1>7. CASE Sheet!FailRun(w)
  <2>1. /\ shSlot[w].pc = "fail" /\ Sheet!Analysis!Goto(w, "end")
        /\ UNCHANGED <<shSources, shSheet, shVersion, shJob, shRequest>>
    BY <1>7 DEF Sheet!FailRun, Sheet!Analysis!FailUnlessCompleted
  <2>2. \E status \in {"COMPLETED", "FAILED"} :
          /\ shRun' = [shRun EXCEPT ![r].status = status]
          /\ status = "COMPLETED" <=> shRun[r].status = "COMPLETED"
    BY <1>7 DEF Sheet!FailRun, Sheet!Analysis!FailUnlessCompleted
  <2>3. SheetStatusSet(r)
    BY <1>1, <2>1, <2>2, SheetStatusIsSet
  <2> QED
    BY <2>1, <2>3, SheetSlotGoesOn
<1> QED
  BY <1>2, <1>3, <1>4, <1>5, <1>6, <1>7

LEMMA SheetJobStep ==
    ASSUME SheetInv, SheetParameters, NEW r \in Sheet!Runs,
           Sheet!Stall(r) \/ \E w \in SheetSlots : Sheet!TakeJob(w, r) \/ (shSlot[w].run = r
             /\ (Sheet!EndJob(w) \/ Sheet!Crash(w)))
    PROVE  SheetStepOK
<1>1. UNCHANGED <<shSources, shSheet, shVersion, shRun>>
  BY DEF Sheet!TakeJob, Sheet!EndJob, Sheet!Crash, Sheet!Stall, Sheet!Analysis!TakeJob,
     Sheet!Analysis!EndJob, Sheet!Analysis!Crash, Sheet!Analysis!Stall
<1>2. \/ SheetA!Stall(r)
      \/ \E w \in SheetSlots : SheetA!TakeJob(w, r) \/ (shSlot[w].run = r
           /\ (SheetA!EndJob(w) \/ SheetA!Crash(w)))
  BY SheetSharedSteps DEF Sheet!TakeJob, Sheet!EndJob, Sheet!Crash, Sheet!Stall
<1>3. SheetA!Wired({}, {})'
  BY <1>1, <1>2, SheetStatusKeepsRuns, SheetQueueParameters, SheetA!TakeJobWired,
     SheetA!EndJobWired, SheetA!CrashWired, SheetA!StallWired DEF SheetInv
<1>4. SheetQueueStep
  BY <1>2 DEF SheetA!Stall, SheetA!TakeJob, SheetA!EndJob, SheetA!Crash, SheetQueueStep,
     SheetA!Queue!Next
<1> QED
  BY <1>1, <1>3, <1>4, SheetTablesKept DEF SheetStepOK

-----------------------------------------------------------------------------
(* The steps together.                                                     *)

LEMMA SheetStart ==
    ASSUME SheetParameters, Sheet!Init
    PROVE  SheetInv /\ SheetA!Queue!Init
<1>1. shSources \in SheetSources /\ shVersion = <<>>
        /\ shRun = [r \in Sheet!Runs |-> Sheet!NoRun] /\ SheetA!Init
  BY SheetSharedSteps DEF Sheet!Init, SheetParameters
<1>2. shSheet \in SheetRows \cup {None} /\ SheetDecided
  <2> DEFINE first == [revision |-> 0, fingerprint |-> shSources,
                       content |-> [Sheet!emptyContent EXCEPT !.described = TRUE]]
  <2>1. first \in SheetRows /\ SheetDecidedOn(first.content, first.fingerprint)
    BY <1>1, SheetEmptyContent DEF SheetRows
  <2>2. shSheet \in {None, first}
    BY DEF Sheet!Init
  <2> HIDE DEF first
  <2> QED
    BY <2>1, <2>2 DEF SheetDecided
<1>3. Sheet!NoRun \in SheetRuns /\ Sheet!NoRun.status = "none"
  BY DEF Sheet!NoRun, SheetRuns
<1>4. SheetTyped /\ SheetVersionsDecided /\ SheetInputs
  BY <1>1, <1>2, <1>3 DEF SheetTyped, SheetVersionsDecided, SheetInputs, SheetRunInput,
     SheetDelivered
<1>5. SheetA!Wired({}, {}) /\ SheetA!Queue!Init
  BY <1>1, <1>3, SheetQueueParameters, SheetA!InitWired DEF SheetA!Init
<1> QED
  BY <1>2, <1>4, <1>5 DEF SheetInv

\* What a step does to the runs that are applied by it.
SheetAppliedRight ==
    \A r \in Sheet!Runs : ~shRun[r].applied /\ shRun'[r].applied
      => shRun[r].content = shSheet.content

LEMMA SheetStepKeeps ==
    ASSUME SheetInv, SheetParameters, [Sheet!Next]_(Sheet!vars)
    PROVE  SheetInv' /\ SheetAppliedRight /\ SheetCompletedStays /\ SheetQueueStep
<1>1. CASE UNCHANGED Sheet!vars
  <2>1. UNCHANGED <<shSources, shSheet, shVersion, shRun, shJob, shRequest, shSlot>>
    BY <1>1 DEF Sheet!vars
  <2>2. SheetA!Wired({}, {})' /\ SheetQueueStep
    BY <2>1, SheetRunsUnchanged, SheetStayWired DEF SheetQueueStep
  <2> QED
    BY <2>1, <2>2, SheetTablesKept DEF SheetAppliedRight, SheetOthersStay
<1>2. CASE \/ Sheet!ChangeSources \/ Sheet!Prepare \/ Sheet!Save \/ Sheet!RefreshSources
           \/ Sheet!Validate
  <2>1. UNCHANGED <<shRun, shJob>>
    BY <1>2 DEF Sheet!ChangeSources, Sheet!Prepare, Sheet!Save, Sheet!RefreshSources,
       Sheet!Validate, Sheet!Write
  <2> QED
    BY <1>2, <2>1, SheetChangeSourcesKeeps, SheetPrepareKeeps, SheetSaveKeeps,
       SheetRefreshSourcesKeeps, SheetValidateKeeps DEF SheetAppliedRight, SheetCompletedStays,
       SheetQueueStep
<1>3. CASE \E r \in Sheet!Runs : Sheet!Apply(r)
  <2>1. PICK r \in Sheet!Runs : Sheet!Apply(r)
    BY <1>3
  <2>2. /\ SheetInv' /\ shRun[r].content = shSheet.content /\ SheetRunsStay
        /\ \A s \in Sheet!Runs \ {r} : shRun'[s] = shRun[s]
    BY <2>1, SheetApplyKeeps
  <2>3. UNCHANGED shJob
    BY <2>1 DEF Sheet!Apply, Sheet!Write
  <2> QED
    BY <2>2, <2>3 DEF SheetAppliedRight, SheetCompletedStays, SheetRunsStay, SheetQueueStep
<1>4. ASSUME NEW q \in Requests, Sheet!RequestStep(q)
      PROVE  SheetInv' /\ SheetAppliedRight /\ SheetCompletedStays /\ SheetQueueStep
  <2>1. CASE Sheet!Enqueue(q) \/ Sheet!EnqueueFails(q) \/ Sheet!RequestEnds(q)
    BY <2>1, SheetQuietRequestStep DEF SheetStepOK, SheetOthersStay, SheetAppliedRight
  <2>2. CASE Sheet!Launch(q)
    BY <2>2, SheetLaunchKeeps DEF SheetAppliedRight, SheetQueueStep
  <2> QED
    BY <1>4, <2>1, <2>2 DEF Sheet!RequestStep
<1>5. ASSUME NEW w \in SheetSlots, Sheet!Proceed(w) \/ Sheet!Crash(w)
      PROVE  SheetInv' /\ SheetAppliedRight /\ SheetCompletedStays /\ SheetQueueStep
  <2>1. CASE Sheet!EndJob(w) \/ Sheet!Crash(w)
    <3>1. shSlot[w].run \in Sheet!Runs
      BY <2>1, SheetRunAtWork DEF Sheet!EndJob, Sheet!Crash, Sheet!Analysis!EndJob,
         Sheet!Analysis!Crash
    <3> QED
      BY <2>1, <3>1, SheetJobStep DEF SheetStepOK, SheetOthersStay, SheetAppliedRight
  <2>2. CASE \/ Sheet!ClaimRun(w) \/ Sheet!Generate(w) \/ Sheet!Persist(w) \/ Sheet!PersistDone(w)
             \/ Sheet!PersistFails(w) \/ Sheet!FailRun(w)
    BY <2>2, SheetSlotStep DEF SheetStepOK, SheetOthersStay, SheetAppliedRight
  <2> QED
    BY <1>5, <2>1, <2>2 DEF Sheet!Proceed
<1>6. ASSUME NEW r \in Sheet!Runs, Sheet!Stall(r) \/ \E w \in SheetSlots : Sheet!TakeJob(w, r)
      PROVE  SheetInv' /\ SheetAppliedRight /\ SheetCompletedStays /\ SheetQueueStep
  BY <1>6, SheetJobStep DEF SheetStepOK, SheetOthersStay, SheetAppliedRight
<1> QED
  BY <1>1, <1>2, <1>3, <1>4, <1>5, <1>6 DEF Sheet!Next, Sheet!WriteStep

LEMMA SheetInvariantTypes ==
    ASSUME SheetInv
    PROVE  Sheet!TypeOK
<1>1. Sheet!Analysis!Queue!TypeOK
  BY DEF SheetInv, SheetA!Wired, SheetA!JobsTyped, SheetA!JobRecords,
     Sheet!Analysis!Queue!TypeOK
<1>2. shRequest \in [Requests -> Sheet!Analysis!RequestTypes({})]
  BY DEF SheetInv, SheetA!Wired, SheetA!RequestsWired, SheetA!RequestTypes,
     Sheet!Analysis!RequestTypes
<1>3. shSlot \in [SheetSlots -> Sheet!Analysis!SlotTypes({})]
  BY DEF SheetInv, SheetA!Wired, SheetA!SlotsWired, SheetA!SlotTypes, Sheet!Analysis!SlotTypes
<1> QED
  BY <1>1, <1>2, <1>3 DEF SheetInv, SheetTyped, SheetRows, SheetVersions, SheetRuns,
     Sheet!TypeOK

\* The queue of SheetA is that of the sheets.
LEMMA SheetSameQueue ==
    /\ SheetA!Queue!Delivery!Init <=> Sheet!Analysis!Queue!Delivery!Init
    /\ [SheetA!Queue!Delivery!Next]_([i \in Sheet!Runs |-> SheetA!Queue!Progress(shJob[i])])
       <=> [Sheet!Analysis!Queue!Delivery!Next]_([i \in Sheet!Runs |-> Sheet!Analysis!Queue!Progress(shJob[i])])
BY Zenon DEF SheetA!Queue!Progress, Sheet!Analysis!Queue!Progress,
  SheetA!Queue!Delivery!Init, Sheet!Analysis!Queue!Delivery!Init, SheetA!Queue!Delivery!Add,
  Sheet!Analysis!Queue!Delivery!Add, SheetA!Queue!Delivery!Deliver,
  Sheet!Analysis!Queue!Delivery!Deliver, SheetA!Queue!Delivery!Complete,
  Sheet!Analysis!Queue!Delivery!Complete, SheetA!Queue!Delivery!GiveUp,
  Sheet!Analysis!Queue!Delivery!GiveUp, SheetA!Queue!Delivery!Next,
  Sheet!Analysis!Queue!Delivery!Next

LEMMA SheetInvariance == Sheet!Spec => []SheetInv
<1>1. Sheet!Init => SheetInv
  BY SheetConstants, SheetStart
<1>2. SheetInv /\ [Sheet!Next]_(Sheet!vars) => SheetInv'
  BY SheetConstants, SheetStepKeeps
<1> QED
  BY <1>1, <1>2, PTL DEF Sheet!Spec

\* What a sheet and its versions retain was decided on the sources shown next to it, for
\* any sources, writes, runs and slots; their tables hold what they can hold.
THEOREM SheetDecisionsAreOnSources == Sheet!Spec => []SheetDecisionsOnSources
<1>1. SheetInv => Sheet!DecisionsOnSources
  BY DEF SheetInv, SheetDecided, SheetVersionsDecided, SheetDecidedOn, Sheet!DecisionsOnSources
<1>2. SheetInv => SheetDecisionsOnSources
  BY <1>1, SheetInvariantTypes DEF SheetDecisionsOnSources
<1> QED
  BY <1>2, SheetInvariance, PTL

\* A proposal is applied to the content of the sheet that its run was launched with, and
\* one that was completed stays completed: no slot and no request takes it back.  A draft
\* of the scope is added to the declaration that it was written from.
THEOREM ProposalsAreKept == Scope!Spec /\ Sheet!Spec => ProposalKept
<1>1. SheetInv /\ [Sheet!Next]_(Sheet!vars) =>
        /\ [\A r \in Sheet!Runs : (~shRun[r].applied /\ shRun'[r].applied) =>
              shRun[r].content = shSheet.content]_(Sheet!vars)
        /\ [\A r \in Sheet!Runs :
              shRun[r].status = "COMPLETED" => shRun'[r].status = "COMPLETED"]_(Sheet!vars)
  BY SheetConstants, SheetStepKeeps DEF SheetAppliedRight, SheetCompletedStays
<1>2. Sheet!Spec => Sheet!AppliedToItsSheet /\ Sheet!ProposalKept
  BY <1>1, SheetInvariance, PTL DEF Sheet!Spec, Sheet!AppliedToItsSheet, Sheet!ProposalKept
<1> QED
  BY <1>2, DraftsFitTheDeclaration DEF ProposalKept

\* The jobs of the sheets make only steps of the queue, which delivers each of them at
\* most once for every attempt and every stall it forgives.
THEOREM SheetJobsAreDelivered == Sheet!Spec => Sheet!Analysis!Queue!DeliveryImplemented
<1>1. Sheet!Init => SheetA!Queue!Init
  BY SheetConstants, SheetStart
<1>2. SheetInv /\ [Sheet!Next]_(Sheet!vars) => [SheetA!Queue!Next]_shJob
  BY SheetConstants, SheetStepKeeps DEF SheetQueueStep
<1>3. SheetA!Queue!Spec => SheetA!Queue!DeliveryImplemented
  BY SheetConstants, SheetQueueParameters, SheetA!DeliveryIsImplemented
<1>4. Sheet!Spec => SheetA!Queue!DeliveryImplemented
  BY <1>1, <1>2, <1>3, SheetInvariance, PTL DEF Sheet!Spec, SheetA!Queue!Spec
<1>5. SheetA!Queue!Delivery!Init <=> Sheet!Analysis!Queue!Delivery!Init
  BY SheetSameQueue
<1>6. [SheetA!Queue!Delivery!Next]_([i \in Sheet!Runs |-> SheetA!Queue!Progress(shJob[i])])
       <=> [Sheet!Analysis!Queue!Delivery!Next]_([i \in Sheet!Runs |-> Sheet!Analysis!Queue!Progress(shJob[i])])
  BY SheetSameQueue
<1> QED
  BY <1>4, <1>5, <1>6, PTL DEF SheetA!Queue!DeliveryImplemented, Sheet!Analysis!Queue!DeliveryImplemented,
     SheetA!Queue!Delivery!Spec, Sheet!Analysis!Queue!Delivery!Spec

-----------------------------------------------------------------------------
(* The composition.                                                        *)

\* The queues of the three documents implement the abstract delivery, for any number of
\* runs, slots, attempts and stalls that are forgiven.
THEOREM DocumentJobsAreDelivered == Spec /\ Scope!Spec /\ Sheet!Spec => DeliveryImplemented
BY JobsAreDelivered, ScopeJobsAreDelivered, SheetJobsAreDelivered, PTL DEF DeliveryImplemented

\* Each document behaves as its module says while the others stay: what is proved of a
\* module holds of it in the composition.
THEOREM DocumentsBehave == MCSpec => Spec /\ Scope!Spec /\ Sheet!Spec
<1>1. MCInit => Init /\ Scope!Init /\ Sheet!Init
  BY DEF MCInit
<1>2. [MCNext]_mcVars => [Next]_vars
  BY DEF MCNext, mcVars
<1>3. [MCNext]_mcVars => [Scope!Next]_(Scope!vars)
  BY DEF MCNext, mcVars, scVars, Scope!vars, Scope!tables
<1>4. [MCNext]_mcVars => [Sheet!Next]_(Sheet!vars)
  BY DEF MCNext, mcVars, shVars, Sheet!vars
<1> QED
  BY <1>1, <1>2, <1>3, <1>4, PTL DEF MCSpec, Spec, Scope!Spec, Sheet!Spec

-----------------------------------------------------------------------------
(* Who is at work on a run of the planning.                                *)

LEMMA SharedWork ==
    /\ \A q : Analysis!EnqueueFails(q) <=> A!EnqueueFails(q)
    /\ \A w : Analysis!MarkRunning(w) <=> A!MarkRunning(w)
    /\ \A w, statuses :
         Analysis!AlreadyPersisted(w, statuses) <=> A!AlreadyPersisted(w, statuses)
    /\ \A w : Analysis!PersistFails(w) <=> A!PersistFails(w)
    /\ \A w : Analysis!FailUnlessCompleted(w) <=> A!FailUnlessCompleted(w)
    /\ Analysis!RunEndsWithItsJob <=> A!RunEndsWithItsJob
BY SharedSteps DEF Analysis!EnqueueFails, A!EnqueueFails,
  Analysis!MarkRunning, A!MarkRunning, Analysis!Done, A!Done,
  Analysis!Free, A!Free,
  Analysis!NoOtherActive, A!NoOtherActive, Analysis!Active, A!Active,
  Analysis!AlreadyPersisted, A!AlreadyPersisted, Analysis!PersistFails,
  A!PersistFails, Analysis!FailUnlessCompleted, A!FailUnlessCompleted,
  Analysis!RunEndsWithItsJob, A!RunEndsWithItsJob, Analysis!Ended, A!Ended

LEMMA RunsAreRows ==
    ASSUME IInv
    PROVE  A!RunsAreRows
BY DEF IInv, Inputs, RunRows, A!RunsAreRows

LEMMA WorkSteps ==
    ASSUME IInv, [Next]_vars
    PROVE  A!WorkStep /\ (A!EndedKept \/ \E w \in Slots : A!MarkRunning(w))
<1>w. A!Wired({}, {}) /\ A!RunsAreRows
  BY RunsAreRows DEF IInv
<1>1. CASE UNCHANGED vars \/ WriteStep
  <2>1. UNCHANGED <<job, slot>>
    BY <1>1 DEF vars, Write, WriteStep, ChangeSources, ReviewSources, Save, Apply, Validate
  <2>2. A!EndedKept
    <3>1. CASE UNCHANGED run
      BY <3>1 DEF A!EndedKept
    <3>2. ASSUME NEW r \in Runs, Apply(r)
          PROVE  A!EndedKept
      BY <3>2 DEF Apply, A!EndedKept, IInv, Inputs, RunRows
    <3> QED
      BY <1>1, <3>1, <3>2 DEF vars, Write, WriteStep, ChangeSources, ReviewSources, Save, Validate
  <2> QED
    BY <2>1, <2>2 DEF A!WorkStep
<1>2. ASSUME NEW q \in Requests, RequestStep(q)
      PROVE  A!WorkStep /\ A!EndedKept
  <2>1. CASE EnqueueFails(q)
    <3>1. A!EnqueueFails(q)
      BY <2>1, SharedWork DEF EnqueueFails
    <3> QED
      BY <1>w, <3>1, A!FailedRequest
  <2>2. CASE \E stage \in Stages : Launch(q, stage)
    <3>1. PICK row : row.status = "DRAFT" /\ A!Create(q, row)
      BY <2>2, SharedSteps DEF Launch, NoRun
    <3>2. UNCHANGED <<job, slot>>
      BY <2>2 DEF Launch
    <3> QED
      BY <1>w, <3>1, <3>2, A!RequestsAtWork
  <2>3. CASE Enqueue(q) \/ RequestEnds(q)
    <3>1. UNCHANGED slot /\ (A!Enqueue(q) \/ UNCHANGED <<run, job>>)
      BY <2>3, SharedSteps DEF Enqueue, RequestEnds, A!Enqueue,
         Analysis!RequestEnds
    <3> QED
      BY <1>w, <3>1, A!RequestsAtWork
  <2> QED
    BY <1>2, <2>1, <2>2, <2>3 DEF RequestStep
<1>3. ASSUME NEW w \in Slots, MarkRunning(w)
      PROVE  A!WorkStep /\ A!MarkRunning(w)
  BY <1>w, <1>3, SharedWork, A!SlotsAtWork DEF MarkRunning
<1>4. ASSUME NEW w \in Slots, Proceed(w), ~MarkRunning(w)
      PROVE  A!WorkStep /\ A!EndedKept
  <2>1. CASE Generate(w)
    <3>1. /\ slot[w].pc # "idle" /\ UNCHANGED <<run, job>>
          /\ \E pc \in {"persist", "fail"} : A!Goto(w, pc)
      BY <2>1, SharedSteps DEF Generate
    <3>2. A!WorkStep
      BY <1>w, <3>1, A!GoesOn
    <3> QED
      BY <3>1, <3>2 DEF A!EndedKept
  <2>2. CASE Persist(w)
    <3>1. /\ slot[w].pc # "idle" /\ UNCHANGED job /\ A!Goto(w, "end")
          /\ slot[w].run \in Runs
      BY <1>w, <2>2, SharedSteps, A!RunAtWork DEF Persist
    <3>2. run[slot[w].run] \in RunRows /\ "COMPLETED" \in A!Ended
      BY <3>1 DEF IInv, Inputs, A!Ended
    <3>3. PICK row : row.status = "COMPLETED" /\ run' = [run EXCEPT ![slot[w].run] = row]
      <4> DEFINE row == [run[slot[w].run] EXCEPT !.status = "COMPLETED", !.output = TRUE]
      <4>1. row.status = "COMPLETED" /\ run' = [run EXCEPT ![slot[w].run] = row]
        BY <2>2, <3>2 DEF Persist, RunRows
      <4> HIDE DEF row
      <4> QED
        BY <4>1
    <3> QED
      BY <1>w, <3>1, <3>2, <3>3, A!ResultAtWork
  <2>3. CASE PersistDone(w)
    <3>1. A!AlreadyPersisted(w, A!Ended) /\ A!Ended \in SUBSET A!Ended
      BY <2>3, SharedWork DEF PersistDone, Analysis!Ended, A!Ended
    <3> QED
      BY <1>w, <3>1, A!SlotsAtWork
  <2>4. CASE PersistFails(w) \/ FailRun(w)
    <3>1. A!PersistFails(w) \/ A!FailUnlessCompleted(w)
      BY <2>4, SharedWork DEF PersistFails, FailRun
    <3> QED
      BY <1>w, <3>1, A!SlotsAtWork
  <2>5. CASE EndJob(w)
    <3>1. A!EndJob(w)
      BY <2>5, SharedSteps DEF EndJob
    <3> QED
      BY <1>w, <3>1, A!RunAtWork, A!JobsAtWork DEF A!EndJob
  <2> QED
    BY <1>4, <2>1, <2>2, <2>3, <2>4, <2>5 DEF Proceed
<1>5. ASSUME NEW r \in Runs, Stall(r) \/ \E w \in Slots : TakeJob(w, r)
      PROVE  A!WorkStep /\ A!EndedKept
  <2>1. A!Stall(r) \/ \E w \in Slots : A!TakeJob(w, r)
    BY <1>5, SharedSteps DEF Stall, TakeJob
  <2> QED
    BY <2>1, A!JobsAtWork
<1>6. ASSUME NEW w \in Slots, Crash(w)
      PROVE  A!WorkStep /\ A!EndedKept
  <2>1. A!Crash(w)
    BY <1>6, SharedSteps DEF Crash
  <2> QED
    BY <1>w, <2>1, A!RunAtWork, A!JobsAtWork DEF A!Crash
<1> QED
  BY <1>1, <1>2, <1>3, <1>4, <1>5, <1>6 DEF Next

\* When the queue has completed the job of a proposal for the planning, and gave it to no
\* second slot meanwhile, the run has ended.
THEOREM RunsEndWithTheirJobs == Spec => []Analysis!RunEndsWithItsJob
<1> DEFINE AtWork == A!AllHeld /\ A!SettledUnlessStalled
<1>1. Init => IInv /\ AtWork
  <2>1. Init => A!Init
    BY SharedSteps DEF Init
  <2> QED
    BY <2>1, Starts, A!NobodyAtWork
<1>2. IInv /\ AtWork /\ [Next]_vars => IInv' /\ AtWork'
  <2> SUFFICES ASSUME IInv, AtWork, [Next]_vars
               PROVE  IInv' /\ AtWork'
    OBVIOUS
  <2>1. A!WorkStep /\ (A!EndedKept \/ \E w \in Slots : A!MarkRunning(w))
    BY WorkSteps
  <2>2. A!Wired({}, {}) /\ run \in [Runs -> RunRows]
    BY DEF IInv, Inputs
  <2> QED
    BY <2>1, <2>2, StepKeeps, A!HeldKept, A!UnlessStalledKept
<1>3. AtWork => Analysis!RunEndsWithItsJob
  <2>1. AtWork => A!RunEndsWithItsJob
    BY DEF A!SettledUnlessStalled, A!Settled, A!RunEndsWithItsJob
  <2> QED
    BY <2>1, SharedWork
<1> HIDE DEF AtWork
<1> QED
  BY <1>1, <1>2, <1>3, PTL DEF Spec

-----------------------------------------------------------------------------
(* Who is at work on a run of the scope statement.                         *)

LEMMA ScopeSharedWork ==
    /\ \A q : Scope!Analysis!EnqueueFails(q) <=> ScopeA!EnqueueFails(q)
    /\ \A w : Scope!Analysis!MarkRunning(w) <=> ScopeA!MarkRunning(w)
    /\ \A w, statuses :
         Scope!Analysis!AlreadyPersisted(w, statuses) <=> ScopeA!AlreadyPersisted(w, statuses)
    /\ \A w : Scope!Analysis!PersistFails(w) <=> ScopeA!PersistFails(w)
    /\ \A w : Scope!Analysis!FailRun(w) <=> ScopeA!FailRun(w)
    /\ Scope!Analysis!RunEndsWithItsJob <=> ScopeA!RunEndsWithItsJob
BY ScopeSharedSteps DEF Scope!Analysis!EnqueueFails, ScopeA!EnqueueFails,
  Scope!Analysis!MarkRunning, ScopeA!MarkRunning, Scope!Analysis!Done, ScopeA!Done,
  Scope!Analysis!Free, ScopeA!Free,
  Scope!Analysis!NoOtherActive, ScopeA!NoOtherActive, Scope!Analysis!Active, ScopeA!Active,
  Scope!Analysis!AlreadyPersisted, ScopeA!AlreadyPersisted, Scope!Analysis!PersistFails,
  ScopeA!PersistFails, Scope!Analysis!FailRun, ScopeA!FailRun,
  Scope!Analysis!RunEndsWithItsJob, ScopeA!RunEndsWithItsJob, Scope!Analysis!Ended, ScopeA!Ended

LEMMA ScopeRunsAreRows ==
    ASSUME ScopeInv
    PROVE  ScopeA!RunsAreRows
BY DEF ScopeInv, ScopeTyped, ScopeRuns, ScopeA!RunsAreRows

LEMMA ScopeWorkSteps ==
    ASSUME ScopeInv, [Scope!Next]_(Scope!vars)
    PROVE  ScopeA!WorkStep /\ (ScopeA!EndedKept \/ \E w \in Slots : ScopeA!MarkRunning(w))
<1>w. ScopeA!Wired({}, {}) /\ ScopeA!RunsAreRows
  BY ScopeRunsAreRows DEF ScopeInv
<1>1. CASE UNCHANGED Scope!vars \/ Scope!WriteStep
  BY <1>1 DEF Scope!vars, Scope!Write, Scope!WriteStep, Scope!ChangeFacts, Scope!Declare,
     Scope!Verify, Scope!EditStatement, Scope!ValidateStatement, ScopeA!WorkStep,
     ScopeA!EndedKept
<1>2. ASSUME NEW q \in Requests, Scope!RequestStep(q)
      PROVE  ScopeA!WorkStep /\ ScopeA!EndedKept
  <2>1. CASE Scope!EnqueueFails(q)
    <3>1. ScopeA!EnqueueFails(q)
      BY <2>1, ScopeSharedWork DEF Scope!EnqueueFails
    <3> QED
      BY <1>w, <3>1, ScopeA!FailedRequest
  <2>2. CASE Scope!Launch(q)
    <3>1. PICK row : row.status = "DRAFT" /\ ScopeA!Create(q, row)
      BY <2>2, ScopeSharedSteps DEF Scope!Launch
    <3>2. UNCHANGED <<scJob, scSlot>>
      BY <2>2 DEF Scope!Launch
    <3> QED
      BY <1>w, <3>1, <3>2, ScopeA!RequestsAtWork
  <2>3. CASE Scope!Enqueue(q) \/ Scope!RequestEnds(q)
    <3>1. UNCHANGED scSlot /\ (ScopeA!Enqueue(q) \/ UNCHANGED <<scRun, scJob>>)
      BY <2>3, ScopeSharedSteps DEF Scope!Enqueue, Scope!RequestEnds, ScopeA!Enqueue,
         Scope!Analysis!RequestEnds
    <3> QED
      BY <1>w, <3>1, ScopeA!RequestsAtWork
  <2> QED
    BY <1>2, <2>1, <2>2, <2>3 DEF Scope!RequestStep
<1>3. ASSUME NEW w \in Slots, Scope!MarkRunning(w)
      PROVE  ScopeA!WorkStep /\ ScopeA!MarkRunning(w)
  BY <1>w, <1>3, ScopeSharedWork, ScopeA!SlotsAtWork DEF Scope!MarkRunning
<1>4. ASSUME NEW w \in Slots, Scope!Proceed(w), ~Scope!MarkRunning(w)
      PROVE  ScopeA!WorkStep /\ ScopeA!EndedKept
  <2>1. CASE Scope!Generate(w)
    <3>1. /\ scSlot[w].pc # "idle" /\ UNCHANGED <<scRun, scJob>>
          /\ \E pc \in {"persist", "fail"} : ScopeA!Goto(w, pc)
      BY <2>1, ScopeSharedSteps DEF Scope!Generate
    <3>2. ScopeA!WorkStep
      BY <1>w, <3>1, ScopeA!GoesOn
    <3> QED
      BY <3>1, <3>2 DEF ScopeA!EndedKept
  <2>2. CASE Scope!Persist(w)
    <3>1. /\ scSlot[w].pc # "idle" /\ UNCHANGED scJob /\ ScopeA!Goto(w, "end")
          /\ scSlot[w].run \in Scope!Runs
      BY <1>w, <2>2, ScopeSharedSteps, ScopeA!RunAtWork DEF Scope!Persist
    <3>2. scRun[scSlot[w].run] \in ScopeRuns /\ "COMPLETED" \in ScopeA!Ended
      BY <3>1 DEF ScopeInv, ScopeTyped, ScopeA!Ended
    <3>3. PICK row : row.status = "COMPLETED" /\ scRun' = [scRun EXCEPT ![scSlot[w].run] = row]
      <4> DEFINE row == [scRun[scSlot[w].run] EXCEPT !.status = "COMPLETED"]
      <4>1. row.status = "COMPLETED" /\ scRun' = [scRun EXCEPT ![scSlot[w].run] = row]
        BY <2>2, <3>2 DEF Scope!Persist, ScopeRuns
      <4> HIDE DEF row
      <4> QED
        BY <4>1
    <3> QED
      BY <1>w, <3>1, <3>2, <3>3, ScopeA!ResultAtWork
  <2>3. CASE Scope!PersistDone(w)
    <3>1. ScopeA!AlreadyPersisted(w, {"COMPLETED"}) /\ {"COMPLETED"} \in SUBSET ScopeA!Ended
      BY <2>3, ScopeSharedWork DEF Scope!PersistDone, Scope!Analysis!Ended, ScopeA!Ended
    <3> QED
      BY <1>w, <3>1, ScopeA!SlotsAtWork
  <2>4. CASE Scope!PersistFails(w) \/ Scope!FailRun(w)
    <3>1. ScopeA!PersistFails(w) \/ ScopeA!FailRun(w)
      BY <2>4, ScopeSharedWork DEF Scope!PersistFails, Scope!FailRun
    <3> QED
      BY <1>w, <3>1, ScopeA!SlotsAtWork
  <2>5. CASE Scope!EndJob(w)
    <3>1. ScopeA!EndJob(w)
      BY <2>5, ScopeSharedSteps DEF Scope!EndJob
    <3> QED
      BY <1>w, <3>1, ScopeA!RunAtWork, ScopeA!JobsAtWork DEF ScopeA!EndJob
  <2> QED
    BY <1>4, <2>1, <2>2, <2>3, <2>4, <2>5 DEF Scope!Proceed
<1>5. ASSUME NEW r \in Scope!Runs, Scope!Stall(r) \/ \E w \in Slots : Scope!TakeJob(w, r)
      PROVE  ScopeA!WorkStep /\ ScopeA!EndedKept
  <2>1. ScopeA!Stall(r) \/ \E w \in Slots : ScopeA!TakeJob(w, r)
    BY <1>5, ScopeSharedSteps DEF Scope!Stall, Scope!TakeJob
  <2> QED
    BY <2>1, ScopeA!JobsAtWork
<1>6. ASSUME NEW w \in Slots, Scope!Crash(w)
      PROVE  ScopeA!WorkStep /\ ScopeA!EndedKept
  <2>1. ScopeA!Crash(w)
    BY <1>6, ScopeSharedSteps DEF Scope!Crash
  <2> QED
    BY <1>w, <2>1, ScopeA!RunAtWork, ScopeA!JobsAtWork DEF ScopeA!Crash
<1> QED
  BY <1>1, <1>2, <1>3, <1>4, <1>5, <1>6 DEF Scope!Next

\* When the queue has completed the job of a draft of the scope statement, and gave it to
\* no second slot meanwhile, the run has ended.
THEOREM ScopeRunsEndWithTheirJobs == Scope!Spec => []Scope!Analysis!RunEndsWithItsJob
<1> DEFINE AtWork == ScopeA!AllHeld /\ ScopeA!SettledUnlessStalled
<1>1. Scope!Init => ScopeInv /\ AtWork
  <2>1. Scope!Init => ScopeA!Init
    BY ScopeSharedSteps DEF Scope!Init
  <2> QED
    BY <2>1, ScopeStart, ScopeA!NobodyAtWork
<1>2. ScopeInv /\ AtWork /\ [Scope!Next]_(Scope!vars) => ScopeInv' /\ AtWork'
  <2> SUFFICES ASSUME ScopeInv, AtWork, [Scope!Next]_(Scope!vars)
               PROVE  ScopeInv' /\ AtWork'
    OBVIOUS
  <2>1. ScopeA!WorkStep /\ (ScopeA!EndedKept \/ \E w \in Slots : ScopeA!MarkRunning(w))
    BY ScopeWorkSteps
  <2>2. ScopeA!Wired({}, {}) /\ scRun \in [Scope!Runs -> ScopeRuns]
    BY DEF ScopeInv, ScopeTyped
  <2> QED
    BY <2>1, <2>2, ScopeStepKeeps, ScopeA!HeldKept, ScopeA!UnlessStalledKept
<1>3. AtWork => Scope!Analysis!RunEndsWithItsJob
  <2>1. AtWork => ScopeA!RunEndsWithItsJob
    BY DEF ScopeA!SettledUnlessStalled, ScopeA!Settled, ScopeA!RunEndsWithItsJob
  <2> QED
    BY <2>1, ScopeSharedWork
<1> HIDE DEF AtWork
<1> QED
  BY <1>1, <1>2, <1>3, PTL DEF Scope!Spec

-----------------------------------------------------------------------------
(* Who is at work on a run of the process sheets.                          *)

LEMMA SheetSharedWork ==
    /\ \A q : Sheet!Analysis!EnqueueFails(q) <=> SheetA!EnqueueFails(q)
    /\ \A w : Sheet!Analysis!ClaimRun(w) <=> SheetA!ClaimRun(w)
    /\ \A w, statuses :
         Sheet!Analysis!AlreadyPersisted(w, statuses) <=> SheetA!AlreadyPersisted(w, statuses)
    /\ \A w : Sheet!Analysis!PersistFails(w) <=> SheetA!PersistFails(w)
    /\ \A w : Sheet!Analysis!FailUnlessCompleted(w) <=> SheetA!FailUnlessCompleted(w)
    /\ Sheet!Analysis!RunEndsWithItsJob <=> SheetA!RunEndsWithItsJob
BY SheetSharedSteps DEF Sheet!Analysis!EnqueueFails, SheetA!EnqueueFails,
  Sheet!Analysis!ClaimRun, SheetA!ClaimRun, Sheet!Analysis!Done, SheetA!Done,
  Sheet!Analysis!Free, SheetA!Free,
  Sheet!Analysis!NoOtherActive, SheetA!NoOtherActive, Sheet!Analysis!Active, SheetA!Active,
  Sheet!Analysis!AlreadyPersisted, SheetA!AlreadyPersisted, Sheet!Analysis!PersistFails,
  SheetA!PersistFails, Sheet!Analysis!FailUnlessCompleted, SheetA!FailUnlessCompleted,
  Sheet!Analysis!RunEndsWithItsJob, SheetA!RunEndsWithItsJob, Sheet!Analysis!Ended, SheetA!Ended

LEMMA SheetRunsAreRows ==
    ASSUME SheetInv
    PROVE  SheetA!RunsAreRows
BY DEF SheetInv, SheetTyped, SheetRuns, SheetA!RunsAreRows

LEMMA SheetWorkSteps ==
    ASSUME SheetInv, [Sheet!Next]_(Sheet!vars)
    PROVE  SheetA!WorkStep /\ SheetA!EndedKept
<1>w. SheetA!Wired({}, {}) /\ SheetA!RunsAreRows
  BY SheetRunsAreRows DEF SheetInv
<1>1. CASE UNCHANGED Sheet!vars \/ Sheet!WriteStep
  <2>1. UNCHANGED <<shJob, shSlot>>
    BY <1>1 DEF Sheet!vars, Sheet!Write, Sheet!WriteStep, Sheet!ChangeSources, Sheet!Prepare,
       Sheet!Save, Sheet!RefreshSources, Sheet!Apply, Sheet!Validate
  <2>2. SheetA!EndedKept
    <3>1. CASE UNCHANGED shRun
      BY <3>1 DEF SheetA!EndedKept
    <3>2. ASSUME NEW r \in Sheet!Runs, Sheet!Apply(r)
          PROVE  SheetA!EndedKept
      BY <3>2 DEF Sheet!Apply, SheetA!EndedKept, SheetInv, SheetTyped, SheetRuns
    <3> QED
      BY <1>1, <3>1, <3>2 DEF Sheet!vars, Sheet!Write, Sheet!WriteStep, Sheet!ChangeSources,
         Sheet!Prepare, Sheet!Save, Sheet!RefreshSources, Sheet!Validate
  <2> QED
    BY <2>1, <2>2 DEF SheetA!WorkStep
<1>2. ASSUME NEW q \in Requests, Sheet!RequestStep(q)
      PROVE  SheetA!WorkStep /\ SheetA!EndedKept
  <2>1. CASE Sheet!EnqueueFails(q)
    <3>1. SheetA!EnqueueFails(q)
      BY <2>1, SheetSharedWork DEF Sheet!EnqueueFails
    <3> QED
      BY <1>w, <3>1, SheetA!FailedRequest
  <2>2. CASE Sheet!Launch(q)
    <3>1. PICK row : row.status = "DRAFT" /\ SheetA!Create(q, row)
      BY <2>2, SheetSharedSteps DEF Sheet!Launch, Sheet!NoRun
    <3>2. UNCHANGED <<shJob, shSlot>>
      BY <2>2 DEF Sheet!Launch
    <3> QED
      BY <1>w, <3>1, <3>2, SheetA!RequestsAtWork
  <2>3. CASE Sheet!Enqueue(q) \/ Sheet!RequestEnds(q)
    <3>1. UNCHANGED shSlot /\ (SheetA!Enqueue(q) \/ UNCHANGED <<shRun, shJob>>)
      BY <2>3, SheetSharedSteps DEF Sheet!Enqueue, Sheet!RequestEnds, SheetA!Enqueue,
         Sheet!Analysis!RequestEnds
    <3> QED
      BY <1>w, <3>1, SheetA!RequestsAtWork
  <2> QED
    BY <1>2, <2>1, <2>2, <2>3 DEF Sheet!RequestStep
<1>3. ASSUME NEW w \in SheetSlots, Sheet!ClaimRun(w)
      PROVE  SheetA!WorkStep /\ SheetA!EndedKept
  BY <1>w, <1>3, SheetSharedWork, SheetA!SlotsAtWork DEF Sheet!ClaimRun
<1>4. ASSUME NEW w \in SheetSlots, Sheet!Proceed(w), ~Sheet!ClaimRun(w)
      PROVE  SheetA!WorkStep /\ SheetA!EndedKept
  <2>1. CASE Sheet!Generate(w)
    <3>1. /\ shSlot[w].pc # "idle" /\ UNCHANGED <<shRun, shJob>>
          /\ \E pc \in {"persist", "fail"} : SheetA!Goto(w, pc)
      BY <2>1, SheetSharedSteps DEF Sheet!Generate
    <3>2. SheetA!WorkStep
      BY <1>w, <3>1, SheetA!GoesOn
    <3> QED
      BY <3>1, <3>2 DEF SheetA!EndedKept
  <2>2. CASE Sheet!Persist(w)
    <3>1. /\ shSlot[w].pc # "idle" /\ UNCHANGED shJob /\ SheetA!Goto(w, "end")
          /\ shSlot[w].run \in Sheet!Runs
      BY <1>w, <2>2, SheetSharedSteps, SheetA!RunAtWork DEF Sheet!Persist
    <3>2. shRun[shSlot[w].run] \in SheetRuns /\ "COMPLETED" \in SheetA!Ended
      BY <3>1 DEF SheetInv, SheetTyped, SheetA!Ended
    <3>3. PICK row : row.status = "COMPLETED" /\ shRun' = [shRun EXCEPT ![shSlot[w].run] = row]
      <4> DEFINE row == [shRun[shSlot[w].run] EXCEPT !.status = "COMPLETED", !.output = TRUE]
      <4>1. row.status = "COMPLETED" /\ shRun' = [shRun EXCEPT ![shSlot[w].run] = row]
        BY <2>2, <3>2 DEF Sheet!Persist, SheetRuns
      <4> HIDE DEF row
      <4> QED
        BY <4>1
    <3> QED
      BY <1>w, <3>1, <3>2, <3>3, SheetA!ResultAtWork
  <2>3. CASE Sheet!PersistDone(w)
    <3>1. SheetA!AlreadyPersisted(w, SheetA!Ended) /\ SheetA!Ended \in SUBSET SheetA!Ended
      BY <2>3, SheetSharedWork DEF Sheet!PersistDone, Sheet!Analysis!Ended, SheetA!Ended
    <3> QED
      BY <1>w, <3>1, SheetA!SlotsAtWork
  <2>4. CASE Sheet!PersistFails(w) \/ Sheet!FailRun(w)
    <3>1. SheetA!PersistFails(w) \/ SheetA!FailUnlessCompleted(w)
      BY <2>4, SheetSharedWork DEF Sheet!PersistFails, Sheet!FailRun
    <3> QED
      BY <1>w, <3>1, SheetA!SlotsAtWork
  <2>5. CASE Sheet!EndJob(w)
    <3>1. SheetA!EndJob(w)
      BY <2>5, SheetSharedSteps DEF Sheet!EndJob
    <3> QED
      BY <1>w, <3>1, SheetA!RunAtWork, SheetA!JobsAtWork DEF SheetA!EndJob
  <2> QED
    BY <1>4, <2>1, <2>2, <2>3, <2>4, <2>5 DEF Sheet!Proceed
<1>5. ASSUME NEW r \in Sheet!Runs, Sheet!Stall(r) \/ \E w \in SheetSlots : Sheet!TakeJob(w, r)
      PROVE  SheetA!WorkStep /\ SheetA!EndedKept
  <2>1. SheetA!Stall(r) \/ \E w \in SheetSlots : SheetA!TakeJob(w, r)
    BY <1>5, SheetSharedSteps DEF Sheet!Stall, Sheet!TakeJob
  <2> QED
    BY <2>1, SheetA!JobsAtWork
<1>6. ASSUME NEW w \in SheetSlots, Sheet!Crash(w)
      PROVE  SheetA!WorkStep /\ SheetA!EndedKept
  <2>1. SheetA!Crash(w)
    BY <1>6, SheetSharedSteps DEF Sheet!Crash
  <2> QED
    BY <1>w, <2>1, SheetA!RunAtWork, SheetA!JobsAtWork DEF SheetA!Crash
<1> QED
  BY <1>1, <1>2, <1>3, <1>4, <1>5, <1>6 DEF Sheet!Next

\* When the queue has completed the job of a proposal for a sheet, the run has ended, also
\* when the job was given to a second slot meanwhile: a slot claims the run or leaves it.
THEOREM SheetRunsEndWithTheirJobs == Sheet!Spec => []Sheet!RunEndsWithItsJob
<1> DEFINE AtWork == SheetA!AllSettled
<1>1. Sheet!Init => SheetInv /\ AtWork
  <2>1. Sheet!Init => SheetA!Init
    BY SheetSharedSteps DEF Sheet!Init
  <2> QED
    BY <2>1, SheetConstants, SheetStart, SheetA!NobodyAtWork
<1>2. SheetInv /\ AtWork /\ [Sheet!Next]_(Sheet!vars) => SheetInv' /\ AtWork'
  <2> SUFFICES ASSUME SheetInv, AtWork, [Sheet!Next]_(Sheet!vars)
               PROVE  SheetInv' /\ AtWork'
    OBVIOUS
  <2>1. SheetA!WorkStep /\ SheetA!EndedKept
    BY SheetWorkSteps
  <2>2. SheetA!Wired({}, {}) /\ shRun \in [Sheet!Runs -> SheetRuns]
    BY DEF SheetInv, SheetTyped
  <2> QED
    BY <2>1, <2>2, SheetConstants, SheetStepKeeps, SheetA!SettledKept
<1>3. AtWork => Sheet!RunEndsWithItsJob
  BY DEF SheetA!AllSettled, SheetA!Settled, SheetA!Ended, Sheet!RunEndsWithItsJob,
     Sheet!Analysis!Ended
<1> HIDE DEF AtWork
<1> QED
  BY <1>1, <1>2, <1>3, PTL DEF Sheet!Spec
=============================================================================
