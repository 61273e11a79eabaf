------------------------- MODULE PipRegister_proofs -------------------------
(***************************************************************************)
(* What holds of PipRegister for all parties, services, runs and slots;    *)
(* and, at the end, what RoRegister_proofs shows of the other register of  *)
(* MCSmq.                                                                  *)
(*                                                                         *)
(* The inductive invariant says, beside the types and the wiring of the    *)
(* queue, that a run whose revision is the current one was launched with   *)
(* the register as it is now.                                              *)
(***************************************************************************)
EXTENDS MCSmq, SequenceTheorems, TLAPS

A == INSTANCE AnalysisRun_proofs

StateRows ==
    [revision : Nat, method : Methods \cup {"both"}, fingerprint : Nat \cup {None},
     validated : BOOLEAN, limit : Nat]

RowsTyped ==
    /\ party \in [Parties -> PartyRows \cup {None}]
    /\ requirement \in [Parties -> RequirementRows \cup {None}]
    /\ evaluation \in [Parties -> Seq(EvaluationRows)]

Typed ==
    /\ material \in Nat /\ state \in StateRows /\ RowsTyped
    /\ run \in [Runs -> RunRecords]

\* Only a party that is there is evaluated.
EvaluatedPartiesExist == \A k \in Parties : party[k] = None => evaluation[k] = <<>>

\* A run of the current revision was given the register as it is now.
RunInput(r) ==
    run[r].status # "none" =>
      /\ run[r].revision <= state.revision
      /\ run[r].revision = state.revision =>
           run[r].parties = RetainedRows /\ run[r].method = state.method

Inputs == \A r \in Runs : RunInput(r)

Decisions == EvaluatedPartiesExist /\ EvaluationUpToDate /\ ValidatedComplete

IInv == Typed /\ Inputs /\ Decisions /\ A!Wired(Nat, {})

-----------------------------------------------------------------------------
(* The steps that this module shares with the other analyses.              *)

LEMMA SharedQueue ==
    /\ \A r : Analysis!Queue!Add(r) <=> A!Queue!Add(r)
    /\ \A r, w : Analysis!Queue!Take(r, w) <=> A!Queue!Take(r, w)
    /\ \A r, w : Analysis!Queue!Complete(r, w) <=> A!Queue!Complete(r, w)
    /\ \A r, w : Analysis!Queue!Throw(r, w) <=> A!Queue!Throw(r, w)
    /\ \A r : Analysis!Queue!Stall(r) <=> A!Queue!Stall(r)
    /\ Analysis!Queue!Init <=> A!Queue!Init
BY DEF Analysis!Queue!Add, A!Queue!Add, Analysis!Queue!Added, A!Queue!Added,
       Analysis!Queue!Take, A!Queue!Take, Analysis!Queue!Taken, A!Queue!Taken,
       Analysis!Queue!Complete, A!Queue!Complete, Analysis!Queue!Completed, A!Queue!Completed,
       Analysis!Queue!Throw, A!Queue!Throw, Analysis!Queue!Thrown, A!Queue!Thrown,
       Analysis!Queue!Stall, A!Queue!Stall, Analysis!Queue!Recovered, A!Queue!Recovered,
       Analysis!Queue!Init, A!Queue!Init, Analysis!Queue!NoJob, A!Queue!NoJob
       
LEMMA SharedSteps ==
    /\ Analysis!Init <=> A!Init
    /\ \A q, x : Analysis!Read(q, x) <=> A!Read(q, x)
    /\ \A q : Analysis!Done(q) <=> A!Done(q)
    /\ \A q, x : Analysis!Create(q, x) <=> A!Create(q, x)
    /\ \A q : Analysis!Enqueue(q) <=> A!Enqueue(q)
    /\ \A w, r : Analysis!TakeJob(w, r) <=> A!TakeJob(w, r)
    /\ \A w, pc : Analysis!Goto(w, pc) <=> A!Goto(w, pc)
    /\ \A w : Analysis!EndJob(w) <=> A!EndJob(w)
    /\ \A w : Analysis!Crash(w) <=> A!Crash(w)
    /\ \A r : Analysis!Stall(r) <=> A!Stall(r)
BY SharedQueue DEF Analysis!Init, A!Init, Analysis!Free, A!Free, Analysis!Idle, A!Idle,
  Analysis!Read, A!Read, Analysis!Done, A!Done, Analysis!Create, A!Create,
  Analysis!IsNext, A!IsNext,
  Analysis!Enqueue, A!Enqueue, Analysis!TakeJob, A!TakeJob, Analysis!Goto, A!Goto,
  Analysis!Ended, A!Ended,
  Analysis!EndJob, A!EndJob, Analysis!Crash, A!Crash, Analysis!Stall, A!Stall

LEMMA Parameters == A!Parameters
BY PipAssumption DEF A!Parameters

-----------------------------------------------------------------------------
(* The register.                                                           *)

LEMMA EvaluationSeq ==
    ASSUME RowsTyped, NEW k \in Parties
    PROVE  /\ evaluation[k] \in Seq(EvaluationRows)
           /\ Len(evaluation[k]) \in Nat /\ DOMAIN evaluation[k] = 1..Len(evaluation[k])
           /\ \A i \in DOMAIN evaluation[k] : evaluation[k][i] \in EvaluationRows
           /\ evaluation[k] # <<>> => Len(evaluation[k]) \in DOMAIN evaluation[k]
BY DEF RowsTyped

\* A new decision is asked for; nothing else of an evaluation changes.
Undecided(e) == [e EXCEPT !.status = "PENDING", !.basis = None]

LEMMA UndecidedRow ==
    ASSUME NEW e \in EvaluationRows
    PROVE  /\ Undecided(e) \in EvaluationRows /\ ~isRetained(Undecided(e))
           /\ Undecided(e).override = e.override /\ Undecided(e).scores = e.scores
BY DEF Undecided, EvaluationRows, isRetained, Reviews

LEMMA ReopenedRows ==
    ASSUME RowsTyped, NEW ks \in SUBSET Parties
    PROVE  /\ Reopened(ks) \in [Parties -> Seq(EvaluationRows)]
           /\ \A k \in Parties : Len(Reopened(ks)[k]) = Len(evaluation[k])
           /\ \A k \in Parties : DOMAIN Reopened(ks)[k] = DOMAIN evaluation[k]
           /\ \A k \in Parties \ ks : Reopened(ks)[k] = evaluation[k]
           /\ \A k \in ks : \A i \in DOMAIN evaluation[k] :
                Reopened(ks)[k][i] = Undecided(evaluation[k][i])
<1> DEFINE new(k) == [i \in DOMAIN evaluation[k] |-> Undecided(evaluation[k][i])]
<1>1. Reopened(ks) = [k \in Parties |-> IF k \in ks THEN new(k) ELSE evaluation[k]]
  BY DEF Reopened, Undecided
<1>2. ASSUME NEW k \in Parties
      PROVE  new(k) \in Seq(EvaluationRows) /\ Len(new(k)) = Len(evaluation[k])
             /\ DOMAIN new(k) = DOMAIN evaluation[k]
  <2> DEFINE n == Len(evaluation[k])
  <2>1. n \in Nat /\ DOMAIN evaluation[k] = 1..n
    BY EvaluationSeq
  <2>2. \A i \in 1..n : Undecided(evaluation[k][i]) \in EvaluationRows
    BY <2>1, EvaluationSeq, UndecidedRow
  <2>3. new(k) = [i \in 1..n |-> Undecided(evaluation[k][i])]
    BY <2>1
  <2> QED
    BY <2>1, <2>2, <2>3
<1> HIDE DEF new
<1>3. /\ Reopened(ks) \in [Parties -> Seq(EvaluationRows)]
      /\ \A k \in Parties : Len(Reopened(ks)[k]) = Len(evaluation[k])
      /\ \A k \in Parties : DOMAIN Reopened(ks)[k] = DOMAIN evaluation[k]
      /\ \A k \in Parties \ ks : Reopened(ks)[k] = evaluation[k]
      /\ \A k \in ks : Reopened(ks)[k] = new(k)
  BY <1>1, <1>2 DEF RowsTyped
<1>4. \A k \in ks : \A i \in DOMAIN evaluation[k] : new(k)[i] = Undecided(evaluation[k][i])
  BY DEF new
<1> QED
  BY <1>3, <1>4

\* What asks for new decisions on ks may change the rows of ks.
LEMMA ReopenedDecisions ==
    ASSUME RowsTyped, EvaluatedPartiesExist, EvaluationUpToDate,
           NEW ks \in SUBSET Parties, evaluation' = Reopened(ks),
           \A k \in Parties \ ks : Judged(k)' = Judged(k),
           \A k \in Parties : party'[k] = None => party[k] = None
    PROVE  EvaluatedPartiesExist' /\ EvaluationUpToDate'
<1>1. ASSUME NEW k \in Parties, party'[k] = None PROVE evaluation'[k] = <<>>
  <2>1. evaluation[k] = <<>>
    BY <1>1 DEF EvaluatedPartiesExist
  <2>2. evaluation'[k] \in Seq(EvaluationRows) /\ Len(evaluation'[k]) = 0
    BY <2>1, ReopenedRows
  <2> QED
    BY <2>2
<1>2. ASSUME NEW k \in Parties, NEW i \in DOMAIN evaluation'[k], isRetained(evaluation'[k][i])
      PROVE  evaluation'[k][i].basis = Judged(k)'
  <2>1. i \in DOMAIN evaluation[k]
    BY ReopenedRows
  <2>2. CASE k \in ks
    BY <1>2, <2>1, <2>2, ReopenedRows, EvaluationSeq, UndecidedRow
  <2>3. CASE k \notin ks
    BY <1>2, <2>1, <2>3, ReopenedRows DEF EvaluationUpToDate
  <2> QED
    BY <2>2, <2>3
<1> QED
  BY <1>1, <1>2 DEF EvaluatedPartiesExist, EvaluationUpToDate

LEMMA ReopenedLatest ==
    ASSUME RowsTyped, NEW ks \in SUBSET Parties, evaluation' = Reopened(ks),
           NEW k \in Parties, Latest(k) # None
    PROVE  Latest(k)'.override = Latest(k).override /\ Latest(k)'.scores = Latest(k).scores
<1> DEFINE n == Len(evaluation[k])
<1>1. evaluation[k] # <<>> /\ Latest(k) = evaluation[k][n]
  BY DEF Latest
<1>2. n \in DOMAIN evaluation[k] /\ n \in Nat /\ n # 0 /\ evaluation[k][n] \in EvaluationRows
  BY <1>1, EvaluationSeq
<1>3. Len(evaluation'[k]) = n
  BY ReopenedRows
<1>4. evaluation'[k] # <<>>
  BY <1>2, <1>3, EmptySeq
<1>5. Latest(k)' = evaluation'[k][n]
  BY <1>3, <1>4 DEF Latest
<1>6. evaluation'[k][n] = evaluation[k][n] \/ evaluation'[k][n] = Undecided(evaluation[k][n])
  BY <1>2, ReopenedRows
<1> QED
  BY <1>1, <1>2, <1>5, <1>6, UndecidedRow

\* A write moves the revision and so leaves no run with a current input.
LEMMA TouchedState ==
    ASSUME Typed, Inputs, NEW s \in StateRows, s.revision = state.revision,
           state' = Touched(s),
           \A r \in Runs : run'[r].status # "none" =>
             run[r].status # "none" /\ run'[r].revision = run[r].revision
    PROVE  /\ state' \in StateRows /\ state'.revision = state.revision + 1
           /\ state'.method = s.method /\ state'.fingerprint = s.fingerprint
           /\ ~state'.validated /\ Inputs' /\ ValidatedComplete'
<1>1. /\ state' \in StateRows /\ state'.revision = state.revision + 1
      /\ state'.method = s.method /\ state'.fingerprint = s.fingerprint
      /\ state'.validated = FALSE
  <2>1. s.revision \in Nat /\ s.revision + 1 \in Nat
    BY DEF StateRows
  <2>2. Touched(s) \in StateRows
    BY <2>1 DEF Touched, StateRows
  <2>3. Touched(s).revision = s.revision + 1
    BY DEF Touched, StateRows
  <2>4. Touched(s).method = s.method /\ Touched(s).fingerprint = s.fingerprint
    BY DEF Touched, StateRows
  <2>5. Touched(s).validated = FALSE
    BY DEF Touched, StateRows
  <2> QED
    BY <2>2, <2>3, <2>4, <2>5
<1>2. ASSUME NEW r \in Runs PROVE RunInput(r)'
  <2>1. run[r].revision \in Nat /\ state.revision \in Nat
    BY DEF Typed, RunRecords, StateRows
  <2> QED
    BY <1>1, <2>1 DEF Inputs, RunInput
<1> QED
  BY <1>1, <1>2 DEF Inputs, ValidatedComplete

-----------------------------------------------------------------------------
(* The writes of people.                                                   *)

\* What a write to the rows has to show.
LEMMA WriteKeeps ==
    ASSUME IInv, material' \in Nat, Change(state), UNCHANGED <<run, worker, request>>,
           RowsTyped', EvaluatedPartiesExist', EvaluationUpToDate'
    PROVE  IInv'
<1>1. state' \in StateRows /\ Inputs' /\ ValidatedComplete'
  BY TouchedState DEF Change, IInv, Typed
<1>2. A!Wired(Nat, {})'
  BY A!RunsMoveWired DEF IInv, A!RunsKept, worker
<1> QED
  BY <1>1, <1>2 DEF IInv, Typed, Decisions

LEMMA WriteReopens ==
    ASSUME IInv, NEW k \in Parties, Change(state), evaluation' = Reopened({k}),
           UNCHANGED <<material, run, worker, request>>,
           NEW p \in PartyRows \cup {None}, party' = [party EXCEPT ![k] = p],
           p = None => party[k] = None,
           NEW q \in RequirementRows \cup {None}, requirement' = [requirement EXCEPT ![k] = q]
    PROVE  IInv'
<1>1. state'.method = state.method
  BY TouchedState DEF Change, IInv, Typed
<1>2. RowsTyped'
  BY ReopenedRows DEF RowsTyped, IInv, Typed
<1>3. \A l \in Parties \ {k} : Judged(l)' = Judged(l)
  BY <1>1 DEF Judged, IInv, Typed, RowsTyped
<1>4. \A l \in Parties : party'[l] = None => party[l] = None
  BY DEF IInv, Typed, RowsTyped
<1>5. EvaluatedPartiesExist' /\ EvaluationUpToDate'
  BY <1>3, <1>4, ReopenedDecisions DEF IInv, Typed, Decisions
<1> QED
  BY <1>2, <1>5, WriteKeeps DEF IInv, Typed

LEMMA ChangeMaterialKeeps ==
    ASSUME IInv, ChangeMaterial
    PROVE  IInv'
<1>1. A!Wired(Nat, {})'
  BY A!RunsMoveWired DEF IInv, ChangeMaterial, A!RunsKept, worker
<1>2. Typed'
  BY DEF IInv, ChangeMaterial, Typed, RowsTyped, rows
<1>3. Inputs'
  BY DEF IInv, ChangeMaterial, Inputs, RunInput, RetainedRows, rows
<1>4. Decisions'
  BY DEF IInv, ChangeMaterial, rows, Decisions, EvaluatedPartiesExist, EvaluationUpToDate, Judged,
         ValidatedComplete, Complete, AllocationDone, RequirementsDone, InventoryDone,
         RetainedParties, evaluationComplete, Latest
<1> QED
  BY <1>1, <1>2, <1>3, <1>4 DEF IInv

LEMMA AnswerKeeps ==
    ASSUME IInv, Answer
    PROVE  IInv'
<1>1. state'.method = state.method
  BY TouchedState DEF Answer, Change, IInv, Typed
<1>2. material' \in Nat /\ RowsTyped'
  BY DEF Answer, IInv, Typed, RowsTyped, rows
<1>3. EvaluatedPartiesExist' /\ EvaluationUpToDate'
  BY <1>1 DEF Answer, IInv, rows, Decisions, EvaluatedPartiesExist, EvaluationUpToDate, Judged
<1> QED
  BY <1>2, <1>3, WriteKeeps DEF Answer

LEMMA AddPartyKeeps ==
    ASSUME IInv, NEW k \in Parties, AddParty(k)
    PROVE  IInv'
<1> DEFINE new == [origin |-> "user", status |-> "RETAINED", by |-> "user"]
<1>1. new \in PartyRows /\ new # None
  BY PipAssumption DEF PartyRows, Reviews
<1>2. party' = [party EXCEPT ![k] = new] /\ evaluation[k] = <<>> /\ Change(state)
      /\ UNCHANGED <<material, requirement, evaluation, run, worker, request>>
  BY DEF AddParty, IInv, Decisions, EvaluatedPartiesExist
<1> HIDE DEF new
<1>3. state'.method = state.method
  BY <1>2, TouchedState DEF Change, IInv, Typed
<1>4. RowsTyped'
  BY <1>1, <1>2 DEF IInv, Typed, RowsTyped
<1>5. EvaluatedPartiesExist'
  BY <1>1, <1>2 DEF IInv, Typed, RowsTyped, Decisions, EvaluatedPartiesExist
<1>6. EvaluationUpToDate'
  <2> SUFFICES ASSUME NEW l \in Parties, NEW i \in DOMAIN evaluation[l],
                      isRetained(evaluation[l][i])
               PROVE  evaluation[l][i].basis = Judged(l)'
    BY <1>2 DEF EvaluationUpToDate, isRetained
  <2>1. l # k
    BY <1>2, EvaluationSeq, EmptySeq DEF IInv, Typed
  <2>2. Judged(l)' = Judged(l)
    BY <1>2, <1>3, <2>1 DEF Judged, IInv, Typed, RowsTyped
  <2> QED
    BY <2>2 DEF IInv, Decisions, EvaluationUpToDate
<1> QED
  BY <1>2, <1>4, <1>5, <1>6, WriteKeeps DEF IInv, Typed

LEMMA AddRequirementKeeps ==
    ASSUME IInv, NEW k \in Parties, AddRequirement(k)
    PROVE  IInv'
<1>1. PICK kind \in Kinds : requirement' = [requirement EXCEPT ![k] =
             [status |-> "RETAINED", by |-> "user", kind |-> kind, services |-> None]]
  BY DEF AddRequirement
<1>2. [status |-> "RETAINED", by |-> "user", kind |-> kind, services |-> None] \in RequirementRows
  BY DEF RequirementRows, Reviews
<1>3. party[k] \in PartyRows \cup {None} /\ party' = [party EXCEPT ![k] = party[k]]
  BY DEF AddRequirement, IInv, Typed, RowsTyped
<1> QED
  BY <1>1, <1>2, <1>3, WriteReopens DEF AddRequirement

LEMMA ReviewPartyKeeps ==
    ASSUME IInv, NEW k \in Parties, ReviewParty(k)
    PROVE  IInv'
<1>1. party[k] \in PartyRows
  BY DEF ReviewParty, IInv, Typed, RowsTyped
<1>2. PICK status \in Reviews, by \in {party[k].by, "user"} :
        party' = [party EXCEPT ![k] = [@ EXCEPT !.status = status, !.by = by]]
  BY DEF ReviewParty
<1> DEFINE new == [party[k] EXCEPT !.status = status, !.by = by]
<1>3. new \in PartyRows
  BY <1>1, <1>2 DEF PartyRows
<1>4. party' = [party EXCEPT ![k] = new]
  BY <1>2 DEF IInv, Typed, RowsTyped
<1> HIDE DEF new
<1>5. requirement[k] \in RequirementRows \cup {None}
      /\ requirement' = [requirement EXCEPT ![k] = requirement[k]]
  BY DEF ReviewParty, IInv, Typed, RowsTyped
<1>6. new # None
  BY <1>3, PipAssumption
<1> QED
  BY <1>3, <1>4, <1>5, <1>6, WriteReopens DEF ReviewParty

LEMMA ReviewRequirementKeeps ==
    ASSUME IInv, NEW k \in Parties, ReviewRequirement(k)
    PROVE  IInv'
<1>1. requirement[k] \in RequirementRows
  BY DEF ReviewRequirement, IInv, Typed, RowsTyped
<1>2. PICK status \in Reviews, edited \in BOOLEAN :
        requirement' = [requirement EXCEPT ![k] = Reviewed(requirement[k], status, edited)]
  BY DEF ReviewRequirement
<1>3. Reviewed(requirement[k], status, edited) \in RequirementRows
  BY <1>1, <1>2 DEF RequirementRows, Reviewed
<1>4. party[k] \in PartyRows \cup {None} /\ party' = [party EXCEPT ![k] = party[k]]
  BY DEF ReviewRequirement, IInv, Typed, RowsTyped
<1> QED
  BY <1>2, <1>3, <1>4, WriteReopens DEF ReviewRequirement

LEMMA AllocateKeeps ==
    ASSUME IInv, NEW k \in Parties, Allocate(k)
    PROVE  IInv'
<1>1. requirement[k] \in RequirementRows
  BY DEF Allocate, isRetained, IInv, Typed, RowsTyped
<1>2. PICK services \in Services : requirement' = [requirement EXCEPT ![k].services = services]
  BY DEF Allocate
<1> DEFINE new == [requirement[k] EXCEPT !.services = services]
<1>3. new \in RequirementRows
  BY <1>1, <1>2 DEF RequirementRows
<1>4. requirement' = [requirement EXCEPT ![k] = new]
  BY <1>2 DEF IInv, Typed, RowsTyped
<1> HIDE DEF new
<1>5. party[k] \in PartyRows \cup {None} /\ party' = [party EXCEPT ![k] = party[k]]
  BY DEF Allocate, IInv, Typed, RowsTyped
<1> QED
  BY <1>3, <1>4, <1>5, WriteReopens DEF Allocate

LEMMA ReviewEvaluationKeeps ==
    ASSUME IInv, NEW k \in Parties, NEW i \in Runs, ReviewEvaluation(k, i)
    PROVE  IInv'
<1> DEFINE s == evaluation[k]
<1>1. /\ s \in Seq(EvaluationRows) /\ i \in 1..Len(s)
      /\ s[i] \in EvaluationRows /\ DOMAIN s = 1..Len(s)
  BY EvaluationSeq DEF ReviewEvaluation, IInv, Typed
<1>2. PICK status \in Reviews, scores \in {s[i].scores, AllScores} :
        evaluation' = [evaluation EXCEPT ![k][i] =
              [status |-> status, scores |-> scores, override |-> TRUE,
               basis |-> IF status = "RETAINED" THEN Judged(k) ELSE None]]
  BY DEF ReviewEvaluation
<1> DEFINE new == [status |-> status, scores |-> scores, override |-> TRUE,
                   basis |-> IF status = "RETAINED" THEN Judged(k) ELSE None]
<1>3. Judged(k) \in [party : PartyRows \cup {None}, requirement : RequirementRows \cup {None},
                     method : Methods \cup {"both"}]
  BY DEF Judged, IInv, Typed, RowsTyped, StateRows
<1>4. new \in EvaluationRows /\ (isRetained(new) => new.basis = Judged(k))
  BY <1>1, <1>2, <1>3 DEF EvaluationRows, isRetained
<1>5. evaluation' = [evaluation EXCEPT ![k] = [s EXCEPT ![i] = new]]
  BY <1>2 DEF IInv, Typed, RowsTyped
<1> HIDE DEF new
<1>6. /\ [s EXCEPT ![i] = new] \in Seq(EvaluationRows)
      /\ DOMAIN [s EXCEPT ![i] = new] = DOMAIN s
      /\ \A j \in DOMAIN s : [s EXCEPT ![i] = new][j] = IF j = i THEN new ELSE s[j]
  BY <1>1, <1>4, ExceptSeq
<1>7. party' = party /\ requirement' = requirement /\ Change(state)
      /\ UNCHANGED <<material, run, worker, request>>
  BY DEF ReviewEvaluation
<1>8. RowsTyped'
  BY <1>5, <1>6, <1>7 DEF IInv, Typed, RowsTyped
<1>9. EvaluatedPartiesExist'
  <2>1. s # <<>>
    BY <1>1, EmptySeq
  <2> QED
    BY <1>5, <1>7, <2>1 DEF IInv, Typed, RowsTyped, Decisions, EvaluatedPartiesExist
<1>10. EvaluationUpToDate'
  <2>1. state'.method = state.method
    BY <1>7, TouchedState DEF Change, IInv, Typed
  <2>2. \A l \in Parties : Judged(l)' = Judged(l)
    BY <1>7, <2>1 DEF Judged
  <2>3. ASSUME NEW l \in Parties, NEW j \in DOMAIN evaluation'[l], isRetained(evaluation'[l][j])
        PROVE  evaluation'[l][j].basis = Judged(l)
    <3>1. CASE l = k
      BY <1>4, <1>5, <1>6, <2>3, <3>1 DEF IInv, Typed, RowsTyped, Decisions, EvaluationUpToDate
    <3>2. CASE l # k
      BY <1>5, <2>3, <3>2 DEF IInv, Typed, RowsTyped, Decisions, EvaluationUpToDate
    <3> QED
      BY <3>1, <3>2
  <2> QED
    BY <2>2, <2>3 DEF EvaluationUpToDate
<1> QED
  BY <1>7, <1>8, <1>9, <1>10, WriteKeeps DEF IInv, Typed

LEMMA WriteStep ==
    ASSUME IInv, Write
    PROVE  IInv'
BY ChangeMaterialKeeps, AnswerKeeps, AddPartyKeeps, AddRequirementKeeps, ReviewPartyKeeps,
   ReviewRequirementKeeps, AllocateKeeps, ReviewEvaluationKeeps DEF Write

-----------------------------------------------------------------------------
(* The steps that leave the register alone.                                *)

SameInput(r) ==
    run'[r].status # "none" =>
      /\ run[r].status # "none" /\ run'[r].revision = run[r].revision
      /\ run'[r].parties = run[r].parties /\ run'[r].method = run[r].method

LEMMA RegisterKept ==
    ASSUME IInv, UNCHANGED <<material, state, rows>>, run' \in [Runs -> RunRecords],
           \A r \in Runs : SameInput(r), A!Wired(Nat, {})'
    PROVE  IInv'
<1>1. party' = party /\ requirement' = requirement /\ evaluation' = evaluation
      /\ state' = state /\ material' = material
  BY DEF rows
<1>2. Typed'
  BY <1>1 DEF IInv, Typed, RowsTyped
<1>3. RetainedRows' = RetainedRows
  BY <1>1 DEF RetainedRows
<1>4. Inputs'
  BY <1>1, <1>3 DEF IInv, Inputs, RunInput, SameInput
<1>5. Decisions'
  BY <1>1 DEF IInv, Decisions, EvaluatedPartiesExist, EvaluationUpToDate, Judged,
         ValidatedComplete, Complete, AllocationDone, RequirementsDone, InventoryDone,
         RetainedParties, evaluationComplete, Latest
<1> QED
  BY <1>2, <1>4, <1>5 DEF IInv

LEMMA SameRuns ==
    ASSUME IInv, UNCHANGED run
    PROVE  run' \in [Runs -> RunRecords] /\ (\A r \in Runs : SameInput(r)) /\ A!RunsKept
BY DEF IInv, Typed, SameInput, A!RunsKept

LEMMA StatusSet ==
    ASSUME IInv, NEW r \in Runs, run[r].status # "none", NEW status \in {"RUNNING", "FAILED"},
           run' = [run EXCEPT ![r].status = status]
    PROVE  run' \in [Runs -> RunRecords] /\ (\A s \in Runs : SameInput(s)) /\ A!RunsKept
<1> DEFINE new == [run[r] EXCEPT !.status = status]
<1>1. run[r] \in RunRecords /\ run' = [run EXCEPT ![r] = new]
  BY DEF IInv, Typed
<1>2. /\ new \in RunRecords /\ new.status # "none" /\ new.revision = run[r].revision
      /\ new.parties = run[r].parties /\ new.method = run[r].method
  BY <1>1 DEF RunRecords
<1> HIDE DEF new
<1> QED
  BY <1>1, <1>2 DEF IInv, Typed, SameInput, A!RunsKept

\* The run of a request or a slot at work.
LEMMA RunAtWork ==
    ASSUME IInv
    PROVE  /\ \A q \in Requests : request[q].pc = "enqueue" =>
                request[q].run \in Runs /\ run[request[q].run].status # "none"
           /\ \A w \in Slots : slot[w].pc # "idle" =>
                slot[w].run \in Runs /\ run[slot[w].run].status # "none"
BY DEF IInv, A!Wired, A!RequestsWired, A!SlotsWired, A!JobsHaveRuns

LEMMA QuietRequestStep ==
    ASSUME IInv, NEW q \in Requests,
           ReadMaterial(q) \/ Enqueue(q) \/ EnqueueFails(q) \/ RequestEnds(q)
    PROVE  IInv'
<1>1. CASE ReadMaterial(q)
  <2>1. A!Read(q, material) /\ material \in Nat /\ UNCHANGED <<run, job, slot>>
    BY <1>1, SharedSteps DEF ReadMaterial, Analysis!Read, IInv, Typed
  <2>2. A!Wired(Nat, {})'
    BY <2>1, SameRuns, A!ReadWired DEF IInv
  <2> QED
    BY <1>1, <2>1, <2>2, SameRuns, RegisterKept DEF ReadMaterial
<1>2. CASE Enqueue(q)
  <2>1. A!Enqueue(q) /\ UNCHANGED run
    BY <1>2, SharedSteps DEF Enqueue, Analysis!Enqueue
  <2>2. A!Wired(Nat, {})'
    BY <2>1, SameRuns, Parameters, A!EnqueueWired DEF IInv
  <2> QED
    BY <1>2, <2>1, <2>2, SameRuns, RegisterKept DEF Enqueue
<1>3. CASE EnqueueFails(q)
  <2>1. A!Done(q) /\ UNCHANGED <<job, slot>> /\ request[q].pc = "enqueue"
        /\ run' = [run EXCEPT ![request[q].run].status = "FAILED"]
    BY <1>3, SharedSteps DEF EnqueueFails, Analysis!EnqueueFails
  <2>2. run' \in [Runs -> RunRecords] /\ (\A s \in Runs : SameInput(s)) /\ A!RunsKept
    BY <2>1, RunAtWork, StatusSet
  <2>3. A!Wired(Nat, {})'
    BY <2>1, <2>2, A!RequestEndsWired DEF IInv
  <2> QED
    BY <1>3, <2>2, <2>3, RegisterKept DEF EnqueueFails
<1>4. CASE RequestEnds(q)
  <2>1. A!Done(q) /\ UNCHANGED <<run, job, slot>>
    BY <1>4, SharedSteps DEF RequestEnds, Analysis!RequestEnds
  <2>2. A!Wired(Nat, {})'
    BY <2>1, SameRuns, A!RequestEndsWired DEF IInv
  <2> QED
    BY <1>4, <2>1, <2>2, SameRuns, RegisterKept DEF RequestEnds
<1> QED
  BY <1>1, <1>2, <1>3, <1>4

\* A slot that goes on, and may have set the status of its run.
LEMMA SlotGoesOn ==
    ASSUME IInv, NEW w \in Slots, slot[w].pc # "idle",
           NEW pc \in {"generate", "persist", "fail", "throw", "end"}, Analysis!Goto(w, pc),
           UNCHANGED <<material, state, rows, job, request>>,
           UNCHANGED run \/ \E status \in {"RUNNING", "FAILED"} :
                              run' = [run EXCEPT ![slot[w].run].status = status]
    PROVE  IInv'
<1>1. run' \in [Runs -> RunRecords] /\ (\A s \in Runs : SameInput(s)) /\ A!RunsKept
  BY SameRuns, StatusSet, RunAtWork
<1>2. A!SlotMoves
  BY SharedSteps DEF A!SlotMoves
<1>3. A!Wired(Nat, {})'
  BY <1>1, <1>2, A!SlotMovesWired DEF IInv
<1> QED
  BY <1>1, <1>3, RegisterKept

LEMMA QuietSlotStep ==
    ASSUME IInv, NEW w \in Slots,
           \/ MarkRunning(w) \/ Generate(w) \/ PersistDone(w) \/ PersistFails(w) \/ FailRun(w)
    PROVE  IInv'
<1>1. CASE MarkRunning(w)
  BY <1>1, SlotGoesOn DEF MarkRunning, Analysis!MarkRunning, Analysis!Goto
<1>2. CASE Generate(w)
  BY <1>2, SlotGoesOn DEF Generate
<1>3. CASE PersistDone(w)
  BY <1>3, SlotGoesOn DEF PersistDone, Analysis!AlreadyPersisted
<1>4. CASE PersistFails(w)
  BY <1>4, SlotGoesOn DEF PersistFails, Analysis!PersistFails
<1>5. CASE FailRun(w)
  BY <1>5, SlotGoesOn DEF FailRun, Analysis!FailRun
<1> QED
  BY <1>1, <1>2, <1>3, <1>4, <1>5

LEMMA JobStep ==
    ASSUME IInv, NEW r \in Runs,
           Stall(r) \/ \E w \in Slots : TakeJob(w, r) \/ EndJob(w) \/ Crash(w)
    PROVE  IInv'
<1>1. UNCHANGED <<material, state, rows, run>>
  BY DEF TakeJob, EndJob, Crash, Stall, Analysis!TakeJob, Analysis!EndJob, Analysis!Crash,
         Analysis!Stall
<1>2. A!Stall(r) \/ \E w \in Slots : A!TakeJob(w, r) \/ A!EndJob(w) \/ A!Crash(w)
  BY SharedSteps DEF TakeJob, EndJob, Crash, Stall
<1>3. A!Wired(Nat, {})'
  BY <1>1, <1>2, SameRuns, Parameters, A!TakeJobWired, A!EndJobWired, A!CrashWired, A!StallWired
     DEF IInv
<1> QED
  BY <1>1, <1>3, SameRuns, RegisterKept

-----------------------------------------------------------------------------
(* A launch, and a validation.                                             *)

LEMMA RetainedRowsTyped ==
    ASSUME RowsTyped
    PROVE  RetainedRows \in [Parties -> RetainedRecords]
BY DEF RowsTyped, RetainedRows, RetainedRecords

\* A launch that changes the method asks for new decisions; another one changes no row.
LEMMA LaunchedRegister ==
    ASSUME IInv, NEW q \in Requests, NEW stage \in Stages, NEW method \in Methods,
           Launch(q, stage, method)
    PROVE  /\ RowsTyped' /\ Decisions' /\ state' \in StateRows
           /\ state'.revision >= state.revision
           /\ state'.revision = state.revision => state'.method = state.method
<1>1. UNCHANGED <<party, requirement>>
  BY DEF Launch
<1>2. CASE UNCHANGED <<state, evaluation>>
  <2>1. RowsTyped' /\ state' \in StateRows
    BY <1>1, <1>2 DEF IInv, Typed, RowsTyped
  <2>2. Decisions'
    BY <1>1, <1>2 DEF IInv, Decisions, EvaluatedPartiesExist, EvaluationUpToDate, Judged,
         ValidatedComplete, Complete, AllocationDone, RequirementsDone, InventoryDone,
         RetainedParties, evaluationComplete, Latest
  <2> QED
    BY <1>2, <2>1, <2>2 DEF IInv, Typed, StateRows
<1>3. CASE Change([state EXCEPT !.method = method]) /\ evaluation' = Reopened(Parties)
  <2> DEFINE s == [state EXCEPT !.method = method]
  <2>1. s \in StateRows /\ s.revision = state.revision
    BY DEF IInv, Typed, StateRows
  <2>2. state' = Touched(s)
    BY <1>3 DEF Change
  <2> HIDE DEF s
  <2>3. /\ Touched(s) \in StateRows /\ Touched(s).revision = state.revision + 1
        /\ Touched(s).validated = FALSE
    <3>1. s.revision \in Nat /\ s.revision + 1 \in Nat
      BY <2>1 DEF StateRows
    <3> QED
      BY <2>1, <3>1 DEF Touched, StateRows
  <2>4. RowsTyped'
    BY <1>1, <1>3, ReopenedRows DEF IInv, Typed, RowsTyped
  <2>5. EvaluatedPartiesExist' /\ EvaluationUpToDate'
    BY <1>1, <1>3, ReopenedDecisions DEF IInv, Typed, Decisions
  <2>6. state.revision \in Nat
    BY DEF IInv, Typed, StateRows
  <2> QED
    BY <2>2, <2>3, <2>4, <2>5, <2>6 DEF Decisions, ValidatedComplete
<1> QED
  BY <1>2, <1>3 DEF Launch

LEMMA LaunchKeeps ==
    ASSUME IInv, NEW q \in Requests, NEW stage \in Stages, NEW method \in Methods,
           Launch(q, stage, method)
    PROVE  IInv'
<1> DEFINE new == [status |-> "DRAFT", stage |-> stage, revision |-> state'.revision,
                   fingerprint |-> request[q].read, method |-> state'.method,
                   parties |-> RetainedRows]
<1>1. /\ RowsTyped' /\ Decisions' /\ state' \in StateRows
      /\ state'.revision >= state.revision
      /\ state'.revision = state.revision => state'.method = state.method
  BY LaunchedRegister
<1>2. /\ UNCHANGED <<material, party, requirement, job, slot>> /\ request[q].pc = "read"
      /\ Analysis!Create(q, new)
  BY DEF Launch, worker
<1>3. request[q].read \in Nat
  BY <1>2 DEF IInv, A!Wired, A!RequestsWired
<1>4. new \in RunRecords
  BY <1>1, <1>3, RetainedRowsTyped DEF IInv, Typed, StateRows, RunRecords
<1>5. new.status = "DRAFT" /\ new.revision = state'.revision /\ new.method = state'.method
      /\ new.parties = RetainedRows
  OBVIOUS
<1> HIDE DEF new
<1>6. A!RunsKept /\ A!Wired(Nat, {})'
  BY <1>2, <1>5, SharedSteps, A!CreateWired DEF IInv, Typed
<1>7. PICK r \in Runs : run' = [run EXCEPT ![r] = new]
  BY <1>2 DEF Analysis!Create
<1>8. Typed'
  BY <1>1, <1>2, <1>4, <1>7 DEF IInv, Typed
<1>9. RetainedRows' = RetainedRows
  BY <1>2 DEF RetainedRows
<1>10. Inputs'
  <2> SUFFICES ASSUME NEW t \in Runs PROVE RunInput(t)'
    BY DEF Inputs
  <2>1. CASE t = r
    BY <1>1, <1>5, <1>7, <1>9, <2>1 DEF RunInput, IInv, Typed, StateRows
  <2>2. CASE t # r
    <3>1. run'[t] = run[t] /\ RunInput(t)
      BY <1>7, <2>2 DEF IInv, Typed, Inputs
    <3>2. state.revision \in Nat /\ state'.revision \in Nat /\ run[t].revision \in Nat
      BY <1>1 DEF IInv, Typed, StateRows, RunRecords
    <3> QED
      BY <1>1, <1>9, <3>1, <3>2 DEF RunInput
  <2> QED
    BY <2>1, <2>2
<1> QED
  BY <1>1, <1>6, <1>8, <1>10 DEF IInv

LEMMA ValidateKeeps ==
    ASSUME IInv, NEW q \in Requests, Validate(q)
    PROVE  IInv'
<1>1. /\ UNCHANGED <<material, party, requirement, evaluation, run, job, slot>>
      /\ request[q].pc = "read" /\ A!Done(q) /\ state' = [state EXCEPT !.validated = TRUE]
      /\ Complete(state.fingerprint # request[q].read, state.method)
  BY SharedSteps DEF Validate, worker, rows
<1>2. A!Wired(Nat, {})'
  BY <1>1, SameRuns, A!RequestEndsWired DEF IInv
<1>3. /\ state' \in StateRows /\ state'.revision = state.revision /\ state'.method = state.method
      /\ state'.fingerprint = state.fingerprint
  BY <1>1 DEF IInv, Typed, StateRows
<1>4. Typed'
  BY <1>1, <1>3 DEF IInv, Typed, RowsTyped
<1>5. Inputs'
  BY <1>1, <1>3 DEF IInv, Inputs, RunInput, RetainedRows
<1>6. EvaluatedPartiesExist' /\ EvaluationUpToDate'
  BY <1>1, <1>3 DEF IInv, Decisions, EvaluatedPartiesExist, EvaluationUpToDate, Judged
<1>7. state.fingerprint # None
  BY <1>1, PipAssumption DEF IInv, A!Wired, A!RequestsWired, Complete, AllocationDone,
     RequirementsDone, InventoryDone
<1>8. ValidatedComplete'
  BY <1>1, <1>3, <1>7 DEF ValidatedComplete, Complete, AllocationDone, RequirementsDone,
     InventoryDone, RetainedParties, evaluationComplete, Latest
<1> QED
  BY <1>2, <1>4, <1>5, <1>6, <1>8 DEF IInv, Decisions

-----------------------------------------------------------------------------
(* The result of a run.                                                    *)

Applied(r) ==
    \/ run[r].stage = "INVENTORY" /\ ApplyInventory(r)
    \/ run[r].stage = "REQUIREMENTS" /\ ApplyRequirements(r)
    \/ run[r].stage = "EVALUATION" /\ ApplyEvaluation(r)

HumanKept(k) ==
    /\ party[k] # None => party'[k].by = party[k].by
    /\ requirement[k] # None =>
         requirement'[k].by = requirement[k].by /\ requirement'[k].kind = requirement[k].kind
    /\ Latest(k) # None /\ Latest(k).override =>
         Latest(k)'.override /\ Latest(k)'.scores = Latest(k).scores

\* What a result has to show: the rows are as they have to be, what people wrote is
\* kept, and the write is counted.
ResultKeeps ==
    /\ RowsTyped' /\ EvaluatedPartiesExist' /\ EvaluationUpToDate'
    /\ \A k \in Parties : HumanKept(k)
    /\ \E s \in StateRows : s.revision = state.revision /\ state' = Touched(s)

LEMMA InventoryResult ==
    ASSUME IInv, NEW r \in Runs, run[r].fingerprint \in Nat \cup {None}, ApplyInventory(r)
    PROVE  ResultKeeps
<1> DEFINE changed == state.fingerprint # run[r].fingerprint
           reopen == state.fingerprint # None /\ changed
           Reopen(row) == IF isRetained(row) THEN [row EXCEPT !.status = "PENDING"] ELSE row
           s == [state EXCEPT !.fingerprint = run[r].fingerprint]
           proposed == [origin |-> "ai", status |-> "PENDING", by |-> "ai"]
<1>1. PICK found \in (SUBSET Parties) \ {{}} :
        party' = [k \in Parties |->
           IF party[k] = None THEN IF k \in found THEN proposed ELSE None
           ELSE IF reopen /\ party[k].origin = "ai" THEN Reopen(party[k]) ELSE party[k]]
  BY DEF ApplyInventory
<1>2. requirement' = [k \in Parties |->
         IF reopen /\ isRetained(requirement[k])
         THEN [requirement[k] EXCEPT !.status = "PENDING", !.services = None]
         ELSE requirement[k]]
  BY DEF ApplyInventory
<1>3. evaluation' = IF changed THEN Reopened(Parties) ELSE evaluation
  BY DEF ApplyInventory
<1>4. s \in StateRows /\ s.revision = state.revision /\ s.method = state.method
  BY DEF IInv, Typed, StateRows
<1>5. state' = Touched(s)
  BY DEF ApplyInventory
<1>6. proposed \in PartyRows /\ proposed # None
  BY PipAssumption DEF PartyRows, Reviews
<1>7. \A row \in PartyRows : Reopen(row) \in PartyRows /\ Reopen(row).by = row.by
  BY DEF PartyRows, Reviews
<1>8. ASSUME NEW k \in Parties
      PROVE  /\ party'[k] \in PartyRows \cup {None}
             /\ party[k] # None => party'[k] # None /\ party'[k].by = party[k].by
             /\ ~reopen /\ party[k] # None => party'[k] = party[k]
  <2>1. CASE party[k] = None
    BY <1>1, <1>6, <2>1
  <2>2. CASE party[k] # None
    <3>1. party[k] \in PartyRows
      BY <2>2 DEF IInv, Typed, RowsTyped
    <3>2. party'[k] = IF reopen /\ party[k].origin = "ai" THEN Reopen(party[k]) ELSE party[k]
      BY <1>1, <2>2
    <3> HIDE DEF Reopen, reopen
    <3>3. party'[k] \in PartyRows /\ party'[k].by = party[k].by
      BY <1>7, <3>1, <3>2
    <3>4. party'[k] # None
      BY <3>3, PipAssumption
    <3> QED
      BY <2>2, <3>2, <3>3, <3>4
  <2> QED
    BY <2>1, <2>2
<1>9. ASSUME NEW k \in Parties
      PROVE  /\ requirement'[k] \in RequirementRows \cup {None}
             /\ requirement[k] # None =>
                  requirement'[k].by = requirement[k].by /\ requirement'[k].kind = requirement[k].kind
             /\ ~reopen => requirement'[k] = requirement[k]
  <2>1. CASE reopen /\ isRetained(requirement[k])
    <3>1. requirement[k] \in RequirementRows
      BY <2>1 DEF isRetained, IInv, Typed, RowsTyped
    <3>2. requirement'[k] = [requirement[k] EXCEPT !.status = "PENDING", !.services = None]
      BY <1>2, <2>1
    <3> QED
      BY <2>1, <3>1, <3>2 DEF RequirementRows, Reviews
  <2>2. CASE ~(reopen /\ isRetained(requirement[k]))
    BY <1>2, <2>2 DEF IInv, Typed, RowsTyped
  <2> QED
    BY <2>1, <2>2
<1> HIDE DEF s, Reopen, proposed
<1>10. evaluation' \in [Parties -> Seq(EvaluationRows)]
  BY <1>3, ReopenedRows DEF IInv, Typed, RowsTyped
<1>11. RowsTyped'
  BY <1>1, <1>2, <1>8, <1>9, <1>10 DEF RowsTyped
<1>12. EvaluatedPartiesExist' /\ EvaluationUpToDate'
  <2>1. CASE changed
    BY <1>3, <1>8, <2>1, ReopenedDecisions DEF IInv, Typed, Decisions
  <2>2. CASE ~changed
    <3>1. evaluation' = evaluation /\ ~reopen
      BY <1>3, <2>2
    <3>2. EvaluatedPartiesExist'
      BY <1>8, <3>1 DEF IInv, Decisions, EvaluatedPartiesExist
    <3>3. state'.method = state.method
      BY <1>4, <1>5 DEF Touched, StateRows
    <3>4. ASSUME NEW k \in Parties, NEW i \in DOMAIN evaluation[k], isRetained(evaluation[k][i])
          PROVE  evaluation[k][i].basis = Judged(k)'
      <4>1. party[k] # None
        BY EvaluationSeq, EmptySeq, <3>4 DEF IInv, Typed, Decisions, EvaluatedPartiesExist
      <4>2. party'[k] = party[k] /\ requirement'[k] = requirement[k]
        BY <1>8, <1>9, <3>1, <4>1
      <4>3. Judged(k)' = Judged(k)
        BY <3>3, <4>2 DEF Judged
      <4> QED
        BY <3>4, <4>3 DEF IInv, Decisions, EvaluationUpToDate
    <3> QED
      BY <3>1, <3>2, <3>4 DEF EvaluationUpToDate
  <2> QED
    BY <2>1, <2>2
<1>13. ASSUME NEW k \in Parties, Latest(k) # None, Latest(k).override
       PROVE  Latest(k)'.override /\ Latest(k)'.scores = Latest(k).scores
  <2>1. CASE changed
    BY <1>3, <1>13, <2>1, ReopenedLatest DEF IInv, Typed
  <2>2. CASE ~changed
    BY <1>3, <1>13, <2>2 DEF Latest
  <2> QED
    BY <2>1, <2>2
<1> QED
  BY <1>4, <1>5, <1>8, <1>9, <1>11, <1>12, <1>13 DEF ResultKeeps, HumanKept

LEMMA RequirementsResult ==
    ASSUME IInv, NEW r \in Runs, ApplyRequirements(r)
    PROVE  ResultKeeps
<1>1. PICK kind \in Kinds :
         requirement' = [k \in Parties |->
           IF run[r].parties[k] # None /\ requirement[k] = None
           THEN [status |-> "PENDING", by |-> "ai", kind |-> kind, services |-> None]
           ELSE requirement[k]]
  BY DEF ApplyRequirements
<1>2. evaluation' = Reopened(Parties) /\ state' = Touched(state) /\ party' = party
  BY DEF ApplyRequirements
<1>3. [status |-> "PENDING", by |-> "ai", kind |-> kind, services |-> None] \in RequirementRows
  BY DEF RequirementRows, Reviews
<1>4. RowsTyped'
  BY <1>1, <1>2, <1>3, ReopenedRows DEF IInv, Typed, RowsTyped
<1>5. EvaluatedPartiesExist' /\ EvaluationUpToDate'
  BY <1>2, ReopenedDecisions DEF IInv, Typed, Decisions
<1>6. \A k \in Parties : requirement[k] # None => requirement'[k] = requirement[k]
  BY <1>1
<1>7. \A k \in Parties : HumanKept(k)
  BY <1>2, <1>6, ReopenedLatest DEF HumanKept, IInv, Typed
<1> QED
  BY <1>2, <1>4, <1>5, <1>7 DEF ResultKeeps, IInv, Typed

LEMMA NewEvaluation ==
    ASSUME RowsTyped, NEW k \in Parties, NEW scores \in SUBSET AllScores
    PROVE  /\ Evaluated(k, scores) \in EvaluationRows /\ ~isRetained(Evaluated(k, scores))
           /\ Latest(k) # None /\ Latest(k).override =>
                /\ Evaluated(k, scores).override
                /\ Evaluated(k, scores).scores = Latest(k).scores
<1>1. Latest(k) # None => Latest(k) \in EvaluationRows
  BY EvaluationSeq DEF Latest
<1>2. CASE Latest(k) # None /\ Latest(k).override
  <2>1. Evaluated(k, scores) = Undecided(Latest(k))
    BY <1>2 DEF Evaluated, Undecided
  <2> QED
    BY <1>1, <1>2, <2>1, UndecidedRow
<1>3. CASE ~(Latest(k) # None /\ Latest(k).override)
  <2>1. Evaluated(k, scores) =
          [status |-> "PENDING", scores |-> scores, override |-> FALSE, basis |-> None]
    BY <1>3 DEF Evaluated
  <2> QED
    BY <1>3, <2>1 DEF EvaluationRows, Reviews, isRetained
<1> QED
  BY <1>2, <1>3

LEMMA EvaluationResult ==
    ASSUME IInv, NEW r \in Runs, run[r].parties = RetainedRows, ApplyEvaluation(r)
    PROVE  ResultKeeps
<1>1. PICK scores \in SUBSET AllScores :
        evaluation' = [k \in Parties |->
              IF run[r].parties[k] # None THEN Append(evaluation[k], Evaluated(k, scores))
              ELSE evaluation[k]]
  BY DEF ApplyEvaluation
<1>2. state' = Touched(state) /\ party' = party /\ requirement' = requirement
  BY DEF ApplyEvaluation
<1>3. state'.method = state.method
  BY <1>2 DEF Touched, IInv, Typed, StateRows
<1>4. ASSUME NEW k \in Parties
      PROVE  LET s == evaluation[k]
                 e == Evaluated(k, scores)
             IN  /\ Append(s, e) \in Seq(EvaluationRows) /\ Append(s, e) # <<>>
                 /\ Len(Append(s, e)) = Len(s) + 1 /\ Len(s) \in Nat
                 /\ DOMAIN Append(s, e) = 1..(Len(s) + 1) /\ DOMAIN s = 1..Len(s)
                 /\ \A i \in 1..Len(s) : Append(s, e)[i] = s[i]
                 /\ Append(s, e)[Len(s) + 1] = e
  BY EvaluationSeq, NewEvaluation DEF IInv, Typed
<1>5. RowsTyped'
  BY <1>1, <1>2, <1>4 DEF IInv, Typed, RowsTyped
<1>6. EvaluatedPartiesExist'
  <2> SUFFICES ASSUME NEW k \in Parties, party[k] = None
               PROVE  evaluation'[k] = <<>>
    BY <1>2 DEF EvaluatedPartiesExist
  <2>1. run[r].parties[k] = None
    BY PipAssumption DEF RetainedRows, isRetained
  <2> QED
    BY <1>1, <2>1 DEF IInv, Decisions, EvaluatedPartiesExist
<1>7. EvaluationUpToDate'
  <2> SUFFICES ASSUME NEW k \in Parties, NEW i \in DOMAIN evaluation'[k],
                      isRetained(evaluation'[k][i])
               PROVE  evaluation'[k][i].basis = Judged(k)'
    BY DEF EvaluationUpToDate, isRetained
  <2>1. Judged(k)' = Judged(k)
    BY <1>2, <1>3 DEF Judged
  <2>2. CASE run[r].parties[k] = None
    BY <1>1, <2>1, <2>2 DEF IInv, Decisions, EvaluationUpToDate
  <2>3. CASE run[r].parties[k] # None
    <3>1. evaluation'[k] = Append(evaluation[k], Evaluated(k, scores))
      BY <1>1, <2>3
    <3>2. i # Len(evaluation[k]) + 1
      BY <1>4, <3>1, NewEvaluation DEF IInv, Typed
    <3>3. i \in 1..Len(evaluation[k])
      BY <1>4, <3>1, <3>2
    <3> QED
      BY <1>4, <2>1, <3>1, <3>3 DEF IInv, Decisions, EvaluationUpToDate
  <2> QED
    BY <2>2, <2>3
<1>8. ASSUME NEW k \in Parties, Latest(k) # None, Latest(k).override
      PROVE  Latest(k)'.override /\ Latest(k)'.scores = Latest(k).scores
  <2>1. CASE run[r].parties[k] = None
    BY <1>1, <1>8, <2>1 DEF Latest
  <2>2. CASE run[r].parties[k] # None
    <3>1. evaluation'[k] = Append(evaluation[k], Evaluated(k, scores))
      BY <1>1, <2>2
    <3>2. Latest(k)' = Evaluated(k, scores)
      BY <1>4, <3>1 DEF Latest
    <3> QED
      BY <1>8, <3>2, NewEvaluation DEF IInv, Typed
  <2> QED
    BY <2>1, <2>2
<1> QED
  BY <1>2, <1>5, <1>6, <1>7, <1>8 DEF ResultKeeps, HumanKept, IInv, Typed

LEMMA Persisted ==
    ASSUME IInv, NEW w \in Slots, Persist(w)
    PROVE  /\ IInv' /\ \A k \in Parties : HumanKept(k)
           /\ \A r \in Runs : run[r].status # "COMPLETED" /\ run'[r].status = "COMPLETED" =>
                run[r].parties = RetainedRows /\ run[r].method = state.method
<1> DEFINE r == slot[w].run
           new == [NoRun EXCEPT !.status = "COMPLETED", !.stage = run[r].stage,
                                !.revision = run[r].revision]
<1>1. /\ slot[w].pc = "persist" /\ run[r].status # "COMPLETED" /\ state.revision = run[r].revision
      /\ run' = [run EXCEPT ![r] = new] /\ Analysis!Goto(w, "end")
      /\ UNCHANGED <<material, job, request>>
  BY DEF Persist, InputUnchanged
<1>2. r \in Runs /\ run[r].status # "none" /\ run[r] \in RunRecords
  BY <1>1, RunAtWork DEF IInv, Typed
<1>3. run[r].parties = RetainedRows /\ run[r].method = state.method
  BY <1>1, <1>2 DEF IInv, Inputs, RunInput
<1>4. ResultKeeps
  BY <1>2, <1>3, InventoryResult, RequirementsResult, EvaluationResult DEF Persist, RunRecords
<1>5. new \in RunRecords /\ new.status = "COMPLETED" /\ new.revision = run[r].revision
  <2>1. [k \in Parties |-> None] \in [Parties -> RetainedRecords]
    BY DEF RetainedRecords
  <2> QED
    BY <1>2, <2>1 DEF RunRecords, NoRun
<1> HIDE DEF new
<1>6. run' \in [Runs -> RunRecords] /\ A!RunsKept
  BY <1>1, <1>2, <1>5 DEF IInv, Typed, A!RunsKept
<1>7. A!Wired(Nat, {})'
  <2>1. A!SlotMoves
    BY <1>1, SharedSteps DEF A!SlotMoves
  <2> QED
    BY <1>6, <2>1, A!SlotMovesWired DEF IInv
<1>8. state' \in StateRows /\ Inputs' /\ ValidatedComplete'
  <2>1. PICK s \in StateRows : s.revision = state.revision /\ state' = Touched(s)
    BY <1>4 DEF ResultKeeps
  <2>2. \A t \in Runs : run'[t].status # "none" =>
          run[t].status # "none" /\ run'[t].revision = run[t].revision
    BY <1>1, <1>2, <1>5 DEF IInv, Typed
  <2> QED
    BY <2>1, <2>2, TouchedState DEF IInv
<1>9. IInv'
  BY <1>1, <1>4, <1>6, <1>7, <1>8 DEF IInv, Typed, Decisions, ResultKeeps
<1>10. \A t \in Runs : run[t].status # "COMPLETED" /\ run'[t].status = "COMPLETED" => t = r
  BY <1>1, <1>2 DEF IInv, Typed
<1> QED
  BY <1>3, <1>4, <1>9, <1>10 DEF ResultKeeps

-----------------------------------------------------------------------------
(* The steps together.                                                     *)

LEMMA Starts ==
    ASSUME Init
    PROVE  IInv
<1>1. PICK done \in DOMAIN WritesOf :
         /\ state = [revision |-> WritesOf[done], limit |-> WritesOf[done] + MaxWrites,
                     method |-> "both", validated |-> done = "evaluated",
                     fingerprint |-> IF done = "nothing" THEN None ELSE 0]
         /\ party = [k \in Parties |->
              IF done = "nothing" THEN None
              ELSE [origin |-> "ai", status |-> "RETAINED", by |-> "ai"]]
         /\ requirement = [k \in Parties |->
              IF done = "nothing" THEN None
              ELSE [status |-> "RETAINED", by |-> "ai", kind |-> "expectation",
                    services |-> CHOOSE x \in Services : TRUE]]
         /\ evaluation = [k \in Parties |->
              IF done # "evaluated" THEN <<>>
              ELSE <<[status |-> "RETAINED", scores |-> AllScores, override |-> TRUE,
                      basis |-> Judged(k)]>>]
  BY DEF Init
<1>2. done \in {"nothing", "allocated", "evaluated"} /\ WritesOf[done] \in Nat
  BY DEF WritesOf
<1>3. /\ material = 0 /\ run = [r \in Runs |-> NoRun] /\ A!Init
  BY SharedSteps DEF Init
<1> DEFINE services == CHOOSE x \in Services : TRUE
           theParty == [origin |-> "ai", status |-> "RETAINED", by |-> "ai"]
           theRequirement == [status |-> "RETAINED", by |-> "ai", kind |-> "expectation",
                              services |-> services]
<1>4. services \in Services
  BY PipAssumption
<1> HIDE DEF services
<1>5. theParty \in PartyRows /\ isRetained(theParty)
  BY PipAssumption DEF PartyRows, Reviews, isRetained
<1>6. /\ theRequirement \in RequirementRows /\ isRetained(theRequirement)
      /\ theRequirement.services = services
  <2>1. theRequirement \in RequirementRows
    BY <1>4 DEF RequirementRows, Reviews, Kinds
  <2> QED
    BY <2>1, PipAssumption DEF isRetained
<1>7. party = [k \in Parties |-> IF done = "nothing" THEN None ELSE theParty]
      /\ requirement = [k \in Parties |-> IF done = "nothing" THEN None ELSE theRequirement]
  BY <1>1 DEF services
<1> HIDE DEF theParty, theRequirement
<1>8. state \in StateRows /\ state.method = "both" /\ (state.validated => done = "evaluated")
      /\ (done # "nothing" => state.fingerprint = 0)
  <2>1. MaxWrites \in Nat /\ WritesOf[done] + MaxWrites \in Nat
    BY <1>2, PipAssumption
  <2>2. state \in StateRows
    BY <1>1, <1>2, <2>1 DEF StateRows
  <2> QED
    BY <1>1, <2>2
<1>9. ASSUME NEW k \in Parties
      PROVE  LET e == [status |-> "RETAINED", scores |-> AllScores, override |-> TRUE,
                       basis |-> Judged(k)]
             IN e \in EvaluationRows /\ isRetained(e) /\ ScoresComplete(e.scores, "both")
  <2> DEFINE e == [status |-> "RETAINED", scores |-> AllScores, override |-> TRUE,
                   basis |-> Judged(k)]
  <2>1. Judged(k) \in [party : PartyRows \cup {None}, requirement : RequirementRows \cup {None},
                       method : Methods \cup {"both"}]
    BY <1>5, <1>6, <1>7, <1>8 DEF Judged
  <2>2. e \in EvaluationRows
    BY <2>1 DEF EvaluationRows, Reviews
  <2> QED
    BY <2>2, PipAssumption DEF isRetained, ScoresComplete, AllScores
<1>10. RowsTyped
  <2>1. party \in [Parties -> PartyRows \cup {None}]
        /\ requirement \in [Parties -> RequirementRows \cup {None}]
    BY <1>5, <1>6, <1>7
  <2>2. \A k \in Parties : evaluation[k] \in Seq(EvaluationRows)
    <3> SUFFICES ASSUME NEW k \in Parties PROVE evaluation[k] \in Seq(EvaluationRows)
      OBVIOUS
    <3>1. CASE done = "evaluated"
      BY <1>1, <1>9, <3>1
    <3>2. CASE done # "evaluated"
      BY <1>1, <3>2
    <3> QED
      BY <3>1, <3>2
  <2>3. evaluation \in [Parties -> Seq(EvaluationRows)]
    BY <1>1, <2>2
  <2> QED
    BY <2>1, <2>3 DEF RowsTyped
<1>11. Typed /\ Inputs
  <2>1. NoRun \in RunRecords
    BY DEF NoRun, RunRecords, RetainedRecords
  <2> QED
    BY <1>3, <1>8, <1>10, <2>1 DEF Typed, Inputs, RunInput, NoRun
<1>12. EvaluatedPartiesExist /\ EvaluationUpToDate
  BY <1>1, <1>2, <1>5, <1>7, PipAssumption DEF EvaluatedPartiesExist, EvaluationUpToDate
<1>13. ValidatedComplete
  <2> SUFFICES ASSUME done = "evaluated" PROVE ValidatedComplete
    BY <1>8 DEF ValidatedComplete
  <2>1. RetainedParties # {} /\ state.fingerprint # None
    BY <1>5, <1>7, <1>8, PipAssumption DEF RetainedParties
  <2>2. \A k \in Parties : isRetained(requirement[k]) /\ requirement[k].services # None
    BY <1>4, <1>6, <1>7, PipAssumption
  <2>3. \A k \in Parties : evaluationComplete(k, "both")
    BY <1>1, <1>9 DEF evaluationComplete, Latest
  <2> QED
    BY <1>8, <2>1, <2>2, <2>3 DEF ValidatedComplete, Complete, AllocationDone, RequirementsDone,
       InventoryDone, RetainedParties
<1>14. A!Wired(Nat, {})
  BY <1>3, Parameters, A!InitWired DEF NoRun
<1> QED
  BY <1>11, <1>12, <1>13, <1>14 DEF IInv, Decisions

NothingCompletes ==
    \A r \in Runs : run'[r].status = "COMPLETED" => run[r].status = "COMPLETED"

LEMMA OtherSteps ==
    ASSUME IInv, Next, \A w \in Slots : ~Persist(w)
    PROVE  IInv' /\ NothingCompletes
<1>1. CASE Write
  <2>1. UNCHANGED run
    BY <1>1 DEF Write, ChangeMaterial, Answer, AddParty, AddRequirement, ReviewParty,
       ReviewRequirement, Allocate, ReviewEvaluation
  <2> QED
    BY <1>1, <2>1, WriteStep DEF NothingCompletes
<1>2. ASSUME NEW q \in Requests, RequestStep(q)
      PROVE  IInv' /\ NothingCompletes
  <2>1. CASE ReadMaterial(q) \/ Enqueue(q) \/ EnqueueFails(q) \/ RequestEnds(q)
    <3>1. UNCHANGED run \/ run' = [run EXCEPT ![request[q].run].status = "FAILED"]
      BY <2>1 DEF ReadMaterial, Enqueue, EnqueueFails, RequestEnds, Analysis!Read,
         Analysis!Enqueue, Analysis!EnqueueFails, Analysis!RequestEnds
    <3> QED
      BY <2>1, <3>1, QuietRequestStep DEF NothingCompletes, IInv, Typed, RunRecords
  <2>2. CASE Validate(q)
    BY <2>2, ValidateKeeps DEF Validate, NothingCompletes
  <2>3. ASSUME NEW stage \in Stages, NEW method \in Methods, Launch(q, stage, method)
        PROVE  IInv' /\ NothingCompletes
    <3> DEFINE new == [status |-> "DRAFT", stage |-> stage, revision |-> state'.revision,
                       fingerprint |-> request[q].read, method |-> state'.method,
                       parties |-> RetainedRows]
    <3>1. Analysis!Create(q, new) /\ new.status = "DRAFT"
      BY <2>3 DEF Launch
    <3> HIDE DEF new
    <3>2. PICK r \in Runs : run' = [run EXCEPT ![r] = new]
      BY <3>1 DEF Analysis!Create
    <3> QED
      BY <2>3, <3>1, <3>2, LaunchKeeps DEF NothingCompletes, IInv, Typed
  <2> QED
    BY <1>2, <2>1, <2>2, <2>3 DEF RequestStep
<1>3. ASSUME NEW w \in Slots,
             MarkRunning(w) \/ Generate(w) \/ PersistDone(w) \/ PersistFails(w) \/ FailRun(w)
      PROVE  IInv' /\ NothingCompletes
  <2>1. UNCHANGED run \/ \E r : \E status \in {"RUNNING", "FAILED"} :
                           run' = [run EXCEPT ![r].status = status]
    BY <1>3 DEF MarkRunning, Generate, PersistDone, PersistFails, FailRun, Analysis!MarkRunning,
       Analysis!AlreadyPersisted, Analysis!PersistFails, Analysis!FailRun
  <2> QED
    BY <1>3, <2>1, QuietSlotStep DEF NothingCompletes, IInv, Typed, RunRecords
<1>4. ASSUME NEW r \in Runs,
             Stall(r) \/ \E w \in Slots : TakeJob(w, r) \/ EndJob(w) \/ Crash(w)
      PROVE  IInv' /\ NothingCompletes
  <2>1. UNCHANGED run
    BY <1>4 DEF TakeJob, EndJob, Crash, Stall, Analysis!TakeJob, Analysis!EndJob,
       Analysis!Crash, Analysis!Stall
  <2> QED
    BY <1>4, <2>1, JobStep DEF NothingCompletes
<1>5. ASSUME NEW w \in Slots, EndJob(w) \/ Crash(w)
      PROVE  slot[w].run \in Runs
  BY <1>5, RunAtWork DEF EndJob, Crash, Analysis!EndJob, Analysis!Crash
<1>6. CASE \E q \in Requests : RequestStep(q)
  BY <1>2, <1>6
<1>7. CASE \E r \in Runs : Stall(r) \/ \E w \in Slots : TakeJob(w, r)
  BY <1>4, <1>7
<1>8. CASE \E w \in Slots : Proceed(w) \/ Crash(w)
  BY <1>3, <1>4, <1>5, <1>8 DEF Proceed
<1> QED
  BY <1>1, <1>6, <1>7, <1>8 DEF Next

\* Every step keeps the inductive invariant, and does to a run that completes and to
\* what people wrote what the properties ask for.
LEMMA StepKeeps ==
    ASSUME IInv, [Next]_vars
    PROVE  /\ IInv'
           /\ \A r \in Runs : run[r].status # "COMPLETED" /\ run'[r].status = "COMPLETED" =>
                /\ run[r].parties = RetainedRows /\ run[r].method = state.method
                /\ \A k \in Parties : HumanKept(k)
<1>1. CASE UNCHANGED vars
  <2>1. UNCHANGED <<material, state, rows, run, job, request, slot>>
    BY <1>1 DEF vars, worker
  <2>2. A!Wired(Nat, {})'
    BY <2>1, SameRuns, A!RunsMoveWired DEF IInv
  <2> QED
    BY <2>1, <2>2, SameRuns, RegisterKept
<1>2. CASE \E w \in Slots : Persist(w)
  BY <1>2, Persisted
<1>3. CASE Next /\ \A w \in Slots : ~Persist(w)
  BY <1>3, OtherSteps DEF NothingCompletes
<1> QED
  BY <1>1, <1>2, <1>3

LEMMA InvariantTypes ==
    ASSUME IInv
    PROVE  TypeOK
<1>1. Analysis!Queue!TypeOK
  BY DEF IInv, A!Wired, A!JobsTyped, A!JobRecords, Analysis!Queue!TypeOK
<1>2. request \in [Requests -> Analysis!RequestTypes(Nat)]
  BY DEF IInv, A!Wired, A!RequestsWired, A!RequestTypes, Analysis!RequestTypes
<1>3. slot \in [Slots -> Analysis!SlotTypes({})]
  BY DEF IInv, A!Wired, A!SlotsWired, A!SlotTypes, Analysis!SlotTypes
<1> QED
  BY <1>1, <1>2, <1>3 DEF IInv, Typed, StateRows, RowsTyped, TypeOK

\* Rows, runs, jobs and requests hold what their tables can hold, for any number of
\* parties, runs, requests, slots and attempts.
THEOREM TypeCorrect == Spec => []TypeOK
<1>1. Init => IInv
  BY Starts
<1>2. IInv /\ [Next]_vars => IInv'
  BY StepKeeps
<1>3. IInv => TypeOK
  BY InvariantTypes
<1> QED
  BY <1>1, <1>2, <1>3, PTL DEF Spec

\* A retained evaluation is a decision on the party, the requirement, the allocation
\* and the method as they are now.
THEOREM EvaluationsAreUpToDate == Spec => []EvaluationUpToDate
<1>1. Init => IInv
  BY Starts
<1>2. IInv /\ [Next]_vars => IInv'
  BY StepKeeps
<1>3. IInv => EvaluationUpToDate
  BY DEF IInv, Decisions
<1> QED
  BY <1>1, <1>2, <1>3, PTL DEF Spec

\* What is shown as validated is complete.
THEOREM ValidatedIsComplete == Spec => []ValidatedComplete
<1>1. Init => IInv
  BY Starts
<1>2. IInv /\ [Next]_vars => IInv'
  BY StepKeeps
<1>3. IInv => ValidatedComplete
  BY DEF IInv, Decisions
<1> QED
  BY <1>1, <1>2, <1>3, PTL DEF Spec

\* A result is applied to the register that its run was launched with, for any number
\* of runs, slots, redeliveries and writes in between.
THEOREM ResultsFitTheRegister == Spec => AppliedToItsRegister
<1>1. Init => IInv
  BY Starts
<1>2. IInv /\ [Next]_vars => IInv'
  BY StepKeeps
<1>3. IInv /\ [Next]_vars =>
        [\A r \in Runs :
           (run[r].status # "COMPLETED" /\ run'[r].status = "COMPLETED") =>
             run[r].parties = RetainedRows /\ run[r].method = state.method]_vars
  BY StepKeeps
<1> QED
  BY <1>1, <1>2, <1>3, PTL DEF Spec, AppliedToItsRegister

\* No result of an analysis replaces what a person wrote.
THEOREM PeopleAreKept == Spec => HumanContentKept
<1>1. Init => IInv
  BY Starts
<1>2. IInv /\ [Next]_vars => IInv'
  BY StepKeeps
<1>3. IInv /\ [Next]_vars =>
        [(\E r \in Runs : run[r].status # "COMPLETED" /\ run'[r].status = "COMPLETED") =>
         \A k \in Parties :
           /\ party[k] # None => party'[k].by = party[k].by
           /\ requirement[k] # None =>
                requirement'[k].by = requirement[k].by /\ requirement'[k].kind = requirement[k].kind
           /\ Latest(k) # None /\ Latest(k).override =>
                Latest(k)'.override /\ Latest(k)'.scores = Latest(k).scores]_vars
  BY StepKeeps DEF HumanKept
<1> QED
  BY <1>1, <1>2, <1>3, PTL DEF Spec, HumanContentKept

-----------------------------------------------------------------------------
(* The risks and opportunities of MCSmq.                                   *)

Risks == INSTANCE RoRegister_proofs WITH
    Slots <- RoSlots, Attempts <- RoAttempts, MaxWrites <- RoMaxWrites,
    SourceOf <- [i \in Items |-> CHOOSE s \in Sources : TRUE],
    BranchOf <- [s \in Sources |-> "context_issue"],
    evidence <- roEvidence, state <- roState, item <- roItem, action <- roAction,
    run <- roRun, job <- roJob, request <- roRequest, slot <- roSlot

\* Ro and Risks are the same register.
LEMMA RisksParameters == Risks!RoParameters
BY PipAssumption, RoAssumption DEF Risks!RoParameters,
  Ro!Branches, Risks!Branches, Ro!Reviews, Risks!Reviews, Ro!Writers, Risks!Writers, Ro!Runs,
  Risks!Runs, Ro!Bases, Risks!Bases, Ro!Effective, Risks!Effective, Ro!Treatments, Risks!Treatments,
  Ro!ItemRows, Risks!ItemRows, Ro!ActionRows, Risks!ActionRows

LEMMA RisksSteps ==
    (Ro!Init <=> Risks!Init) /\ ([Ro!Next]_(Ro!vars) <=> [Risks!Next]_(Risks!vars))
BY Zenon DEF
  Ro!Runs, Risks!Runs, Ro!Branches, Risks!Branches, Ro!rows, Risks!rows, Ro!worker, Risks!worker,
  Ro!vars, Risks!vars, Ro!Stages, Risks!Stages, Ro!Reviews, Risks!Reviews, Ro!NoRun, Risks!NoRun,
  Ro!Fingerprint, Risks!Fingerprint, Ro!SourcesIn, Risks!SourcesIn, Ro!Present, Risks!Present,
  Ro!Visible, Risks!Visible, Ro!Outdated, Risks!Outdated, Ro!isRetainedRo, Risks!isRetainedRo,
  Ro!RatingDecided, Risks!RatingDecided, Ro!roTreatmentEligible, Risks!roTreatmentEligible,
  Ro!ItemsReviewed, Risks!ItemsReviewed, Ro!ControlsDeclared, Risks!ControlsDeclared, Ro!Complete,
  Risks!Complete, Ro!Proposed, Risks!Proposed, Ro!Treats, Risks!Treats, Ro!WritesOf, Risks!WritesOf,
  Ro!Init, Risks!Init, Ro!Touched, Risks!Touched, Ro!Change, Risks!Change, Ro!ChangeEvidence,
  Risks!ChangeEvidence, Ro!ReadMaterial, Risks!ReadMaterial, Ro!WriteItem, Risks!WriteItem,
  Ro!AddItem, Risks!AddItem, Ro!Reopen, Risks!Reopen, Ro!ReviewItem, Risks!ReviewItem, Ro!Rate,
  Risks!Rate, Ro!DeclareControls, Risks!DeclareControls, Ro!AddAction, Risks!AddAction,
  Ro!ReviewAction, Risks!ReviewAction, Ro!Progress, Risks!Progress, Ro!Effectiveness,
  Risks!Effectiveness, Ro!Launch, Risks!Launch, Ro!Enqueue, Risks!Enqueue, Ro!EnqueueFails,
  Risks!EnqueueFails, Ro!RequestEnds, Risks!RequestEnds, Ro!Validate, Risks!Validate, Ro!TakeJob,
  Risks!TakeJob, Ro!MarkRunning, Risks!MarkRunning, Ro!Treatment, Risks!Treatment, Ro!Asked,
  Risks!Asked, Ro!Generate, Risks!Generate, Ro!ApplyGeneration, Risks!ApplyGeneration,
  Ro!ApplyTreatment, Risks!ApplyTreatment, Ro!InputUnchanged, Risks!InputUnchanged, Ro!Persist,
  Risks!Persist, Ro!PersistDone, Risks!PersistDone, Ro!PersistFails, Risks!PersistFails, Ro!FailRun,
  Risks!FailRun, Ro!EndJob, Risks!EndJob, Ro!Crash, Risks!Crash, Ro!Stall, Risks!Stall, Ro!Write,
  Risks!Write, Ro!RequestStep, Risks!RequestStep, Ro!Proceed, Risks!Proceed, Ro!Next, Risks!Next,
  Ro!Analysis!Ended, Risks!Analysis!Ended, Ro!Analysis!Free, Risks!Analysis!Free, Ro!Analysis!Idle,
  Risks!Analysis!Idle, Ro!Analysis!Init, Risks!Analysis!Init, Ro!Analysis!NoOtherActive,
  Risks!Analysis!NoOtherActive, Ro!Analysis!NoActiveRun, Risks!Analysis!NoActiveRun,
  Ro!Analysis!IsNext, Risks!Analysis!IsNext, Ro!Analysis!Read, Risks!Analysis!Read,
  Ro!Analysis!Done, Risks!Analysis!Done, Ro!Analysis!Create, Risks!Analysis!Create,
  Ro!Analysis!Enqueue, Risks!Analysis!Enqueue, Ro!Analysis!EnqueueFails,
  Risks!Analysis!EnqueueFails, Ro!Analysis!RequestEnds, Risks!Analysis!RequestEnds,
  Ro!Analysis!Goto, Risks!Analysis!Goto, Ro!Analysis!TakeJob, Risks!Analysis!TakeJob,
  Ro!Analysis!MoreAttempts, Risks!Analysis!MoreAttempts, Ro!Analysis!MarkRunning,
  Risks!Analysis!MarkRunning, Ro!Analysis!AlreadyPersisted, Risks!Analysis!AlreadyPersisted,
  Ro!Analysis!PersistFails, Risks!Analysis!PersistFails, Ro!Analysis!FailRun,
  Risks!Analysis!FailRun, Ro!Analysis!EndJob, Risks!Analysis!EndJob, Ro!Analysis!Crash,
  Risks!Analysis!Crash, Ro!Analysis!Stall, Risks!Analysis!Stall, Ro!Analysis!Active,
  Risks!Analysis!Active, Ro!Analysis!Queue!NoJob, Risks!Analysis!Queue!NoJob,
  Ro!Analysis!Queue!Added, Risks!Analysis!Queue!Added, Ro!Analysis!Queue!Add,
  Risks!Analysis!Queue!Add, Ro!Analysis!Queue!Taken, Risks!Analysis!Queue!Taken,
  Ro!Analysis!Queue!Take, Risks!Analysis!Queue!Take, Ro!Analysis!Queue!Completed,
  Risks!Analysis!Queue!Completed, Ro!Analysis!Queue!Complete, Risks!Analysis!Queue!Complete,
  Ro!Analysis!Queue!Thrown, Risks!Analysis!Queue!Thrown, Ro!Analysis!Queue!Throw,
  Risks!Analysis!Queue!Throw, Ro!Analysis!Queue!Recovered, Risks!Analysis!Queue!Recovered,
  Ro!Analysis!Queue!Stall, Risks!Analysis!Queue!Stall, Ro!Analysis!Queue!Init,
  Risks!Analysis!Queue!Init

LEMMA RisksProperties ==
    RisksTreated <=> Risks!TypeOK /\ Risks!ActionUpToDate /\ Risks!ValidatedComplete
<1>1. Ro!TypeOK <=> Risks!TypeOK
  BY Zenon DEF
     Ro!Branches, Risks!Branches, Ro!Reviews, Risks!Reviews, Ro!Writers, Risks!Writers, Ro!Runs,
     Risks!Runs, Ro!Bases, Risks!Bases, Ro!Effective, Risks!Effective, Ro!Treatments,
     Risks!Treatments, Ro!ItemRows, Risks!ItemRows, Ro!ActionRows, Risks!ActionRows,
     Ro!EvidenceRecords, Risks!EvidenceRecords, Ro!Fingerprints, Risks!Fingerprints, Ro!TypeOK,
     Risks!TypeOK, Ro!Analysis!RequestTypes, Risks!Analysis!RequestTypes, Ro!Analysis!SlotTypes,
     Risks!Analysis!SlotTypes, Ro!Analysis!Queue!TypeOK, Risks!Analysis!Queue!TypeOK
<1>2. Ro!ActionUpToDate <=> Risks!ActionUpToDate
  BY Zenon DEF
     Ro!ActionUpToDate, Risks!ActionUpToDate, Ro!isRetainedRo, Risks!isRetainedRo, Ro!Treats,
     Risks!Treats
<1>3. Ro!ValidatedComplete <=> Risks!ValidatedComplete
  BY Zenon DEF
     Ro!ValidatedComplete, Risks!ValidatedComplete, Ro!Complete, Risks!Complete,
     Ro!ControlsDeclared, Risks!ControlsDeclared, Ro!ItemsReviewed, Risks!ItemsReviewed,
     Ro!Outdated, Risks!Outdated, Ro!Visible, Risks!Visible, Ro!Present, Risks!Present,
     Ro!Fingerprint, Risks!Fingerprint, Ro!RatingDecided, Risks!RatingDecided, Ro!isRetainedRo,
     Risks!isRetainedRo, Ro!Branches, Risks!Branches
<1> QED
  BY <1>1, <1>2, <1>3 DEF RisksTreated

\* The actions of the register are decided for the items as they are, and what is shown as
\* validated is complete, for any numbers of items, sources, levels, runs and slots.
THEOREM RisksAreTreated == Ro!Spec => []RisksTreated
<1>1. /\ Risks!Spec => []Risks!TypeOK
      /\ Risks!Spec => []Risks!ActionUpToDate
      /\ Risks!Spec => []Risks!ValidatedComplete
  BY RisksParameters, Risks!TypeCorrect, Risks!ActionsAreUpToDate, Risks!ValidatedIsComplete
<1>2. Ro!Init <=> Risks!Init
  BY RisksSteps
<1>3. [Ro!Next]_(Ro!vars) <=> [Risks!Next]_(Risks!vars)
  BY RisksSteps
<1>4. RisksTreated <=> Risks!TypeOK /\ Risks!ActionUpToDate /\ Risks!ValidatedComplete
  BY RisksProperties
<1> QED
  BY <1>1, <1>2, <1>3, <1>4, PTL DEF Ro!Spec, Risks!Spec

\* A treatment is applied to the items that it was made from.
THEOREM TreatmentsFitTheItems == Ro!Spec => AppliedToTheItems
<1>1. Risks!Spec => Risks!AppliedToItsRegister
  BY RisksParameters, Risks!TreatmentsFitTheRegister
<1>2. Ro!Init <=> Risks!Init
  BY RisksSteps
<1>3. [Ro!Next]_(Ro!vars) <=> [Risks!Next]_(Risks!vars)
  BY RisksSteps
<1> QED
  BY <1>1, <1>2, <1>3, PTL DEF Ro!Spec, Risks!Spec, AppliedToTheItems,
     Ro!AppliedToItsRegister, Risks!AppliedToItsRegister, Ro!vars, Risks!vars, Ro!rows,
     Risks!rows, Ro!worker, Risks!worker

-----------------------------------------------------------------------------
(* The jobs.                                                               *)

LEMMA QueueSteps ==
    ASSUME IInv, [Next]_vars
    PROVE  [A!Queue!Next]_job
<1>w. A!Wired(Nat, {})
  BY DEF IInv
<1>1. CASE UNCHANGED vars
  BY <1>1 DEF vars, worker
<1>2. CASE Write
  BY <1>2 DEF worker, Write, ChangeMaterial, Answer, AddParty, AddRequirement, ReviewParty,
     ReviewRequirement, Allocate, ReviewEvaluation
<1>3. ASSUME NEW q \in Requests, RequestStep(q)
      PROVE  [A!Queue!Next]_job
  <2>1. CASE Enqueue(q)
    <3>1. A!Enqueue(q)
      BY <2>1, SharedSteps DEF Enqueue
    <3> QED
      BY <1>w, <3>1, A!QueueMoves
  <2>2. CASE ~Enqueue(q)
    BY <1>3, <2>2 DEF RequestStep, worker, ReadMaterial, Validate, Launch, EnqueueFails,
       RequestEnds, Analysis!EnqueueFails, Analysis!RequestEnds, Analysis!Create,
       Analysis!Read, Analysis!Done
  <2> QED
    BY <2>1, <2>2
<1>4. ASSUME NEW w \in Slots, Proceed(w) \/ Crash(w)
      PROVE  [A!Queue!Next]_job
  <2>1. CASE EndJob(w)
    <3>1. A!EndJob(w)
      BY <2>1, SharedSteps DEF EndJob
    <3> QED
      BY <1>w, <3>1, A!QueueMoves
  <2>2. CASE ~EndJob(w)
    BY <1>4, <2>2 DEF Proceed, Crash, MarkRunning, Generate, Persist, PersistDone, PersistFails,
       FailRun, Analysis!MarkRunning, Analysis!AlreadyPersisted,
       Analysis!PersistFails, Analysis!FailRun, Analysis!Crash, Analysis!Goto
  <2> QED
    BY <2>1, <2>2
<1>5. ASSUME NEW r \in Runs, Stall(r) \/ \E w \in Slots : TakeJob(w, r)
      PROVE  [A!Queue!Next]_job
  <2>1. A!Stall(r) \/ \E w \in Slots : A!TakeJob(w, r)
    BY <1>5, SharedSteps DEF Stall, TakeJob
  <2> QED
    BY <1>w, <2>1, A!QueueMoves
<1> QED
  BY <1>1, <1>2, <1>3, <1>4, <1>5 DEF Next

LEMMA SameQueue ==
    /\ A!Queue!Delivery!Init <=> Analysis!Queue!Delivery!Init
    /\ [A!Queue!Delivery!Next]_([i \in Runs |-> A!Queue!Progress(job[i])])
       <=> [Analysis!Queue!Delivery!Next]_([i \in Runs |-> Analysis!Queue!Progress(job[i])])
BY Zenon DEF A!Queue!Progress, Analysis!Queue!Progress, A!Queue!Delivery!Init,
  Analysis!Queue!Delivery!Init, A!Queue!Delivery!Add, Analysis!Queue!Delivery!Add,
  A!Queue!Delivery!Deliver, Analysis!Queue!Delivery!Deliver,
  A!Queue!Delivery!Complete, Analysis!Queue!Delivery!Complete,
  A!Queue!Delivery!GiveUp, Analysis!Queue!Delivery!GiveUp, A!Queue!Delivery!Next,
  Analysis!Queue!Delivery!Next

\* The jobs of the analyses of the parties make only steps of the queue, which delivers
\* each of them at most once for every attempt and every stall it forgives.
THEOREM JobsAreDelivered == Spec => Analysis!Queue!DeliveryImplemented
<1>1. Init => IInv /\ A!Queue!Init
  <2>1. Init => A!Init
    BY SharedSteps DEF Init
  <2> QED
    BY <2>1, Starts DEF A!Init
<1>2. IInv /\ [Next]_vars => IInv' /\ [A!Queue!Next]_job
  BY StepKeeps, QueueSteps
<1>3. A!Queue!Spec => A!Queue!DeliveryImplemented
  BY Parameters, A!DeliveryIsImplemented
<1>4. Spec => A!Queue!DeliveryImplemented
  BY <1>1, <1>2, <1>3, PTL DEF Spec, A!Queue!Spec
<1>5. A!Queue!Delivery!Init <=> Analysis!Queue!Delivery!Init
  BY SameQueue
<1>6. [A!Queue!Delivery!Next]_([i \in Runs |-> A!Queue!Progress(job[i])])
       <=> [Analysis!Queue!Delivery!Next]_([i \in Runs |-> Analysis!Queue!Progress(job[i])])
  BY SameQueue
<1> QED
  BY <1>4, <1>5, <1>6, PTL DEF A!Queue!DeliveryImplemented,
     Analysis!Queue!DeliveryImplemented, A!Queue!Delivery!Spec,
     Analysis!Queue!Delivery!Spec

-----------------------------------------------------------------------------
(* The composition.                                                        *)

\* Each register behaves as its module says while the other stays: what is proved of a module
\* holds of it in the composition.
THEOREM RegistersBehave == MCSpec => Spec /\ Ro!Spec
<1>1. MCInit => Init /\ Ro!Init
  BY DEF MCInit, RoStarts, PipStarts
<1>2. [MCNext]_mcVars => [Next]_vars
  BY DEF MCNext, mcVars
<1>3. [MCNext]_mcVars => [Ro!Next]_(Ro!vars)
  BY DEF MCNext, mcVars, roVars, Ro!vars, Ro!rows, Ro!worker
<1> QED
  BY <1>1, <1>2, <1>3, PTL DEF MCSpec, Spec, Ro!Spec

-----------------------------------------------------------------------------
(* Who is at work on a run.                                                *)

LEMMA SharedWork ==
    /\ \A q : Analysis!EnqueueFails(q) <=> A!EnqueueFails(q)
    /\ \A w : Analysis!MarkRunning(w) <=> A!MarkRunning(w)
    /\ \A w, statuses : Analysis!AlreadyPersisted(w, statuses) <=> A!AlreadyPersisted(w, statuses)
    /\ \A w : Analysis!PersistFails(w) <=> A!PersistFails(w)
    /\ \A w : Analysis!FailRun(w) <=> A!FailRun(w)
    /\ Analysis!RunEndsWithItsJob <=> A!RunEndsWithItsJob
BY SharedSteps DEF Analysis!EnqueueFails, A!EnqueueFails, Analysis!MarkRunning, A!MarkRunning,
  Analysis!NoOtherActive, A!NoOtherActive, Analysis!Active, A!Active,
  Analysis!AlreadyPersisted, A!AlreadyPersisted, Analysis!PersistFails, A!PersistFails,
  Analysis!FailRun, A!FailRun, Analysis!RunEndsWithItsJob, A!RunEndsWithItsJob,
  Analysis!Ended, A!Ended

LEMMA RunsAreRows ==
    ASSUME IInv
    PROVE  A!RunsAreRows
BY DEF IInv, Typed, RunRecords, A!RunsAreRows

LEMMA WorkSteps ==
    ASSUME IInv, [Next]_vars
    PROVE  A!WorkStep /\ (A!EndedKept \/ \E w \in Slots : A!MarkRunning(w))
<1>w. A!Wired(Nat, {}) /\ A!RunsAreRows
  BY RunsAreRows DEF IInv
<1>1. CASE UNCHANGED vars \/ Write
  BY <1>1 DEF vars, worker, Write, ChangeMaterial, Answer, AddParty, AddRequirement,
     ReviewParty, ReviewRequirement, Allocate, ReviewEvaluation, A!WorkStep, A!EndedKept
<1>2. ASSUME NEW q \in Requests, RequestStep(q)
      PROVE  A!WorkStep /\ A!EndedKept
  <2>1. CASE EnqueueFails(q)
    <3>1. A!EnqueueFails(q)
      BY <2>1, SharedWork DEF EnqueueFails
    <3> QED
      BY <1>w, <3>1, A!FailedRequest
  <2>2. ASSUME NEW stage \in Stages, NEW method \in Methods, Launch(q, stage, method)
        PROVE  A!WorkStep /\ A!EndedKept
    <3>1. PICK row : row.status = "DRAFT" /\ A!Create(q, row)
      BY <2>2, SharedSteps DEF Launch
    <3>2. UNCHANGED <<job, slot>>
      BY <2>2 DEF Launch, worker
    <3> QED
      BY <1>w, <3>1, <3>2, A!RequestsAtWork
  <2>3. CASE ReadMaterial(q) \/ Validate(q) \/ RequestEnds(q)
    <3>1. UNCHANGED <<run, job, slot>>
      BY <2>3 DEF ReadMaterial, Validate, RequestEnds, worker, Analysis!Read,
         Analysis!RequestEnds
    <3> QED
      BY <1>w, <3>1, A!RequestsAtWork
  <2>4. CASE Enqueue(q)
    <3>1. A!Enqueue(q) /\ UNCHANGED slot
      BY <2>4, SharedSteps DEF Enqueue, Analysis!Enqueue
    <3> QED
      BY <1>w, <3>1, A!RequestsAtWork
  <2> QED
    BY <1>2, <2>1, <2>2, <2>3, <2>4 DEF RequestStep
<1>3. ASSUME NEW w \in Slots, MarkRunning(w)
      PROVE  A!WorkStep /\ A!MarkRunning(w)
  BY <1>w, <1>3, SharedWork, A!SlotsAtWork DEF MarkRunning
<1>4. ASSUME NEW w \in Slots, Proceed(w), ~MarkRunning(w)
      PROVE  A!WorkStep /\ A!EndedKept
  <2>1. CASE Generate(w)
    <3>1. /\ slot[w].pc # "idle" /\ UNCHANGED <<run, job>>
          /\ \E pc \in {"persist", "fail", "throw"} : A!Goto(w, pc)
      BY <2>1, SharedSteps DEF Generate
    <3>2. A!WorkStep
      BY <1>w, <3>1, A!GoesOn
    <3> QED
      BY <3>1, <3>2 DEF A!EndedKept
  <2>2. CASE Persist(w)
    <3>1. PICK row : row.status = "COMPLETED" /\ run' = [run EXCEPT ![slot[w].run] = row]
      BY <2>2 DEF Persist, NoRun
    <3>2. slot[w].pc # "idle" /\ UNCHANGED job /\ A!Goto(w, "end") /\ row.status \in A!Ended
      BY <2>2, <3>1, SharedSteps DEF Persist, A!Ended
    <3> QED
      BY <1>w, <3>1, <3>2, A!ResultAtWork
  <2>3. CASE PersistDone(w)
    <3>1. A!AlreadyPersisted(w, {"COMPLETED"}) /\ {"COMPLETED"} \in SUBSET A!Ended
      BY <2>3, SharedWork DEF PersistDone, A!Ended
    <3> QED
      BY <1>w, <3>1, A!SlotsAtWork
  <2>4. CASE PersistFails(w) \/ FailRun(w)
    <3>1. A!PersistFails(w) \/ A!FailRun(w)
      BY <2>4, SharedWork DEF PersistFails, FailRun
    <3> QED
      BY <1>w, <3>1, A!SlotsAtWork
  <2>5. CASE EndJob(w)
    <3>1. A!EndJob(w)
      BY <2>5, SharedSteps DEF EndJob
    <3> QED
      BY <1>w, <3>1, A!RunAtWork, A!JobsAtWork DEF A!EndJob
  <2> QED
    BY <1>4, <2>1, <2>2, <2>3, <2>4, <2>5 DEF Proceed
<1>5. ASSUME NEW r \in Runs, Stall(r) \/ \E w \in Slots : TakeJob(w, r)
      PROVE  A!WorkStep /\ A!EndedKept
  <2>1. A!Stall(r) \/ \E w \in Slots : A!TakeJob(w, r)
    BY <1>5, SharedSteps DEF Stall, TakeJob
  <2> QED
    BY <2>1, A!JobsAtWork
<1>6. ASSUME NEW w \in Slots, Crash(w)
      PROVE  A!WorkStep /\ A!EndedKept
  <2>1. A!Crash(w)
    BY <1>6, SharedSteps DEF Crash
  <2> QED
    BY <1>w, <2>1, A!RunAtWork, A!JobsAtWork DEF A!Crash
<1> QED
  BY <1>1, <1>2, <1>3, <1>4, <1>5, <1>6 DEF Next

\* When the queue has completed the job of an analysis of the parties, and gave it to no
\* second slot meanwhile, the run has ended: it does not keep the others out any more.
THEOREM RunsEndWithTheirJobs == Spec => []Analysis!RunEndsWithItsJob
<1> DEFINE AtWork == A!AllHeld /\ A!SettledUnlessStalled
<1>1. Init => IInv /\ AtWork
  <2>1. Init => A!Init
    BY SharedSteps DEF Init
  <2> QED
    BY <2>1, Starts, A!NobodyAtWork
<1>2. IInv /\ AtWork /\ [Next]_vars => IInv' /\ AtWork'
  <2> SUFFICES ASSUME IInv, AtWork, [Next]_vars
               PROVE  IInv' /\ AtWork'
    OBVIOUS
  <2>1. A!WorkStep /\ (A!EndedKept \/ \E w \in Slots : A!MarkRunning(w))
    BY WorkSteps
  <2>2. A!Wired(Nat, {}) /\ run \in [Runs -> RunRecords]
    BY DEF IInv, Typed
  <2> QED
    BY <2>1, <2>2, StepKeeps, A!HeldKept, A!UnlessStalledKept
<1>3. AtWork => A!RunEndsWithItsJob
  BY DEF A!SettledUnlessStalled, A!Settled, A!RunEndsWithItsJob
<1>4. A!RunEndsWithItsJob <=> Analysis!RunEndsWithItsJob
  BY SharedWork
<1> HIDE DEF AtWork
<1> QED
  BY <1>1, <1>2, <1>3, <1>4, PTL DEF Spec
=============================================================================
