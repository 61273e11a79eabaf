-------------------------- MODULE RoRegister_proofs --------------------------
(***************************************************************************)
(* What holds of RoRegister for all items, sources, runs and slots.        *)
(*                                                                         *)
(* The inductive invariant says, beside the types and the wiring of the    *)
(* queue, of each item how its action stands to it (RowOK); that a run     *)
(* whose revision is the current one was given the items as they are now;  *)
(* and that what its slot read outside the transaction is still true.      *)
(***************************************************************************)
EXTENDS RoRegister, TLAPS

A == INSTANCE AnalysisRun_proofs

Prints == {f \in [Branches -> UNION {Fingerprints(b) \cup {None} : b \in Branches}] :
             \A b \in Branches : f[b] \in Fingerprints(b) \cup {None}}

StateRows ==
    [revision : Nat, limit : Nat, branch : Prints, validated : EvidenceRecords \cup {None}]

RunRecords ==
    [status : {"none", "DRAFT", "RUNNING", "COMPLETED", "FAILED"}, stage : Stages \cup {None},
     branch : Branches \cup {None}, revision : Nat, evidence : EvidenceRecords \cup {None},
     items : [Items -> ItemRows \cup {None}]]

\* There are items, levels and attempts, each item has its source or none, and None is
\* none of the values it is told from.
RoParameters ==
    /\ MaxRuns \in Nat /\ MaxWrites \in Nat /\ MaxEvidence \in Nat
    /\ Attempts \in Nat \ {0} /\ MaxStalled \in Nat
    /\ Items # {} /\ Levels # {}
    /\ SourceOf \in [Items -> Sources \cup {None}] /\ BranchOf \in [Sources -> Branches]
    /\ None \notin Nat \cup Levels \cup Slots
    /\ None \notin ItemRows \cup ActionRows

\* An item and its action: a rating that was reviewed is a level, an action belongs to
\* an item, and a retained one was decided for the item as it is.
RowOK(it, ac) ==
    /\ it \in ItemRows \cup {None} /\ ac \in ActionRows \cup {None}
    /\ it # None => (it.ratingReviewed /\ it.rating # None => it.rating \in Levels)
    /\ ac # None => it # None
    /\ isRetainedRo(ac) =>
         /\ ac.basis = [content |-> it.content, rating |-> it.rating, source |-> it.source]
         /\ it.controls = "none"

Rows ==
    /\ item \in [Items -> ItemRows \cup {None}] /\ action \in [Items -> ActionRows \cup {None}]
    /\ \A i \in Items : RowOK(item[i], action[i])

Typed ==
    /\ evidence \in EvidenceRecords /\ state \in StateRows /\ Rows
    /\ run \in [Runs -> RunRecords]

\* A run of the current revision was given the items as they are now.
RunInput(r) ==
    run[r].status # "none" =>
      /\ run[r].revision <= state.revision
      /\ run[r].revision = state.revision =>
           /\ run[r].evidence \in EvidenceRecords
           /\ run[r].stage = "GENERATION" => run[r].branch \in Branches
           /\ \A i \in Items : run[r].items[i] # None => run[r].items[i] = item[i]

\* A slot that is about to write the result of such a run asked about every item of the
\* run that has no action, or a rejected one.
SlotInput(w) ==
    LET r == slot[w].run IN
    slot[w].pc = "persist" /\ run[r].revision = state.revision =>
      /\ slot[w].found \in SUBSET Items
      /\ \A i \in slot[w].found : run[r].items[i] # None
      /\ \A i \in Items \ slot[w].found : run[r].items[i] # None =>
           action[i] # None /\ action[i].status # "NOT_RETAINED"

Inputs == (\A r \in Runs : RunInput(r)) /\ (\A w \in Slots : SlotInput(w))

IInv == Typed /\ Inputs /\ ValidatedComplete /\ A!Wired(EvidenceRecords, SUBSET Items)

-----------------------------------------------------------------------------
(* The steps that this module shares with the other analyses.              *)

LEMMA SharedQueue ==
    /\ \A r : Analysis!Queue!Add(r) <=> A!Queue!Add(r)
    /\ \A r, w : Analysis!Queue!Take(r, w) <=> A!Queue!Take(r, w)
    /\ \A r, w : Analysis!Queue!Complete(r, w) <=> A!Queue!Complete(r, w)
    /\ \A r, w : Analysis!Queue!Throw(r, w) <=> A!Queue!Throw(r, w)
    /\ \A r : Analysis!Queue!Stall(r) <=> A!Queue!Stall(r)
    /\ Analysis!Queue!Init <=> A!Queue!Init
BY DEF Analysis!Queue!Add, A!Queue!Add, Analysis!Queue!Added, A!Queue!Added,
       Analysis!Queue!Take, A!Queue!Take, Analysis!Queue!Taken, A!Queue!Taken,
       Analysis!Queue!Complete, A!Queue!Complete, Analysis!Queue!Completed, A!Queue!Completed,
       Analysis!Queue!Throw, A!Queue!Throw, Analysis!Queue!Thrown, A!Queue!Thrown,
       Analysis!Queue!Stall, A!Queue!Stall, Analysis!Queue!Recovered, A!Queue!Recovered,
       Analysis!Queue!Init, A!Queue!Init, Analysis!Queue!NoJob, A!Queue!NoJob
       
LEMMA SharedSteps ==
    /\ Analysis!Init <=> A!Init
    /\ \A q, x : Analysis!Read(q, x) <=> A!Read(q, x)
    /\ \A q : Analysis!Done(q) <=> A!Done(q)
    /\ \A q, x : Analysis!Create(q, x) <=> A!Create(q, x)
    /\ \A q : Analysis!Enqueue(q) <=> A!Enqueue(q)
    /\ \A w, r : Analysis!TakeJob(w, r) <=> A!TakeJob(w, r)
    /\ \A w, pc : Analysis!Goto(w, pc) <=> A!Goto(w, pc)
    /\ \A w : Analysis!EndJob(w) <=> A!EndJob(w)
    /\ \A w : Analysis!Crash(w) <=> A!Crash(w)
    /\ \A r : Analysis!Stall(r) <=> A!Stall(r)
BY SharedQueue DEF Analysis!Init, A!Init, Analysis!Free, A!Free, Analysis!Idle, A!Idle,
  Analysis!Read, A!Read, Analysis!Done, A!Done, Analysis!Create, A!Create,
  Analysis!IsNext, A!IsNext,
  Analysis!Enqueue, A!Enqueue, Analysis!TakeJob, A!TakeJob, Analysis!Goto, A!Goto,
  Analysis!Ended, A!Ended,
  Analysis!EndJob, A!EndJob, Analysis!Crash, A!Crash, Analysis!Stall, A!Stall

LEMMA Parameters ==
    ASSUME RoParameters
    PROVE  A!Parameters
BY DEF RoParameters, A!Parameters

-----------------------------------------------------------------------------
(* The items and their actions.                                            *)

\* All that was decided on the action is open again.
Reopened(ac) == [ac EXCEPT !.status = "PENDING", !.basis = None]

\* An action that is not retained stands to every item.
LEMMA OpenAction ==
    ASSUME NEW it \in ItemRows, NEW ac \in ActionRows \cup {None}, ~isRetainedRo(ac),
           RoParameters, it.ratingReviewed /\ it.rating # None => it.rating \in Levels
    PROVE  RowOK(it, ac)
BY DEF RowOK, RoParameters

LEMMA ReopenedRow ==
    ASSUME NEW ac \in ActionRows
    PROVE  Reopened(ac) \in ActionRows /\ ~isRetainedRo(Reopened(ac))
           /\ Reopened(ac).status = "PENDING"
BY DEF Reopened, ActionRows, isRetainedRo, Reviews

LEMMA RowsOf ==
    ASSUME Rows, NEW i \in Items
    PROVE  /\ item[i] \in ItemRows \cup {None} /\ action[i] \in ActionRows \cup {None}
           /\ RowOK(item[i], action[i])
BY DEF Rows

\* One item and its action are written.
LEMMA RowWritten ==
    ASSUME Rows, NEW i \in Items, NEW it, NEW ac, RowOK(it, ac),
           item' = [item EXCEPT ![i] = it], action' = [action EXCEPT ![i] = ac]
    PROVE  Rows'
<1>1. it \in ItemRows \cup {None} /\ ac \in ActionRows \cup {None}
  BY DEF RowOK
<1>2. /\ item' \in [Items -> ItemRows \cup {None}] /\ action' \in [Items -> ActionRows \cup {None}]
  BY <1>1 DEF Rows
<1>3. \A j \in Items : item'[j] = IF j = i THEN it ELSE item[j]
  BY DEF Rows
<1>4. \A j \in Items : action'[j] = IF j = i THEN ac ELSE action[j]
  BY DEF Rows
<1>5. \A j \in Items : RowOK(item'[j], action'[j])
  BY <1>3, <1>4 DEF Rows
<1> QED
  BY <1>2, <1>5 DEF Rows

-----------------------------------------------------------------------------
(* The state of the register.                                              *)

\* A write moves the revision and so leaves no run with a current input.
LEMMA TouchedState ==
    ASSUME Typed, Inputs, RoParameters, NEW s \in StateRows, s.revision = state.revision,
           state' = Touched(s),
           \A r \in Runs : run'[r].status # "none" =>
             run[r].status # "none" /\ run'[r].revision = run[r].revision,
           \A w \in Slots : slot'[w].pc = "persist" =>
             slot'[w].run \in Runs /\ run'[slot'[w].run].status # "none"
    PROVE  state' \in StateRows /\ Inputs' /\ ValidatedComplete'
<1>1. state' \in StateRows /\ state'.revision = state.revision + 1 /\ state'.validated = None
  <2>1. s.revision \in Nat /\ s.revision + 1 \in Nat
    BY DEF StateRows
  <2> QED
    BY <2>1 DEF Touched, StateRows
<1>2. \A r \in Runs : run'[r].status # "none" => run'[r].revision < state'.revision
  <2> SUFFICES ASSUME NEW r \in Runs, run'[r].status # "none"
               PROVE  run'[r].revision < state'.revision
    OBVIOUS
  <2>1. run[r].revision \in Nat /\ state.revision \in Nat
    BY DEF Typed, RunRecords, StateRows
  <2>2. run[r].revision <= state.revision /\ run'[r].revision = run[r].revision
    BY DEF Inputs, RunInput
  <2> QED
    BY <1>1, <2>1, <2>2
<1>3. \A r \in Runs : run'[r].status # "none" => run'[r].revision \in Nat
  BY DEF Typed, RunRecords
<1>4. state'.revision \in Nat
  BY <1>1 DEF StateRows
<1>5. \A r \in Runs : RunInput(r)'
  BY <1>2, <1>3, <1>4 DEF RunInput
<1>6. \A w \in Slots : SlotInput(w)'
  BY <1>2, <1>3, <1>4 DEF SlotInput
<1> QED
  BY <1>1, <1>5, <1>6 DEF Inputs, ValidatedComplete

\* The run of a request or a slot at work.
LEMMA RunAtWork ==
    ASSUME IInv
    PROVE  /\ \A q \in Requests : request[q].pc = "enqueue" =>
                request[q].run \in Runs /\ run[request[q].run].status # "none"
           /\ \A w \in Slots : slot[w].pc # "idle" =>
                slot[w].run \in Runs /\ run[slot[w].run].status # "none"
BY DEF IInv, A!Wired, A!RequestsWired, A!SlotsWired, A!JobsHaveRuns

LEMMA WriteKeeps ==
    ASSUME IInv, RoParameters, NEW q \in Requests, NEW i \in Items, WriteItem(q, i), Rows'
    PROVE  IInv'
<1>1. /\ Change(state) /\ A!Done(q) /\ UNCHANGED <<evidence, run, job, slot>>
  BY SharedSteps DEF WriteItem, worker
<1>2. state' \in StateRows /\ Inputs' /\ ValidatedComplete'
  BY <1>1, RunAtWork, TouchedState DEF Change, IInv, Typed
<1>3. A!Wired(EvidenceRecords, SUBSET Items)'
  BY <1>1, A!RequestEndsWired DEF IInv, A!RunsKept
<1> QED
  BY <1>1, <1>2, <1>3 DEF IInv, Typed

-----------------------------------------------------------------------------
(* The writes of people.                                                   *)

\* A new decision on an item leaves its action open.
LEMMA ItemAndReopen ==
    ASSUME IInv, RoParameters, NEW q \in Requests, NEW i \in Items, WriteItem(q, i),
           NEW it \in ItemRows, it.ratingReviewed /\ it.rating # None => it.rating \in Levels,
           item' = [item EXCEPT ![i] = it], Reopen(i)
    PROVE  IInv'
<1> DEFINE ac == IF action[i] = None THEN None ELSE Reopened(action[i])
<1>1. action[i] \in ActionRows \cup {None}
  BY RowsOf DEF IInv, Typed
<1>2. ac \in ActionRows \cup {None} /\ ~isRetainedRo(ac)
  BY <1>1, ReopenedRow DEF isRetainedRo
<1>3. action' = [action EXCEPT ![i] = ac]
  <2>1. CASE action[i] = None
    BY <2>1 DEF Reopen, IInv, Typed, Rows
  <2>2. CASE action[i] # None
    <3>1. action' = [action EXCEPT ![i] = [action[i] EXCEPT !.status = "PENDING", !.basis = None]]
      BY <2>2 DEF Reopen
    <3> QED
      BY <2>2, <3>1 DEF Reopened
  <2> QED
    BY <2>1, <2>2
<1> HIDE DEF ac
<1>4. RowOK(it, ac)
  BY <1>2, OpenAction
<1> QED
  BY <1>3, <1>4, RowWritten, WriteKeeps DEF IInv, Typed

\* A decision on the action of an item.
LEMMA ActionWritten ==
    ASSUME IInv, RoParameters, NEW q \in Requests, NEW i \in Items, WriteItem(q, i),
           NEW ac, RowOK(item[i], ac), action' = [action EXCEPT ![i] = ac], UNCHANGED item
    PROVE  IInv'
<1>1. item' = [item EXCEPT ![i] = item[i]]
  BY DEF IInv, Typed, Rows
<1> QED
  BY <1>1, RowWritten, WriteKeeps DEF IInv, Typed

LEMMA AddItemKeeps ==
    ASSUME IInv, RoParameters, NEW q \in Requests, NEW i \in Items, AddItem(q, i)
    PROVE  IInv'
<1> DEFINE version == IF SourceOf[i] = None THEN None ELSE request[q].read.source[SourceOf[i]]
           proposed == Proposed(SourceOf[i], version)
           it == [proposed EXCEPT !.status = "RETAINED", !.content = "user", !.rating = None]
<1>1. request[q].read \in EvidenceRecords
  BY DEF AddItem, WriteItem, IInv, A!Wired, A!RequestsWired
<1>2. version \in Nat \cup {None}
  BY <1>1 DEF EvidenceRecords, RoParameters
<1>3. item' = [item EXCEPT ![i] = it]
  BY DEF AddItem
<1> HIDE DEF version
<1>4. it \in ItemRows /\ it.ratingReviewed = FALSE
  <2>1. proposed \in ItemRows /\ proposed.ratingReviewed = FALSE
    BY <1>2 DEF Proposed, ItemRows, Reviews, Writers
  <2> HIDE DEF proposed
  <2> QED
    BY <2>1 DEF ItemRows, Reviews, Writers
<1> HIDE DEF it
<1>5. action[i] = None
  BY RowsOf DEF AddItem, IInv, Typed, RowOK
<1>6. RowOK(it, None)
  BY <1>4, OpenAction DEF isRetainedRo
<1>7. action' = [action EXCEPT ![i] = None]
  BY <1>5 DEF AddItem, IInv, Typed, Rows
<1> QED
  BY <1>3, <1>6, <1>7, RowWritten, WriteKeeps DEF AddItem, IInv, Typed

LEMMA ReviewItemKeeps ==
    ASSUME IInv, RoParameters, NEW q \in Requests, NEW i \in Items, ReviewItem(q, i)
    PROVE  IInv'
<1>1. /\ WriteItem(q, i) /\ item[i] \in ItemRows /\ RowOK(item[i], action[i])
  BY RowsOf DEF ReviewItem, IInv, Typed
<1>2. PICK status \in Reviews :
         \/ item' = [item EXCEPT ![i].status = status] /\ UNCHANGED action
         \/ \E rating \in {item[i].rating, None} :
              /\ item' = [item EXCEPT ![i] =
                   [@ EXCEPT !.status = status, !.content = "user", !.rating = rating,
                             !.ratingReviewed = FALSE, !.controlsReviewed = FALSE]]
              /\ Reopen(i)
  BY DEF ReviewItem
<1>3. CASE item' = [item EXCEPT ![i].status = status] /\ UNCHANGED action
  <2> DEFINE it == [item[i] EXCEPT !.status = status]
  <2>1. /\ it \in ItemRows /\ it.content = item[i].content /\ it.rating = item[i].rating
        /\ it.source = item[i].source /\ it.controls = item[i].controls
        /\ it.ratingReviewed = item[i].ratingReviewed
    BY <1>1 DEF ItemRows
  <2>2. item' = [item EXCEPT ![i] = it]
    BY <1>3
  <2> HIDE DEF it
  <2>3. RowOK(it, action[i])
    BY <1>1, <2>1 DEF RowOK, RoParameters
  <2>4. action' = [action EXCEPT ![i] = action[i]]
    BY <1>3 DEF IInv, Typed, Rows
  <2> QED
    BY <1>1, <2>2, <2>3, <2>4, RowWritten, WriteKeeps DEF IInv, Typed
<1>4. ASSUME NEW rating \in {item[i].rating, None},
             item' = [item EXCEPT ![i] =
                   [@ EXCEPT !.status = status, !.content = "user", !.rating = rating,
                             !.ratingReviewed = FALSE, !.controlsReviewed = FALSE]],
             Reopen(i)
      PROVE  IInv'
  <2> DEFINE it == [item[i] EXCEPT !.status = status, !.content = "user", !.rating = rating,
                             !.ratingReviewed = FALSE, !.controlsReviewed = FALSE]
  <2>1. it \in ItemRows /\ it.ratingReviewed = FALSE
    BY <1>1 DEF ItemRows, Writers
  <2>2. item' = [item EXCEPT ![i] = it]
    BY <1>4
  <2> HIDE DEF it
  <2> QED
    BY <1>1, <1>4, <2>1, <2>2, ItemAndReopen
<1> QED
  BY <1>2, <1>3, <1>4

LEMMA RateKeeps ==
    ASSUME IInv, RoParameters, NEW q \in Requests, NEW i \in Items, NEW level \in Levels,
           Rate(q, i, level)
    PROVE  IInv'
<1>1. WriteItem(q, i) /\ item[i] \in ItemRows /\ Reopen(i)
  BY RowsOf DEF Rate, isRetainedRo, IInv, Typed
<1> DEFINE it == [item[i] EXCEPT !.rating = level, !.ratingReviewed = TRUE,
                                 !.controlsReviewed = FALSE]
<1>2. it \in ItemRows /\ it.rating = level
  BY <1>1 DEF ItemRows
<1>3. item' = [item EXCEPT ![i] = it]
  BY DEF Rate
<1> HIDE DEF it
<1> QED
  BY <1>1, <1>2, <1>3, ItemAndReopen

LEMMA DeclareControlsKeeps ==
    ASSUME IInv, RoParameters, NEW q \in Requests, NEW i \in Items,
           NEW controls \in {"none", "existing"}, DeclareControls(q, i, controls)
    PROVE  IInv'
<1>1. WriteItem(q, i) /\ item[i] \in ItemRows /\ RatingDecided(i)
      /\ RowOK(item[i], action[i])
  BY RowsOf DEF DeclareControls, isRetainedRo, IInv, Typed
<1> DEFINE it == [item[i] EXCEPT !.controls = controls, !.controlsReviewed = TRUE]
<1>2. it \in ItemRows /\ it.rating \in Levels
  <2>1. item[i].rating \in Levels
    BY <1>1 DEF RatingDecided, RowOK, RoParameters
  <2> QED
    BY <1>1, <2>1 DEF ItemRows
<1>3. item' = [item EXCEPT ![i] = it]
  BY DEF DeclareControls
<1> HIDE DEF it
<1>4. CASE controls = "none" \/ action[i] = None
  BY <1>1, <1>2, <1>3, <1>4, ItemAndReopen DEF DeclareControls
<1>5. CASE controls # "none" /\ action[i] # None
  <2> DEFINE ac == [action[i] EXCEPT !.status = "NOT_RETAINED", !.basis = None]
  <2>1. action[i] \in ActionRows
    BY <1>5, RowsOf DEF IInv, Typed
  <2>2. ac \in ActionRows /\ ~isRetainedRo(ac)
    BY <2>1 DEF ActionRows, isRetainedRo, Reviews
  <2>3. action' = [action EXCEPT ![i] = ac]
    BY <1>5 DEF DeclareControls
  <2> HIDE DEF ac
  <2>4. RowOK(it, ac)
    BY <1>2, <2>2, OpenAction
  <2> QED
    BY <1>1, <1>3, <2>3, <2>4, RowWritten, WriteKeeps DEF IInv, Typed
<1> QED
  BY <1>4, <1>5

LEMMA EligibleBasis ==
    ASSUME Rows, RoParameters, NEW i \in Items, roTreatmentEligible(i)
    PROVE  item[i] \in ItemRows /\ Treats(i) \in Bases /\ item[i].controls = "none"
<1>1. item[i] \in ItemRows /\ RowOK(item[i], action[i])
  BY RowsOf DEF roTreatmentEligible, isRetainedRo
<1>2. item[i].rating \in Levels
  BY <1>1 DEF roTreatmentEligible, RatingDecided, RowOK, RoParameters
<1> QED
  BY <1>1, <1>2 DEF Treats, Bases, ItemRows, roTreatmentEligible

\* An action with its basis, decided for an eligible item.
LEMMA DecidedAction ==
    ASSUME Rows, RoParameters, NEW i \in Items, roTreatmentEligible(i),
           NEW ac \in ActionRows, ac.basis = Treats(i)
    PROVE  RowOK(item[i], ac)
<1>1. item[i] \in ItemRows /\ item[i].controls = "none" /\ RowOK(item[i], action[i])
  BY EligibleBasis, RowsOf
<1> QED
  BY <1>1 DEF RowOK, Treats, RoParameters

LEMMA AddActionKeeps ==
    ASSUME IInv, RoParameters, NEW q \in Requests, NEW i \in Items, AddAction(q, i)
    PROVE  IInv'
<1> DEFINE ac == [status |-> "RETAINED", by |-> "user", progress |-> "todo", basis |-> Treats(i)]
<1>1. Treats(i) \in Bases
  BY EligibleBasis DEF AddAction, IInv, Typed
<1>2. ac \in ActionRows /\ ac.basis = Treats(i)
  BY <1>1 DEF ActionRows, Reviews, Writers
<1>3. action' = [action EXCEPT ![i] = ac]
  BY DEF AddAction
<1> HIDE DEF ac
<1>4. RowOK(item[i], ac)
  BY <1>2, DecidedAction DEF AddAction, IInv, Typed
<1> QED
  BY <1>3, <1>4, ActionWritten DEF AddAction

LEMMA ReviewActionKeeps ==
    ASSUME IInv, RoParameters, NEW q \in Requests, NEW i \in Items, NEW status \in Reviews,
           ReviewAction(q, i, status)
    PROVE  IInv'
<1>1. WriteItem(q, i) /\ action[i] \in ActionRows /\ RowOK(item[i], action[i])
      /\ item[i] \in ItemRows
  BY RowsOf DEF ReviewAction, IInv, Typed, RowOK
<1>2. PICK by \in {action[i].by, "user"} :
         action' = [action EXCEPT ![i] =
           [@ EXCEPT !.status = status, !.by = by,
                     !.basis = IF status = "RETAINED" THEN Treats(i) ELSE None]]
  BY DEF ReviewAction
<1> DEFINE basis == IF status = "RETAINED" THEN Treats(i) ELSE None
           ac == [action[i] EXCEPT !.status = status, !.by = by, !.basis = basis]
<1>3. basis \in Bases \cup {None}
  BY EligibleBasis DEF ReviewAction, IInv, Typed
<1>4. action' = [action EXCEPT ![i] = ac]
  BY <1>2
<1> HIDE DEF basis
<1>5. ac \in ActionRows /\ ac.status = status /\ ac.basis = basis
  BY <1>1, <1>2, <1>3 DEF ActionRows, Writers
<1> HIDE DEF ac
<1>6. RowOK(item[i], ac)
  <2>1. CASE status = "RETAINED"
    BY <1>5, <2>1, DecidedAction DEF ReviewAction, IInv, Typed, basis
  <2>2. CASE status # "RETAINED"
    BY <1>1, <1>5, <2>2, OpenAction DEF isRetainedRo, RowOK, RoParameters
  <2> QED
    BY <2>1, <2>2
<1> QED
  BY <1>1, <1>4, <1>6, ActionWritten DEF ReviewAction

LEMMA ProgressKeeps ==
    ASSUME IInv, RoParameters, NEW q \in Requests, NEW i \in Items,
           NEW progress \in {"todo", "completed"}, Progress(q, i, progress)
    PROVE  IInv'
<1>1. action[i] \in ActionRows /\ RowOK(item[i], action[i])
  BY RowsOf DEF Progress, isRetainedRo, IInv, Typed
<1> DEFINE ac == [action[i] EXCEPT !.progress = progress]
<1>2. ac \in ActionRows /\ ac.status = action[i].status /\ ac.basis = action[i].basis
  BY <1>1 DEF ActionRows
<1>3. action' = [action EXCEPT ![i] = ac]
  BY DEF Progress
<1> HIDE DEF ac
<1>4. RowOK(item[i], ac)
  BY <1>1, <1>2 DEF RowOK, isRetainedRo, RoParameters
<1> QED
  BY <1>3, <1>4, ActionWritten DEF Progress

LEMMA EffectivenessKeeps ==
    ASSUME IInv, RoParameters, NEW q \in Requests, NEW i \in Items, Effectiveness(q, i)
    PROVE  IInv'
<1>1. action' = [action EXCEPT ![i] = action[i]] /\ UNCHANGED item
  BY DEF Effectiveness, rows, IInv, Typed, Rows
<1> QED
  BY <1>1, RowsOf, ActionWritten DEF Effectiveness, IInv, Typed

LEMMA WriteStep ==
    ASSUME IInv, RoParameters, NEW q \in Requests, Write(q)
    PROVE  IInv'
BY AddItemKeeps, ReviewItemKeeps, RateKeeps, DeclareControlsKeeps, AddActionKeeps,
   ReviewActionKeeps, ProgressKeeps, EffectivenessKeeps DEF Write

-----------------------------------------------------------------------------
(* The steps that leave the register alone.                                *)

SameInput(r) ==
    run'[r].status # "none" =>
      /\ run[r].status # "none"
      /\ run'[r] = [run[r] EXCEPT !.status = run'[r].status]

\* No slot begins to write a result.
SlotsRead ==
    \A w \in Slots : slot'[w].pc = "persist" =>
      slot[w].pc = "persist" /\ slot'[w].run = slot[w].run /\ slot'[w].found = slot[w].found

LEMMA InputsKept ==
    ASSUME IInv, UNCHANGED <<state, rows>>, run' \in [Runs -> RunRecords],
           \A r \in Runs : SameInput(r)
    PROVE  /\ \A r \in Runs : RunInput(r)'
           /\ \A r \in Runs : run'[r].status # "none" =>
                run'[r].revision = run[r].revision /\ run'[r].items = run[r].items
<1>1. item' = item /\ action' = action /\ state' = state
  BY DEF rows
<1>2. ASSUME NEW r \in Runs, run'[r].status # "none"
      PROVE  /\ run[r].status # "none" /\ run'[r].revision = run[r].revision
             /\ run'[r].stage = run[r].stage /\ run'[r].branch = run[r].branch
             /\ run'[r].evidence = run[r].evidence /\ run'[r].items = run[r].items
  <2>1. run[r] \in RunRecords /\ run'[r] = [run[r] EXCEPT !.status = run'[r].status]
    BY <1>2 DEF SameInput, IInv, Typed
  <2>2. ASSUME NEW x
        PROVE  LET y == [run[r] EXCEPT !.status = x] IN
               /\ y.revision = run[r].revision /\ y.stage = run[r].stage
               /\ y.branch = run[r].branch /\ y.evidence = run[r].evidence
               /\ y.items = run[r].items
    BY <2>1 DEF RunRecords
  <2> QED
    BY <1>2, <2>1, <2>2 DEF SameInput
<1>3. \A r \in Runs : RunInput(r)'
  BY <1>1, <1>2 DEF IInv, Inputs, RunInput
<1> QED
  BY <1>2, <1>3

LEMMA RegisterKept ==
    ASSUME IInv, UNCHANGED <<state, rows>>, evidence' \in EvidenceRecords,
           run' \in [Runs -> RunRecords], \A r \in Runs : SameInput(r),
           \A w \in Slots : SlotInput(w)', A!Wired(EvidenceRecords, SUBSET Items)'
    PROVE  IInv'
<1>1. item' = item /\ action' = action /\ state' = state
  BY DEF rows
<1>2. Typed'
  BY <1>1 DEF IInv, Typed, Rows
<1>3. Inputs'
  BY InputsKept DEF Inputs
<1>4. ValidatedComplete'
  BY <1>1 DEF IInv, ValidatedComplete, Complete, ControlsDeclared, ItemsReviewed, Outdated, Visible,
     RatingDecided
<1> QED
  BY <1>2, <1>3, <1>4 DEF IInv

LEMMA SlotsKept ==
    ASSUME IInv, UNCHANGED <<state, rows>>, run' \in [Runs -> RunRecords],
           \A r \in Runs : SameInput(r), A!RunsKept, SlotsRead
    PROVE  \A w \in Slots : SlotInput(w)'
<1> SUFFICES ASSUME NEW w \in Slots, slot'[w].pc = "persist" PROVE SlotInput(w)'
  BY DEF SlotInput
<1> DEFINE r == slot[w].run
<1>1. slot[w].pc = "persist" /\ slot'[w].run = r /\ slot'[w].found = slot[w].found
  BY DEF SlotsRead
<1>2. r \in Runs /\ run[r].status # "none" /\ run'[r].status # "none"
  BY <1>1, RunAtWork DEF A!RunsKept
<1>3. run'[r].revision = run[r].revision /\ run'[r].items = run[r].items
  BY <1>2, InputsKept
<1>4. action' = action /\ state' = state
  BY DEF rows
<1> QED
  BY <1>1, <1>3, <1>4 DEF IInv, Inputs, SlotInput

LEMMA SameRuns ==
    ASSUME IInv, UNCHANGED run
    PROVE  run' \in [Runs -> RunRecords] /\ (\A r \in Runs : SameInput(r)) /\ A!RunsKept
BY DEF IInv, Typed, SameInput, A!RunsKept, RunRecords

LEMMA StatusSet ==
    ASSUME IInv, NEW r \in Runs, run[r].status # "none", NEW status \in {"RUNNING", "FAILED"},
           run' = [run EXCEPT ![r].status = status]
    PROVE  run' \in [Runs -> RunRecords] /\ (\A s \in Runs : SameInput(s)) /\ A!RunsKept
<1> DEFINE new == [run[r] EXCEPT !.status = status]
<1>1. run[r] \in RunRecords /\ run' = [run EXCEPT ![r] = new]
  BY DEF IInv, Typed
<1>2. new \in RunRecords /\ new.status = status
  BY <1>1 DEF RunRecords
<1>3. new = [run[r] EXCEPT !.status = new.status]
  BY <1>2
<1> HIDE DEF new
<1>4. \A s \in Runs : run'[s] = IF s = r THEN new ELSE run[s]
  BY <1>1 DEF IInv, Typed
<1>5. run' \in [Runs -> RunRecords]
  BY <1>1, <1>2 DEF IInv, Typed
<1>6. ASSUME NEW s \in Runs PROVE SameInput(s)
  <2>1. CASE s = r
    BY <1>3, <1>4, <2>1 DEF SameInput
  <2>2. CASE s # r
    <3>1. run'[s] = run[s] /\ run[s] \in RunRecords
      BY <1>4, <2>2 DEF IInv, Typed
    <3> QED
      BY <3>1 DEF SameInput, RunRecords
  <2> QED
    BY <2>1, <2>2
<1>7. A!RunsKept
  BY <1>2, <1>4 DEF A!RunsKept
<1> QED
  BY <1>5, <1>6, <1>7

LEMMA ChangeEvidenceKeeps ==
    ASSUME IInv, ChangeEvidence
    PROVE  IInv'
<1> DEFINE at == evidence.at + 1
<1>1. at \in Nat
  BY DEF IInv, Typed, EvidenceRecords
<1>2. evidence' \in EvidenceRecords
  <2>1. CASE evidence' = [evidence EXCEPT !.at = at, !.digest = at]
    BY <1>1, <2>1 DEF IInv, Typed, EvidenceRecords
  <2>2. ASSUME NEW s \in Sources, NEW version \in {at, None},
               evidence' = [evidence EXCEPT !.at = at, !.source[s] = version]
        PROVE  evidence' \in EvidenceRecords
    <3>1. [evidence.source EXCEPT ![s] = version] \in [Sources -> Nat \cup {None}]
      BY <1>1 DEF IInv, Typed, EvidenceRecords
    <3>2. evidence' = [evidence EXCEPT !.at = at, !.source = [evidence.source EXCEPT ![s] = version]]
      BY <2>2
    <3> QED
      BY <1>1, <3>1, <3>2 DEF IInv, Typed, EvidenceRecords
  <2> QED
    BY <2>1, <2>2 DEF ChangeEvidence
<1>3. UNCHANGED <<state, rows, run, job, slot, request>>
  BY DEF ChangeEvidence, worker
<1>4. A!Wired(EvidenceRecords, SUBSET Items)'
  BY <1>3, SameRuns, A!RunsMoveWired DEF IInv
<1>5. SlotsRead
  BY <1>3 DEF SlotsRead
<1> QED
  BY <1>2, <1>3, <1>4, <1>5, SameRuns, SlotsKept, RegisterKept

LEMMA QuietRequestStep ==
    ASSUME IInv, RoParameters, NEW q \in Requests,
           ReadMaterial(q) \/ Enqueue(q) \/ EnqueueFails(q) \/ RequestEnds(q)
    PROVE  IInv'
<1>1. UNCHANGED <<evidence, state, rows, slot>> /\ evidence' \in EvidenceRecords /\ SlotsRead
  BY DEF ReadMaterial, Enqueue, EnqueueFails, RequestEnds, Analysis!Read,
     Analysis!Enqueue, Analysis!EnqueueFails, Analysis!RequestEnds, SlotsRead, IInv, Typed
<1>2. CASE ReadMaterial(q)
  <2>1. A!Read(q, evidence) /\ evidence \in EvidenceRecords /\ UNCHANGED <<run, job, slot>>
    BY <1>2, SharedSteps DEF ReadMaterial, Analysis!Read, IInv, Typed
  <2>2. A!Wired(EvidenceRecords, SUBSET Items)'
    BY <2>1, SameRuns, A!ReadWired DEF IInv
  <2> QED
    BY <1>1, <2>1, <2>2, SameRuns, SlotsKept, RegisterKept
<1>3. CASE Enqueue(q)
  <2>1. A!Enqueue(q) /\ UNCHANGED run
    BY <1>3, SharedSteps DEF Enqueue, Analysis!Enqueue
  <2>2. A!Wired(EvidenceRecords, SUBSET Items)'
    BY <2>1, SameRuns, Parameters, A!EnqueueWired DEF IInv
  <2> QED
    BY <1>1, <2>1, <2>2, SameRuns, SlotsKept, RegisterKept
<1>4. CASE EnqueueFails(q)
  <2>1. A!Done(q) /\ UNCHANGED <<job, slot>> /\ request[q].pc = "enqueue"
        /\ run' = [run EXCEPT ![request[q].run].status = "FAILED"]
    BY <1>4, SharedSteps DEF EnqueueFails, Analysis!EnqueueFails
  <2>2. run' \in [Runs -> RunRecords] /\ (\A s \in Runs : SameInput(s)) /\ A!RunsKept
    BY <2>1, RunAtWork, StatusSet
  <2>3. A!Wired(EvidenceRecords, SUBSET Items)'
    BY <2>1, <2>2, A!RequestEndsWired DEF IInv
  <2> QED
    BY <1>1, <2>2, <2>3, SlotsKept, RegisterKept
<1>5. CASE RequestEnds(q)
  <2>1. A!Done(q) /\ UNCHANGED <<run, job, slot>>
    BY <1>5, SharedSteps DEF RequestEnds, Analysis!RequestEnds
  <2>2. A!Wired(EvidenceRecords, SUBSET Items)'
    BY <2>1, SameRuns, A!RequestEndsWired DEF IInv
  <2> QED
    BY <1>1, <2>1, <2>2, SameRuns, SlotsKept, RegisterKept
<1> QED
  BY <1>2, <1>3, <1>4, <1>5

\* A slot that goes on without a result to write, and may have set the status of its run.
LEMMA SlotGoesOn ==
    ASSUME IInv, NEW w \in Slots, slot[w].pc # "idle",
           NEW pc \in {"generate", "fail", "throw", "end"}, Analysis!Goto(w, pc),
           UNCHANGED <<evidence, state, rows, job, request>>,
           UNCHANGED run \/ \E status \in {"RUNNING", "FAILED"} :
                              run' = [run EXCEPT ![slot[w].run].status = status]
    PROVE  IInv'
<1>1. run' \in [Runs -> RunRecords] /\ (\A s \in Runs : SameInput(s)) /\ A!RunsKept
  BY SameRuns, StatusSet, RunAtWork
<1>2. A!SlotMoves
  BY SharedSteps DEF A!SlotMoves
<1>3. A!Wired(EvidenceRecords, SUBSET Items)'
  BY <1>1, <1>2, A!SlotMovesWired DEF IInv
<1>4. SlotsRead
  BY DEF Analysis!Goto, SlotsRead, IInv, A!Wired, A!SlotsWired, A!SlotTypes
<1> QED
  BY <1>1, <1>3, <1>4, SlotsKept, RegisterKept DEF IInv, Typed

LEMMA QuietSlotStep ==
    ASSUME IInv, NEW w \in Slots,
           \/ MarkRunning(w) \/ PersistDone(w) \/ PersistFails(w) \/ FailRun(w)
    PROVE  IInv'
<1>1. CASE MarkRunning(w)
  BY <1>1, SlotGoesOn DEF MarkRunning, Analysis!MarkRunning, Analysis!Goto
<1>2. CASE PersistDone(w)
  BY <1>2, SlotGoesOn DEF PersistDone, Analysis!AlreadyPersisted
<1>3. CASE PersistFails(w)
  BY <1>3, SlotGoesOn DEF PersistFails, Analysis!PersistFails
<1>4. CASE FailRun(w)
  BY <1>4, SlotGoesOn DEF FailRun, Analysis!FailRun
<1> QED
  BY <1>1, <1>2, <1>3, <1>4

\* What the slot reads while the revision is that of its run is true of the items as
\* they are now.
LEMMA GenerateKeeps ==
    ASSUME IInv, NEW w \in Slots, Generate(w)
    PROVE  IInv'
<1> DEFINE r == slot[w].run
<1>1. PICK pc \in {"persist", "fail"} :
         slot' = [slot EXCEPT ![w].pc = pc,
                              ![w].found = IF pc = "persist" THEN Asked(slot[w].run) ELSE None]
  BY DEF Generate
<1>2. slot[w].pc = "generate" /\ UNCHANGED <<evidence, state, item, action, rows, run, job, request>>
  BY DEF Generate, rows
<1> DEFINE found == IF pc = "persist" THEN Asked(r) ELSE None
<1>3. found \in (SUBSET Items) \cup {None} /\ (pc = "persist" => found = Asked(r))
  BY DEF Asked
<1>4. slot' = [slot EXCEPT ![w].pc = pc, ![w].found = found]
  BY <1>1
<1> HIDE DEF found
<1>5. A!Wired(EvidenceRecords, SUBSET Items)'
  BY <1>2, <1>3, <1>4, SameRuns, A!SlotFindsWired DEF IInv
<1>6. slot \in [Slots -> A!SlotTypes(SUBSET Items)]
  BY DEF IInv, A!Wired, A!SlotsWired
<1>7. /\ slot'[w].pc = pc /\ slot'[w].found = found /\ slot'[w].run = r
      /\ \A v \in Slots \ {w} : slot'[v] = slot[v]
  BY <1>4, <1>6 DEF A!SlotTypes
<1>8. ASSUME NEW v \in Slots PROVE SlotInput(v)'
  <2>1. CASE v # w
    BY <1>2, <1>7, <2>1 DEF IInv, Inputs, SlotInput
  <2>2. CASE v = w
    BY <1>2, <1>3, <1>7, <2>2 DEF Asked, SlotInput
  <2> QED
    BY <2>1, <2>2
<1> QED
  BY <1>2, <1>5, <1>8, SameRuns, RegisterKept DEF IInv, Typed

LEMMA JobStep ==
    ASSUME IInv, RoParameters, NEW r \in Runs,
           Stall(r) \/ \E w \in Slots : TakeJob(w, r) \/ EndJob(w) \/ Crash(w)
    PROVE  IInv'
<1>1. UNCHANGED <<evidence, state, rows, run>>
  BY DEF TakeJob, EndJob, Crash, Stall, Analysis!TakeJob, Analysis!EndJob, Analysis!Crash,
         Analysis!Stall
<1>2. A!Stall(r) \/ \E w \in Slots : A!TakeJob(w, r) \/ A!EndJob(w) \/ A!Crash(w)
  BY SharedSteps DEF TakeJob, EndJob, Crash, Stall
<1>3. A!Wired(EvidenceRecords, SUBSET Items)'
  BY <1>1, <1>2, SameRuns, Parameters, A!TakeJobWired, A!EndJobWired, A!CrashWired, A!StallWired
     DEF IInv
<1>4. SlotsRead
  <2>1. UNCHANGED slot \/ \E w \in Slots : slot'[w].pc # "persist" /\ slot' = [slot EXCEPT ![w] = slot'[w]]
    <3>1. slot \in [Slots -> A!SlotTypes(SUBSET Items)]
      BY DEF IInv, A!Wired, A!SlotsWired
    <3>2. CASE A!Stall(r)
      BY <3>2 DEF A!Stall
    <3>3. ASSUME NEW w \in Slots, A!EndJob(w) \/ A!Crash(w)
          PROVE  slot'[w].pc # "persist" /\ slot' = [slot EXCEPT ![w] = slot'[w]]
      BY <3>1, <3>3 DEF A!EndJob, A!Crash, A!Idle
    <3>4. ASSUME NEW w \in Slots, A!TakeJob(w, r)
          PROVE  slot'[w].pc # "persist" /\ slot' = [slot EXCEPT ![w] = slot'[w]]
      BY <3>1, <3>4 DEF A!TakeJob, A!Idle
    <3> QED
      BY <1>2, <3>2, <3>3, <3>4
  <2> QED
    BY <2>1 DEF SlotsRead, IInv, A!Wired, A!SlotsWired
<1> QED
  BY <1>1, <1>3, <1>4, SameRuns, SlotsKept, RegisterKept DEF IInv, Typed

-----------------------------------------------------------------------------
(* A launch, and a validation.                                             *)

LEMMA LaunchKeeps ==
    ASSUME IInv, NEW q \in Requests, NEW stage \in Stages, NEW branch \in Branches \cup {None},
           stage = "GENERATION" => branch \in Branches, Launch(q, stage, branch)
    PROVE  IInv' /\ \A r \in Runs : run'[r].status = "COMPLETED" => run[r].status = "COMPLETED"
<1> DEFINE e == request[q].read
           items == [i \in Items |->
             IF stage = "TREATMENT" /\ i \in {j \in Visible(e) : roTreatmentEligible(j)}
             THEN item[i] ELSE None]
           new == [status |-> "DRAFT", stage |-> stage, revision |-> state.revision,
                   evidence |-> e, branch |-> IF stage = "GENERATION" THEN branch ELSE None,
                   items |-> items]
<1>1. /\ UNCHANGED <<evidence, state, item, action, rows, job, slot>> /\ request[q].pc = "read"
      /\ Analysis!Create(q, new)
  BY DEF Launch, worker, rows
<1>2. e \in EvidenceRecords
  BY <1>1 DEF IInv, A!Wired, A!RequestsWired
<1>3. items \in [Items -> ItemRows \cup {None}] /\ \A i \in Items : items[i] # None => items[i] = item[i]
  BY DEF IInv, Typed, Rows
<1> HIDE DEF e, items
<1>4. /\ new \in RunRecords /\ new.status = "DRAFT" /\ new.revision = state.revision
      /\ new.evidence = e /\ new.items = items
      /\ new.stage = "GENERATION" => new.branch \in Branches
  BY <1>2, <1>3 DEF IInv, Typed, StateRows, RunRecords
<1> HIDE DEF new
<1>5. A!RunsKept /\ A!Wired(EvidenceRecords, SUBSET Items)'
  BY <1>1, <1>4, SharedSteps, A!CreateWired DEF IInv, Typed
<1>6. PICK r \in Runs : Analysis!IsNext(r) /\ run' = [run EXCEPT ![r] = new]
  BY <1>1 DEF Analysis!Create
<1>7. run[r].status = "none" /\ run'[r] = new /\ \A t \in Runs \ {r} : run'[t] = run[t]
  BY <1>6 DEF Analysis!IsNext, IInv, Typed
<1>8. Typed'
  BY <1>1, <1>4, <1>6 DEF IInv, Typed, Rows
<1>9. ASSUME NEW t \in Runs PROVE RunInput(t)'
  <2>1. CASE t = r
    BY <1>1, <1>2, <1>3, <1>4, <1>7, <2>1 DEF RunInput, IInv, Typed, StateRows
  <2>2. CASE t # r
    BY <1>1, <1>7, <2>2 DEF RunInput, IInv, Inputs
  <2> QED
    BY <2>1, <2>2
<1>10. ASSUME NEW w \in Slots PROVE SlotInput(w)'
  <2>1. slot[w].pc = "persist" => slot[w].run \in Runs \ {r}
    BY <1>7, RunAtWork
  <2> QED
    BY <1>1, <1>7, <2>1 DEF SlotInput, IInv, Inputs
<1>11. ValidatedComplete'
  BY <1>1 DEF IInv, ValidatedComplete, Complete, ControlsDeclared, ItemsReviewed, Outdated, Visible,
     RatingDecided
<1> QED
  BY <1>4, <1>5, <1>7, <1>8, <1>9, <1>10, <1>11 DEF IInv, Inputs

LEMMA ValidateKeeps ==
    ASSUME IInv, NEW q \in Requests, Validate(q)
    PROVE  IInv'
<1>1. /\ UNCHANGED <<evidence, item, action, rows, run, job, slot>>
      /\ request[q].pc = "read" /\ A!Done(q) /\ state' = [state EXCEPT !.validated = request[q].read]
      /\ Complete(request[q].read)
  BY SharedSteps DEF Validate, worker, rows
<1>2. A!Wired(EvidenceRecords, SUBSET Items)'
  BY <1>1, SameRuns, A!RequestEndsWired DEF IInv
<1>3. request[q].read \in EvidenceRecords
  BY <1>1 DEF IInv, A!Wired, A!RequestsWired
<1>4. /\ state' \in StateRows /\ state'.revision = state.revision /\ state'.branch = state.branch
      /\ state'.validated = request[q].read
  BY <1>1, <1>3 DEF IInv, Typed, StateRows
<1>5. Typed'
  BY <1>1, <1>4 DEF IInv, Typed, Rows
<1>6. Inputs'
  BY <1>1, <1>4 DEF IInv, Inputs, RunInput, SlotInput
<1>7. ValidatedComplete'
  BY <1>1, <1>4 DEF ValidatedComplete, Complete, ControlsDeclared, ItemsReviewed, Outdated, Visible,
     RatingDecided
<1> QED
  BY <1>2, <1>5, <1>6, <1>7 DEF IInv

-----------------------------------------------------------------------------
(* The result of a run.                                                    *)

\* What a result has to show: the rows are as they have to be, and the write is counted.
ResultKeeps == Rows' /\ \E s \in StateRows : s.revision = state.revision /\ state' = Touched(s)

LEMMA FingerprintTyped ==
    ASSUME RoParameters, NEW b \in Branches, NEW e \in EvidenceRecords
    PROVE  Fingerprint(b, e) \in Fingerprints(b)
<1>1. [s \in {x \in Sources : BranchOf[x] = b} |-> e.source[s]]
        \in [{s \in Sources : BranchOf[s] = b} -> Nat \cup {None}]
  BY DEF EvidenceRecords
<1> QED
  BY <1>1 DEF Fingerprint, Fingerprints, EvidenceRecords

LEMMA BranchRead ==
    ASSUME RoParameters, NEW s \in StateRows, NEW b \in Branches, NEW e \in EvidenceRecords
    PROVE  LET t == [s EXCEPT !.branch[b] = Fingerprint(b, e)] IN
           t \in StateRows /\ t.revision = s.revision
<1> DEFINE branch == [s.branch EXCEPT ![b] = Fingerprint(b, e)]
<1>1. Fingerprint(b, e) \in Fingerprints(b)
  BY FingerprintTyped
<1>2. branch \in Prints
  BY <1>1 DEF StateRows, Prints
<1>3. [s EXCEPT !.branch[b] = Fingerprint(b, e)] = [s EXCEPT !.branch = branch]
  OBVIOUS
<1> HIDE DEF branch
<1> QED
  BY <1>2, <1>3 DEF StateRows

LEMMA GenerationResult ==
    ASSUME IInv, RoParameters, NEW r \in Runs, run[r].evidence \in EvidenceRecords,
           run[r].branch \in Branches, ApplyGeneration(r)
    PROVE  ResultKeeps
<1> DEFINE e == run[r].evidence
           b == run[r].branch
           found == SourcesIn(b, e)
           moved == state.branch[b] \notin {None, Fingerprint(b, e)}
           reopened == {i \in Items : /\ item[i] # None /\ SourceOf[i] \in found
                                      /\ moved \/ item[i].source # e.source[SourceOf[i]]}
           Again(i) == [item[i] EXCEPT !.source = e.source[SourceOf[i]],
                                !.status = IF @ = "NOT_RETAINED" THEN @ ELSE "PENDING",
                                !.ratingReviewed = FALSE, !.controlsReviewed = FALSE]
           New(i) == Proposed(SourceOf[i], e.source[SourceOf[i]])
<1>1. PICK proposed \in SUBSET {i \in Items : item[i] = None /\ SourceOf[i] \in found} :
         item' = [i \in Items |->
           IF i \in proposed THEN New(i) ELSE IF i \in reopened THEN Again(i) ELSE item[i]]
  BY DEF ApplyGeneration
<1>2. action' = [i \in Items |->
         IF i \in reopened /\ action[i] # None THEN Reopened(action[i]) ELSE action[i]]
  BY DEF ApplyGeneration, Reopened
<1>3. state' = Touched([state EXCEPT !.branch[b] = Fingerprint(b, e)])
  BY DEF ApplyGeneration
<1>4. /\ \A i \in proposed : item[i] = None /\ SourceOf[i] \in Sources
      /\ \A i \in reopened : item[i] # None /\ SourceOf[i] \in Sources /\ i \in Items
      /\ \A s \in Sources : e.source[s] \in Nat \cup {None}
  BY DEF SourcesIn, EvidenceRecords
<1> HIDE DEF e, b, found, moved, reopened
<1>5. ASSUME NEW i \in Items PROVE RowOK(item'[i], action'[i])
  <2>1. CASE i \in proposed
    <3>1. item'[i] = New(i) /\ item[i] = None /\ SourceOf[i] \in Sources
      BY <1>1, <1>4, <2>1
    <3>2. New(i) \in ItemRows /\ New(i).ratingReviewed = FALSE
      BY <1>4, <3>1 DEF Proposed, ItemRows, Reviews, Writers
    <3>3. action[i] = None
      BY <3>1, RowsOf DEF IInv, Typed, RowOK
    <3>4. action'[i] = None
      BY <1>2, <3>3
    <3> HIDE DEF New
    <3> QED
      BY <3>1, <3>2, <3>4, OpenAction DEF isRetainedRo
  <2>2. CASE i \notin proposed /\ i \in reopened
    <3>1. item'[i] = Again(i) /\ item[i] \in ItemRows /\ SourceOf[i] \in Sources
      BY <1>1, <1>4, <2>2, RowsOf DEF IInv, Typed
    <3>2. Again(i) \in ItemRows /\ Again(i).ratingReviewed = FALSE
      BY <1>4, <3>1 DEF ItemRows, Reviews
    <3>3. action'[i] \in ActionRows \cup {None} /\ ~isRetainedRo(action'[i])
      <4>1. CASE action[i] = None
        BY <1>2, <4>1 DEF isRetainedRo
      <4>2. CASE action[i] # None
        BY <1>2, <2>2, <4>2, RowsOf, ReopenedRow DEF IInv, Typed
      <4> QED
        BY <4>1, <4>2
    <3> HIDE DEF Again
    <3> QED
      BY <3>1, <3>2, <3>3, OpenAction
  <2>3. CASE i \notin proposed /\ i \notin reopened
    BY <1>1, <1>2, <2>3, RowsOf DEF IInv, Typed
  <2> QED
    BY <2>1, <2>2, <2>3
<1>6. \A i \in Items : item'[i] \in ItemRows \cup {None} /\ action'[i] \in ActionRows \cup {None}
  BY <1>5 DEF RowOK
<1> HIDE DEF New, Again
<1>7. Rows'
  BY <1>1, <1>2, <1>5, <1>6 DEF Rows
<1>8. [state EXCEPT !.branch[b] = Fingerprint(b, e)] \in StateRows
      /\ [state EXCEPT !.branch[b] = Fingerprint(b, e)].revision = state.revision
  BY BranchRead DEF IInv, Typed, b, e
<1> QED
  BY <1>3, <1>7, <1>8 DEF ResultKeeps

LEMMA TreatmentResult ==
    ASSUME IInv, RoParameters, NEW r \in Runs, NEW asked \in SUBSET Items,
           run[r].evidence \in EvidenceRecords,
           \A i \in asked : run[r].items[i] # None,
           \A i \in Items : run[r].items[i] # None => run[r].items[i] = item[i],
           ApplyTreatment(r, asked)
    PROVE  ResultKeeps
<1> DEFINE Made == [status |-> "PENDING", by |-> "ai", progress |-> "todo", basis |-> None]
           Treated(i) == [item[i] EXCEPT !.treated = Treatment(r, i)]
<1>1. /\ action' = [i \in Items |-> IF i \in asked /\ action[i] = None THEN Made ELSE action[i]]
      /\ item' = [i \in Items |-> IF i \in asked THEN Treated(i) ELSE item[i]]
      /\ state' = Touched(state)
  BY DEF ApplyTreatment
<1>2. Made \in ActionRows /\ ~isRetainedRo(Made) /\ Made # None
  BY DEF ActionRows, Reviews, Writers, isRetainedRo, RoParameters
<1> HIDE DEF Made
<1>3. ASSUME NEW i \in asked
      PROVE  /\ item[i] \in ItemRows /\ Treated(i) \in ItemRows
             /\ Treated(i).content = item[i].content /\ Treated(i).rating = item[i].rating
             /\ Treated(i).source = item[i].source /\ Treated(i).controls = item[i].controls
             /\ Treated(i).ratingReviewed = item[i].ratingReviewed
  <2>1. item[i] \in ItemRows /\ run[r].items[i] = item[i]
    BY RowsOf DEF IInv, Typed
  <2>2. [item[i] EXCEPT !.treated = None] \in Effective
    BY <2>1 DEF ItemRows, Effective
  <2>3. Treatment(r, i) \in Treatments
    BY <2>1, <2>2 DEF Treatment, Treatments, EvidenceRecords
  <2> QED
    BY <2>1, <2>3 DEF ItemRows
<1> HIDE DEF Treated
<1>4. ASSUME NEW i \in Items PROVE RowOK(item'[i], action'[i])
  <2>1. CASE i \notin asked
    BY <1>1, <2>1, RowsOf DEF IInv, Typed
  <2>2. CASE i \in asked
    <3>1. item'[i] = Treated(i) /\ Treated(i) # None /\ item[i] # None
      BY <1>1, <1>3, <2>2 DEF RoParameters
    <3>2. RowOK(item[i], action[i])
      BY RowsOf DEF IInv, Typed
    <3>3. CASE action[i] = None
      <4>1. action'[i] = Made
        BY <1>1, <2>2, <3>3
      <4> QED
        BY <1>2, <1>3, <2>2, <3>1, <3>2, <4>1, OpenAction DEF RowOK
    <3>4. CASE action[i] # None
      <4>1. action'[i] = action[i]
        BY <1>1, <3>4
      <4> QED
        BY <1>3, <2>2, <3>1, <3>2, <4>1 DEF RowOK
    <3> QED
      BY <3>3, <3>4
  <2> QED
    BY <2>1, <2>2
<1>5. \A i \in Items : item'[i] \in ItemRows \cup {None} /\ action'[i] \in ActionRows \cup {None}
  BY <1>4 DEF RowOK
<1>6. Rows'
  BY <1>1, <1>4, <1>5 DEF Rows
<1> QED
  BY <1>1, <1>6 DEF ResultKeeps, IInv, Typed

LEMMA Persisted ==
    ASSUME IInv, RoParameters, NEW w \in Slots, Persist(w)
    PROVE  /\ IInv'
           /\ \A r \in Runs : run[r].status # "COMPLETED" /\ run'[r].status = "COMPLETED" =>
                run[r].status # "none" /\ run[r].revision = state.revision
<1> DEFINE r == slot[w].run
           new == [NoRun EXCEPT !.status = "COMPLETED", !.stage = run[r].stage,
                                !.revision = run[r].revision]
<1>1. /\ slot[w].pc = "persist" /\ run[r].status # "COMPLETED" /\ state.revision = run[r].revision
      /\ run' = [run EXCEPT ![r] = new] /\ Analysis!Goto(w, "end")
      /\ UNCHANGED <<evidence, job, request>>
  BY DEF Persist, InputUnchanged
<1>2. r \in Runs /\ run[r].status # "none" /\ run[r] \in RunRecords
  BY <1>1, RunAtWork DEF IInv, Typed
<1>3. /\ run[r].evidence \in EvidenceRecords
      /\ run[r].stage = "GENERATION" => run[r].branch \in Branches
      /\ \A i \in Items : run[r].items[i] # None => run[r].items[i] = item[i]
  BY <1>1, <1>2 DEF IInv, Inputs, RunInput
<1>4. slot[w].found \in SUBSET Items /\ \A i \in slot[w].found : run[r].items[i] # None
  BY <1>1 DEF IInv, Inputs, SlotInput
<1>5. ResultKeeps
  BY <1>2, <1>3, <1>4, GenerationResult, TreatmentResult DEF Persist
<1>6. new \in RunRecords /\ new.status = "COMPLETED" /\ new.revision = run[r].revision
  <2>1. NoRun \in RunRecords
    BY DEF NoRun, RunRecords
  <2>2. run[r].stage \in Stages \cup {None} /\ run[r].revision \in Nat
    BY <1>2 DEF RunRecords
  <2> QED
    BY <2>1, <2>2 DEF RunRecords
<1> HIDE DEF new
<1>7. run' \in [Runs -> RunRecords] /\ A!RunsKept
  BY <1>1, <1>2, <1>6 DEF IInv, Typed, A!RunsKept
<1>8. A!Wired(EvidenceRecords, SUBSET Items)'
  <2>1. A!SlotMoves
    BY <1>1, SharedSteps DEF A!SlotMoves
  <2> QED
    BY <1>7, <2>1, A!SlotMovesWired DEF IInv
<1>9. state' \in StateRows /\ Inputs' /\ ValidatedComplete'
  <2>1. PICK s \in StateRows : s.revision = state.revision /\ state' = Touched(s)
    BY <1>5 DEF ResultKeeps
  <2>2. \A t \in Runs : run'[t].status # "none" =>
          run[t].status # "none" /\ run'[t].revision = run[t].revision
    BY <1>1, <1>2, <1>6 DEF IInv, Typed
  <2>3. \A v \in Slots : slot'[v].pc = "persist" =>
          slot'[v].run \in Runs /\ run'[slot'[v].run].status # "none"
    BY <1>8 DEF A!Wired, A!SlotsWired, A!JobsHaveRuns
  <2> QED
    BY <2>1, <2>2, <2>3, TouchedState DEF IInv
<1>10. IInv'
  BY <1>1, <1>5, <1>7, <1>8, <1>9 DEF IInv, Typed, ResultKeeps
<1>11. \A t \in Runs : run[t].status # "COMPLETED" /\ run'[t].status = "COMPLETED" => t = r
  BY <1>1, <1>2 DEF IInv, Typed
<1> QED
  BY <1>1, <1>2, <1>10, <1>11

-----------------------------------------------------------------------------
(* The steps together.                                                     *)

LEMMA Starts ==
    ASSUME RoParameters, Init
    PROVE  IInv
<1> DEFINE first == [at |-> 0, digest |-> 0, source |-> [s \in Sources |-> 0]]
           level == CHOOSE x \in Levels : TRUE
           Version(i) == IF SourceOf[i] = None THEN None ELSE 0
           TheItem(i) == [status |-> "RETAINED", content |-> "ai", rating |-> level,
                          ratingReviewed |-> TRUE, controls |-> "none", controlsReviewed |-> TRUE,
                          source |-> Version(i), treated |-> None]
           TheAction(i) == [status |-> "RETAINED", by |-> "ai", progress |-> "todo",
                            basis |-> Treats(i)]
<1>1. PICK done \in DOMAIN WritesOf :
         /\ item = [i \in Items |-> IF done = "nothing" THEN None ELSE TheItem(i)]
         /\ action = [i \in Items |-> IF done # "treated" THEN None ELSE TheAction(i)]
         /\ state = [revision |-> WritesOf[done], limit |-> WritesOf[done] + MaxWrites,
                     branch |-> [b \in Branches |->
                       IF done = "nothing" THEN None ELSE Fingerprint(b, first)],
                     validated |-> IF done = "treated" THEN first ELSE None]
  BY DEF Init
<1>2. done \in {"nothing", "controlled", "treated"} /\ WritesOf[done] \in Nat
  BY DEF WritesOf
<1>3. evidence = first /\ run = [r \in Runs |-> NoRun] /\ A!Init
  BY SharedSteps DEF Init
<1>4. first \in EvidenceRecords /\ \A s \in Sources : first.source[s] = 0
  BY DEF EvidenceRecords
<1>5. level \in Levels /\ level # None
  BY DEF RoParameters
<1>6. \A i \in Items : Version(i) \in Nat \cup {None}
  OBVIOUS
<1> HIDE DEF first, level, Version
<1>7. ASSUME NEW i \in Items
      PROVE  /\ TheItem(i) \in ItemRows /\ TheItem(i).rating = level /\ TheItem(i).ratingReviewed
             /\ TheItem(i).controls = "none" /\ TheItem(i).controlsReviewed
             /\ TheItem(i).status = "RETAINED"
  BY <1>5, <1>6 DEF ItemRows, Reviews, Writers
<1> HIDE DEF TheItem
<1>8. ASSUME NEW i \in Items, done = "treated"
      PROVE  TheAction(i) \in ActionRows /\ TheAction(i).basis = Treats(i)
             /\ TheAction(i).status = "RETAINED"
  <2>1. item[i] = TheItem(i)
    BY <1>1, <1>8
  <2>2. Treats(i) \in Bases
    BY <1>5, <1>7, <2>1 DEF Treats, Bases, ItemRows
  <2> QED
    BY <2>2 DEF ActionRows, Reviews, Writers
<1> HIDE DEF TheAction
<1>9. ASSUME NEW i \in Items PROVE RowOK(item[i], action[i])
  <2>1. CASE done = "treated"
    <3>1. item[i] = TheItem(i) /\ action[i] = TheAction(i)
      BY <1>1, <2>1
    <3> QED
      BY <1>5, <1>7, <1>8, <2>1, <3>1 DEF RowOK, Treats, RoParameters
  <2>2. CASE done = "nothing"
    BY <1>1, <2>2 DEF RowOK, isRetainedRo
  <2>3. CASE done = "controlled"
    <3>1. item[i] = TheItem(i) /\ action[i] = None
      BY <1>1, <2>3
    <3> QED
      BY <1>5, <1>7, <3>1 DEF RowOK, isRetainedRo
  <2> QED
    BY <1>2, <2>1, <2>2, <2>3
<1>10. Rows
  <2>1. \A i \in Items : item[i] \in ItemRows \cup {None} /\ action[i] \in ActionRows \cup {None}
    BY <1>9 DEF RowOK
  <2> QED
    BY <1>1, <1>9, <2>1 DEF Rows
<1>11. state \in StateRows
  <2>1. \A b \in Branches : Fingerprint(b, first) \in Fingerprints(b)
    BY <1>4, FingerprintTyped
  <2>2. [b \in Branches |-> IF done = "nothing" THEN None ELSE Fingerprint(b, first)] \in Prints
    BY <2>1 DEF Prints
  <2>3. WritesOf[done] + MaxWrites \in Nat
    BY <1>2 DEF RoParameters
  <2> QED
    BY <1>1, <1>2, <1>4, <2>2, <2>3 DEF StateRows
<1>12. Typed
  <2>1. NoRun \in RunRecords
    BY DEF NoRun, RunRecords
  <2> QED
    BY <1>3, <1>4, <1>10, <1>11, <2>1 DEF Typed
<1>13. Inputs
  BY <1>3 DEF Inputs, RunInput, SlotInput, NoRun, A!Init, A!Idle
<1>14. ValidatedComplete
  <2> SUFFICES ASSUME done = "treated" PROVE Complete(first)
    BY <1>1 DEF ValidatedComplete
  <2>1. /\ \A i \in Items : item[i] = TheItem(i) /\ action[i] = TheAction(i)
        /\ \A b \in Branches : state.branch[b] = Fingerprint(b, first)
    BY <1>1
  <2>2. ~Outdated(first)
    BY <2>1 DEF Outdated
  <2>3. \A i \in Items : item[i] # None /\ isRetainedRo(item[i]) /\ isRetainedRo(action[i])
    <3> SUFFICES ASSUME NEW i \in Items
                 PROVE  item[i] # None /\ isRetainedRo(item[i]) /\ isRetainedRo(action[i])
      OBVIOUS
    <3>1. item[i] \in ItemRows /\ item[i].status = "RETAINED"
      BY <1>7, <2>1
    <3>2. action[i] \in ActionRows /\ action[i].status = "RETAINED"
      BY <1>8, <2>1
    <3> QED
      BY <3>1, <3>2 DEF isRetainedRo, RoParameters
  <2>4. Visible(first) = Items
    BY <1>4, <2>3 DEF Visible, Present, RoParameters
  <2>5. \A i \in Items : item[i].status # "PENDING"
    BY <1>7, <2>1
  <2>6. ItemsReviewed(first)
    BY <2>2, <2>3, <2>4, <2>5 DEF ItemsReviewed, RoParameters
  <2>7. ControlsDeclared(first)
    BY <1>5, <1>7, <2>1, <2>4, <2>6 DEF ControlsDeclared, RatingDecided
  <2> QED
    BY <2>3, <2>4, <2>7 DEF Complete
<1>15. A!Wired(EvidenceRecords, SUBSET Items)
  BY <1>3, Parameters, A!InitWired DEF NoRun
<1> QED
  BY <1>12, <1>13, <1>14, <1>15 DEF IInv

NothingCompletes ==
    \A r \in Runs : run'[r].status = "COMPLETED" => run[r].status = "COMPLETED"

LEMMA OtherSteps ==
    ASSUME IInv, RoParameters, Next, \A w \in Slots : ~Persist(w)
    PROVE  IInv' /\ NothingCompletes
<1>1. CASE ChangeEvidence
  BY <1>1, ChangeEvidenceKeeps DEF ChangeEvidence, NothingCompletes
<1>2. ASSUME NEW q \in Requests, RequestStep(q)
      PROVE  IInv' /\ NothingCompletes
  <2>1. CASE ReadMaterial(q) \/ Enqueue(q) \/ EnqueueFails(q) \/ RequestEnds(q)
    <3>1. UNCHANGED run \/ run' = [run EXCEPT ![request[q].run].status = "FAILED"]
      BY <2>1 DEF ReadMaterial, Enqueue, EnqueueFails, RequestEnds, Analysis!Read,
         Analysis!Enqueue, Analysis!EnqueueFails, Analysis!RequestEnds
    <3>2. ASSUME NEW t \in Runs, run'[t].status = "COMPLETED" PROVE run[t].status = "COMPLETED"
      BY <3>1, <3>2 DEF IInv, Typed, RunRecords
    <3> QED
      BY <2>1, <3>2, QuietRequestStep DEF NothingCompletes
  <2>2. CASE Validate(q)
    BY <2>2, ValidateKeeps DEF Validate, NothingCompletes
  <2>3. CASE Write(q)
    <3>1. UNCHANGED run
      BY <2>3 DEF Write, AddItem, ReviewItem, Rate, DeclareControls, AddAction, ReviewAction,
         Progress, Effectiveness, WriteItem
    <3> QED
      BY <2>3, <3>1, WriteStep DEF NothingCompletes
  <2>4. ASSUME NEW branch \in Branches, Launch(q, "GENERATION", branch)
        PROVE  IInv' /\ NothingCompletes
    BY <2>4, LaunchKeeps DEF NothingCompletes, Stages
  <2>5. CASE Launch(q, "TREATMENT", None)
    BY <2>5, LaunchKeeps DEF NothingCompletes, Stages
  <2> QED
    BY <1>2, <2>1, <2>2, <2>3, <2>4, <2>5 DEF RequestStep
<1>3. ASSUME NEW w \in Slots,
             MarkRunning(w) \/ PersistDone(w) \/ PersistFails(w) \/ FailRun(w)
      PROVE  IInv' /\ NothingCompletes
  <2>1. UNCHANGED run \/ \E r : \E status \in {"RUNNING", "FAILED"} :
                           run' = [run EXCEPT ![r].status = status]
    BY <1>3 DEF MarkRunning, PersistDone, PersistFails, FailRun, Analysis!MarkRunning,
       Analysis!AlreadyPersisted, Analysis!PersistFails, Analysis!FailRun
  <2> QED
    BY <1>3, <2>1, QuietSlotStep DEF NothingCompletes, IInv, Typed, RunRecords
<1>4. ASSUME NEW w \in Slots, Generate(w)
      PROVE  IInv' /\ NothingCompletes
  BY <1>4, GenerateKeeps DEF Generate, NothingCompletes
<1>5. ASSUME NEW r \in Runs,
             Stall(r) \/ \E w \in Slots : TakeJob(w, r) \/ EndJob(w) \/ Crash(w)
      PROVE  IInv' /\ NothingCompletes
  <2>1. UNCHANGED run
    BY <1>5 DEF TakeJob, EndJob, Crash, Stall, Analysis!TakeJob, Analysis!EndJob,
       Analysis!Crash, Analysis!Stall
  <2> QED
    BY <1>5, <2>1, JobStep DEF NothingCompletes
<1>6. ASSUME NEW w \in Slots, EndJob(w) \/ Crash(w)
      PROVE  slot[w].run \in Runs
  BY <1>6, RunAtWork DEF EndJob, Crash, Analysis!EndJob, Analysis!Crash
<1>7. CASE \E q \in Requests : RequestStep(q)
  BY <1>2, <1>7
<1>8. CASE \E r \in Runs : Stall(r) \/ \E w \in Slots : TakeJob(w, r)
  BY <1>5, <1>8
<1>9. CASE \E w \in Slots : Proceed(w) \/ Crash(w)
  BY <1>3, <1>4, <1>5, <1>6, <1>9 DEF Proceed
<1> QED
  BY <1>1, <1>7, <1>8, <1>9 DEF Next

\* What AppliedToItsRegister says of a slot.
Fits(w) ==
    LET r == slot[w].run IN
    (slot[w].pc = "persist" /\ run[r].stage = "TREATMENT"
       /\ run[r].status # "COMPLETED" /\ run'[r].status = "COMPLETED") =>
      \A i \in Items : run[r].items[i] # None =>
        /\ item[i] = run[r].items[i]
        /\ i \notin slot[w].found =>
             action[i] # None /\ action[i].status # "NOT_RETAINED"

\* Every step keeps the inductive invariant, and a result that it writes fits the items.
LEMMA StepKeeps ==
    ASSUME IInv, RoParameters, [Next]_vars
    PROVE  IInv' /\ \A w \in Slots : Fits(w)
<1>1. CASE UNCHANGED vars
  <2>1. UNCHANGED <<evidence, state, rows, run, job, request, slot>> /\ evidence' \in EvidenceRecords
    BY <1>1 DEF vars, worker, IInv, Typed
  <2>2. A!Wired(EvidenceRecords, SUBSET Items)'
    BY <2>1, SameRuns, A!RunsMoveWired DEF IInv
  <2>3. SlotsRead
    BY <2>1 DEF SlotsRead
  <2> QED
    BY <2>1, <2>2, <2>3, SameRuns, SlotsKept, RegisterKept DEF Fits
<1>2. CASE \E w \in Slots : Persist(w)
  <2>1. /\ IInv'
        /\ \A r \in Runs : run[r].status # "COMPLETED" /\ run'[r].status = "COMPLETED" =>
             run[r].status # "none" /\ run[r].revision = state.revision
    BY <1>2, Persisted
  <2>2. ASSUME NEW w \in Slots PROVE Fits(w)
    <3> DEFINE r == slot[w].run
    <3> SUFFICES ASSUME slot[w].pc = "persist", run[r].status # "COMPLETED",
                        run'[r].status = "COMPLETED", NEW i \in Items, run[r].items[i] # None
                 PROVE  /\ item[i] = run[r].items[i]
                        /\ i \notin slot[w].found =>
                             action[i] # None /\ action[i].status # "NOT_RETAINED"
      BY DEF Fits
    <3>1. r \in Runs /\ run[r].status # "none" /\ run[r].revision = state.revision
      BY <2>1, RunAtWork
    <3> QED
      BY <3>1 DEF IInv, Inputs, RunInput, SlotInput
  <2> QED
    BY <2>1, <2>2
<1>3. CASE Next /\ \A w \in Slots : ~Persist(w)
  <2>1. IInv' /\ NothingCompletes
    BY <1>3, OtherSteps
  <2> QED
    BY <2>1, RunAtWork DEF NothingCompletes, Fits
<1> QED
  BY <1>1, <1>2, <1>3

LEMMA InvariantTypes ==
    ASSUME IInv, RoParameters
    PROVE  TypeOK
<1>1. Analysis!Queue!TypeOK
  BY DEF IInv, A!Wired, A!JobsTyped, A!JobRecords, Analysis!Queue!TypeOK
<1>2. request \in [Requests -> Analysis!RequestTypes(EvidenceRecords)]
  BY DEF IInv, A!Wired, A!RequestsWired, A!RequestTypes, Analysis!RequestTypes
<1>3. slot \in [Slots -> Analysis!SlotTypes(SUBSET Items)]
  BY DEF IInv, A!Wired, A!SlotsWired, A!SlotTypes, Analysis!SlotTypes
<1>4. /\ state.revision \in Nat /\ state.validated \in EvidenceRecords \cup {None}
      /\ \A b \in Branches : state.branch[b] \in Fingerprints(b) \cup {None}
  BY DEF IInv, Typed, StateRows, Prints
<1>5. \A r \in Runs :
         /\ run[r].status \in {"none", "DRAFT", "RUNNING", "COMPLETED", "FAILED"}
         /\ run[r].revision \in Nat /\ run[r].evidence \in EvidenceRecords \cup {None}
  BY DEF IInv, Typed, RunRecords
<1> QED
  BY <1>1, <1>2, <1>3, <1>4, <1>5 DEF IInv, Typed, Rows, TypeOK

\* Items, actions, runs, jobs and requests hold what their tables can hold, for any
\* number of items, sources, runs, requests, slots and attempts.
THEOREM TypeCorrect ==
    ASSUME RoParameters
    PROVE  Spec => []TypeOK
<1>1. Init => IInv
  BY Starts
<1>2. IInv /\ [Next]_vars => IInv'
  BY StepKeeps
<1>3. IInv => TypeOK
  BY InvariantTypes
<1> QED
  BY <1>1, <1>2, <1>3, PTL DEF Spec

\* A retained action was decided for the item as it is described, rated and sourced now.
THEOREM ActionsAreUpToDate ==
    ASSUME RoParameters
    PROVE  Spec => []ActionUpToDate
<1>1. Init => IInv
  BY Starts
<1>2. IInv /\ [Next]_vars => IInv'
  BY StepKeeps
<1>3. IInv => ActionUpToDate
  BY DEF IInv, Typed, Rows, RowOK, ActionUpToDate, Treats
<1> QED
  BY <1>1, <1>2, <1>3, PTL DEF Spec

\* What is shown as validated is complete over the items that were shown.
THEOREM ValidatedIsComplete ==
    ASSUME RoParameters
    PROVE  Spec => []ValidatedComplete
<1>1. Init => IInv
  BY Starts
<1>2. IInv /\ [Next]_vars => IInv'
  BY StepKeeps
<1>3. IInv => ValidatedComplete
  BY DEF IInv
<1> QED
  BY <1>1, <1>2, <1>3, PTL DEF Spec

\* A treatment is applied to the items that its run was launched with, and those it did
\* not ask about still have their action, whatever was written and delivered in between.
THEOREM TreatmentsFitTheRegister ==
    ASSUME RoParameters
    PROVE  Spec => AppliedToItsRegister
<1>1. Init => IInv
  BY Starts
<1>2. IInv /\ [Next]_vars => IInv'
  BY StepKeeps
<1>3. IInv /\ [Next]_vars => [\A w \in Slots : Fits(w)]_vars
  BY StepKeeps
<1> QED
  BY <1>1, <1>2, <1>3, PTL DEF Spec, AppliedToItsRegister, Fits

-----------------------------------------------------------------------------
(* The jobs.                                                               *)

LEMMA QueueSteps ==
    ASSUME RoParameters, IInv, [Next]_vars
    PROVE  [A!Queue!Next]_job
<1>w. A!Wired(EvidenceRecords, SUBSET Items)
  BY DEF IInv
<1>1. CASE UNCHANGED vars
  BY <1>1 DEF vars, worker
<1>2. CASE ChangeEvidence
  BY <1>2 DEF ChangeEvidence, worker
<1>3. ASSUME NEW q \in Requests, RequestStep(q)
      PROVE  [A!Queue!Next]_job
  <2>1. CASE Enqueue(q)
    <3>1. A!Enqueue(q)
      BY <2>1, SharedSteps DEF Enqueue
    <3> QED
      BY <1>w, <3>1, A!QueueMoves
  <2>2. CASE ~Enqueue(q)
    BY <1>3, <2>2 DEF RequestStep, worker, ReadMaterial, Validate, Launch, Write, WriteItem,
       AddItem, ReviewItem, Rate, DeclareControls, AddAction, ReviewAction,
       Progress, Effectiveness, EnqueueFails, RequestEnds, Analysis!EnqueueFails,
       Analysis!RequestEnds, Analysis!Create, Analysis!Read, Analysis!Done
  <2> QED
    BY <2>1, <2>2
<1>4. ASSUME NEW w \in Slots, Proceed(w) \/ Crash(w)
      PROVE  [A!Queue!Next]_job
  <2>1. CASE EndJob(w)
    <3>1. A!EndJob(w)
      BY <2>1, SharedSteps DEF EndJob
    <3> QED
      BY <1>w, <3>1, A!QueueMoves
  <2>2. CASE ~EndJob(w)
    BY <1>4, <2>2 DEF Proceed, Crash, MarkRunning, Generate, Persist, PersistDone, PersistFails,
       FailRun, Analysis!MarkRunning, Analysis!AlreadyPersisted,
       Analysis!PersistFails, Analysis!FailRun, Analysis!Crash, Analysis!Goto
  <2> QED
    BY <2>1, <2>2
<1>5. ASSUME NEW r \in Runs, Stall(r) \/ \E w \in Slots : TakeJob(w, r)
      PROVE  [A!Queue!Next]_job
  <2>1. A!Stall(r) \/ \E w \in Slots : A!TakeJob(w, r)
    BY <1>5, SharedSteps DEF Stall, TakeJob
  <2> QED
    BY <1>w, <2>1, A!QueueMoves
<1> QED
  BY <1>1, <1>2, <1>3, <1>4, <1>5 DEF Next

LEMMA SameQueue ==
    /\ A!Queue!Delivery!Init <=> Analysis!Queue!Delivery!Init
    /\ [A!Queue!Delivery!Next]_([i \in Runs |-> A!Queue!Progress(job[i])])
       <=> [Analysis!Queue!Delivery!Next]_([i \in Runs |-> Analysis!Queue!Progress(job[i])])
BY Zenon DEF A!Queue!Progress, Analysis!Queue!Progress, A!Queue!Delivery!Init,
  Analysis!Queue!Delivery!Init, A!Queue!Delivery!Add, Analysis!Queue!Delivery!Add,
  A!Queue!Delivery!Deliver, Analysis!Queue!Delivery!Deliver,
  A!Queue!Delivery!Complete, Analysis!Queue!Delivery!Complete,
  A!Queue!Delivery!GiveUp, Analysis!Queue!Delivery!GiveUp, A!Queue!Delivery!Next,
  Analysis!Queue!Delivery!Next

\* The jobs of the analyses of risks and opportunities make only steps of the queue,
\* which delivers each of them at most once for every attempt and every stall it forgives.
THEOREM JobsAreDelivered ==
    ASSUME RoParameters
    PROVE  Spec => Analysis!Queue!DeliveryImplemented
<1>1. Init => IInv /\ A!Queue!Init
  <2>1. Init => A!Init
    BY SharedSteps DEF Init
  <2> QED
    BY <2>1, Starts DEF A!Init
<1>2. IInv /\ [Next]_vars => IInv' /\ [A!Queue!Next]_job
  BY StepKeeps, QueueSteps
<1>3. A!Queue!Spec => A!Queue!DeliveryImplemented
  BY Parameters, A!DeliveryIsImplemented
<1>4. Spec => A!Queue!DeliveryImplemented
  BY <1>1, <1>2, <1>3, PTL DEF Spec, A!Queue!Spec
<1>5. A!Queue!Delivery!Init <=> Analysis!Queue!Delivery!Init
  BY SameQueue
<1>6. [A!Queue!Delivery!Next]_([i \in Runs |-> A!Queue!Progress(job[i])])
       <=> [Analysis!Queue!Delivery!Next]_([i \in Runs |-> Analysis!Queue!Progress(job[i])])
  BY SameQueue
<1> QED
  BY <1>4, <1>5, <1>6, PTL DEF A!Queue!DeliveryImplemented,
     Analysis!Queue!DeliveryImplemented, A!Queue!Delivery!Spec,
     Analysis!Queue!Delivery!Spec

-----------------------------------------------------------------------------
(* Who is at work on a run.                                                *)

LEMMA SharedWork ==
    /\ \A q : Analysis!EnqueueFails(q) <=> A!EnqueueFails(q)
    /\ \A w : Analysis!MarkRunning(w) <=> A!MarkRunning(w)
    /\ \A w, statuses : Analysis!AlreadyPersisted(w, statuses) <=> A!AlreadyPersisted(w, statuses)
    /\ \A w : Analysis!PersistFails(w) <=> A!PersistFails(w)
    /\ \A w : Analysis!FailRun(w) <=> A!FailRun(w)
    /\ Analysis!RunEndsWithItsJob <=> A!RunEndsWithItsJob
BY SharedSteps DEF Analysis!EnqueueFails, A!EnqueueFails, Analysis!MarkRunning, A!MarkRunning,
  Analysis!NoOtherActive, A!NoOtherActive, Analysis!Active, A!Active,
  Analysis!AlreadyPersisted, A!AlreadyPersisted, Analysis!PersistFails, A!PersistFails,
  Analysis!FailRun, A!FailRun, Analysis!RunEndsWithItsJob, A!RunEndsWithItsJob,
  Analysis!Ended, A!Ended

LEMMA RunsAreRows ==
    ASSUME IInv
    PROVE  A!RunsAreRows
BY DEF IInv, Typed, RunRecords, A!RunsAreRows

LEMMA WorkSteps ==
    ASSUME RoParameters, IInv, [Next]_vars
    PROVE  A!WorkStep /\ (A!EndedKept \/ \E w \in Slots : A!MarkRunning(w))
<1>w. A!Wired(EvidenceRecords, SUBSET Items) /\ A!RunsAreRows
  BY RunsAreRows DEF IInv
<1>1. CASE UNCHANGED vars \/ ChangeEvidence
  BY <1>1 DEF vars, worker, ChangeEvidence, A!WorkStep, A!EndedKept
<1>2. ASSUME NEW q \in Requests, RequestStep(q)
      PROVE  A!WorkStep /\ A!EndedKept
  <2>1. CASE EnqueueFails(q)
    <3>1. A!EnqueueFails(q)
      BY <2>1, SharedWork DEF EnqueueFails
    <3> QED
      BY <1>w, <3>1, A!FailedRequest
  <2>2. ASSUME NEW stage, NEW branch, Launch(q, stage, branch)
        PROVE  A!WorkStep /\ A!EndedKept
    <3>1. PICK row : row.status = "DRAFT" /\ A!Create(q, row)
      BY <2>2, SharedSteps DEF Launch
    <3>2. UNCHANGED <<job, slot>>
      BY <2>2 DEF Launch, worker
    <3> QED
      BY <1>w, <3>1, <3>2, A!RequestsAtWork
  <2>3. CASE ReadMaterial(q) \/ Write(q) \/ Validate(q) \/ RequestEnds(q)
    <3>1. UNCHANGED <<run, job, slot>>
      BY <2>3 DEF ReadMaterial, Validate, RequestEnds, worker, Write, WriteItem, AddItem,
         ReviewItem, Rate, DeclareControls, AddAction, ReviewAction, Progress, Effectiveness,
         Analysis!Read, Analysis!RequestEnds
    <3> QED
      BY <1>w, <3>1, A!RequestsAtWork
  <2>4. CASE Enqueue(q)
    <3>1. A!Enqueue(q) /\ UNCHANGED slot
      BY <2>4, SharedSteps DEF Enqueue, Analysis!Enqueue
    <3> QED
      BY <1>w, <3>1, A!RequestsAtWork
  <2> QED
    BY <1>2, <2>1, <2>2, <2>3, <2>4 DEF RequestStep
<1>3. ASSUME NEW w \in Slots, MarkRunning(w)
      PROVE  A!WorkStep /\ A!MarkRunning(w)
  BY <1>w, <1>3, SharedWork, A!SlotsAtWork DEF MarkRunning
<1>4. ASSUME NEW w \in Slots, Proceed(w), ~MarkRunning(w)
      PROVE  A!WorkStep /\ A!EndedKept
  <2>1. CASE Generate(w)
    <3>1. /\ slot[w].pc # "idle" /\ UNCHANGED <<run, job>>
          /\ \E pc \in {"persist", "fail"} : \E found :
               slot' = [slot EXCEPT ![w].pc = pc, ![w].found = found]
      BY <2>1 DEF Generate
    <3>2. slot[w] \in A!SlotTypes(SUBSET Items)
      BY <1>w DEF A!Wired, A!SlotsWired
    <3>a. PICK pc \in {"persist", "fail"} :
               \E found : slot' = [slot EXCEPT ![w].pc = pc, ![w].found = found]
      BY <3>1
    <3>3. PICK found : slot' = [slot EXCEPT ![w].pc = pc, ![w].found = found]
      BY <3>a
    <3> DEFINE new == [slot[w] EXCEPT !.pc = pc, !.found = found]
    <3>4. new.pc = pc /\ new.run = slot[w].run /\ slot' = [slot EXCEPT ![w] = new]
      BY <3>2, <3>3 DEF A!SlotTypes
    <3> HIDE DEF new
    <3>5. A!WorkStep
      BY <3>1, <3>4 DEF A!WorkStep, A!SlotGoesOn
    <3> QED
      BY <3>1, <3>5 DEF A!EndedKept
  <2>2. CASE Persist(w)
    <3>1. PICK row : row.status = "COMPLETED" /\ run' = [run EXCEPT ![slot[w].run] = row]
      BY <2>2 DEF Persist, NoRun
    <3>2. slot[w].pc # "idle" /\ UNCHANGED job /\ A!Goto(w, "end") /\ row.status \in A!Ended
      BY <2>2, <3>1, SharedSteps DEF Persist, A!Ended
    <3> QED
      BY <1>w, <3>1, <3>2, A!ResultAtWork
  <2>3. CASE PersistDone(w)
    <3>1. A!AlreadyPersisted(w, {"COMPLETED"}) /\ {"COMPLETED"} \in SUBSET A!Ended
      BY <2>3, SharedWork DEF PersistDone, A!Ended
    <3> QED
      BY <1>w, <3>1, A!SlotsAtWork
  <2>4. CASE PersistFails(w) \/ FailRun(w)
    <3>1. A!PersistFails(w) \/ A!FailRun(w)
      BY <2>4, SharedWork DEF PersistFails, FailRun
    <3> QED
      BY <1>w, <3>1, A!SlotsAtWork
  <2>5. CASE EndJob(w)
    <3>1. A!EndJob(w)
      BY <2>5, SharedSteps DEF EndJob
    <3> QED
      BY <1>w, <3>1, A!RunAtWork, A!JobsAtWork DEF A!EndJob
  <2> QED
    BY <1>4, <2>1, <2>2, <2>3, <2>4, <2>5 DEF Proceed
<1>5. ASSUME NEW r \in Runs, Stall(r) \/ \E w \in Slots : TakeJob(w, r)
      PROVE  A!WorkStep /\ A!EndedKept
  <2>1. A!Stall(r) \/ \E w \in Slots : A!TakeJob(w, r)
    BY <1>5, SharedSteps DEF Stall, TakeJob
  <2> QED
    BY <2>1, A!JobsAtWork
<1>6. ASSUME NEW w \in Slots, Crash(w)
      PROVE  A!WorkStep /\ A!EndedKept
  <2>1. A!Crash(w)
    BY <1>6, SharedSteps DEF Crash
  <2> QED
    BY <1>w, <2>1, A!RunAtWork, A!JobsAtWork DEF A!Crash
<1> QED
  BY <1>1, <1>2, <1>3, <1>4, <1>5, <1>6 DEF Next

\* When the queue has completed the job of an analysis of risks and opportunities, and
\* gave it to no second slot meanwhile, the run has ended.
THEOREM RunsEndWithTheirJobs ==
    ASSUME RoParameters
    PROVE  Spec => []Analysis!RunEndsWithItsJob
<1> DEFINE AtWork == A!AllHeld /\ A!SettledUnlessStalled
<1>1. Init => IInv /\ AtWork
  <2>1. Init => A!Init
    BY SharedSteps DEF Init
  <2> QED
    BY <2>1, Starts, A!NobodyAtWork
<1>2. IInv /\ AtWork /\ [Next]_vars => IInv' /\ AtWork'
  <2> SUFFICES ASSUME IInv, AtWork, [Next]_vars
               PROVE  IInv' /\ AtWork'
    OBVIOUS
  <2>1. A!WorkStep /\ (A!EndedKept \/ \E w \in Slots : A!MarkRunning(w))
    BY WorkSteps
  <2>2. A!Wired(EvidenceRecords, SUBSET Items) /\ run \in [Runs -> RunRecords]
    BY DEF IInv, Typed
  <2> QED
    BY <2>1, <2>2, StepKeeps, A!HeldKept, A!UnlessStalledKept
<1>3. AtWork => A!RunEndsWithItsJob
  BY DEF A!SettledUnlessStalled, A!Settled, A!RunEndsWithItsJob
<1>4. A!RunEndsWithItsJob <=> Analysis!RunEndsWithItsJob
  BY SharedWork
<1> HIDE DEF AtWork
<1> QED
  BY <1>1, <1>2, <1>3, <1>4, PTL DEF Spec
=============================================================================
