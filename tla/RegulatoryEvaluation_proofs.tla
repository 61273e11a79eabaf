-------------------- MODULE RegulatoryEvaluation_proofs --------------------
(***************************************************************************)
(* What holds of RegulatoryEvaluation for every number of rows, passes,    *)
(* slots, requests and calls, and for every budget.                        *)
(***************************************************************************)
EXTENDS RegulatoryEvaluation, FiniteSetTheorems, TLAPS

-----------------------------------------------------------------------------
(* Type correctness.                                                       *)

LEMMA IdleTyped == Idle \in SlotRecords
BY DEF Idle, SlotRecords

LEMMA NoEditTyped == NoEdit \in EditRecords
BY DEF NoEdit, EditRecords

LEMMA DecisionTyped ==
    ASSUME TypeOK, NEW r \in Rows
    PROVE  Decision(r) \in DecisionRecords
BY DEF TypeOK, RowRecords, DecisionRecords, Decision

LEMMA WithAiTyped ==
    ASSUME TypeOK, NEW r \in Rows,
           NEW status \in {"PENDING", "RUNNING", "COMPLETED", "FAILED"},
           NEW proposal \in {None} \cup DecisionRecords
    PROVE  WithAi(r, status, proposal) \in RowRecords
BY DEF TypeOK, RowRecords, WithAi

LEMMA FailEvaluationsTyped ==
    ASSUME TypeOK, NEW ids, FailEvaluations(ids)
    PROVE  row' \in [Rows -> RowRecords]
<1>1. \A r \in Rows : row[r].proposal \in {None} \cup DecisionRecords /\ row[r] \in RowRecords
  BY DEF TypeOK, RowRecords
<1>2. \A r \in Rows : WithAi(r, "FAILED", row[r].proposal) \in RowRecords
  BY <1>1, WithAiTyped
<1> QED
  BY <1>1, <1>2 DEF FailEvaluations

LEMMA SettleTyped ==
    ASSUME TypeOK, NEW c \in Calls, NEW cost \in 0..Reserve, Settle(c, cost)
    PROVE  call' \in [Calls -> {"free", "running", "overdue"}] /\ settled' \in Nat
BY LedgerAssumption DEF TypeOK, Settle

LEMMA InitTyped == Init => TypeOK
<1> SUFFICES ASSUME Init PROVE TypeOK
  OBVIOUS
<1>1. row \in [Rows -> RowRecords]
  <2>1. [result : Carried, revision : {1}, aiStatus : {"PENDING"}, proposal : {None},
         stale : {FALSE}] \subseteq RowRecords
    <3> SUFFICES ASSUME NEW x \in [result : Carried, revision : {1}, aiStatus : {"PENDING"},
                                   proposal : {None}, stale : {FALSE}]
                 PROVE  x \in RowRecords
      OBVIOUS
    <3>1. x.stale = FALSE
      OBVIOUS
    <3>2. x.stale \in BOOLEAN
      BY <3>1, Zenon
    <3> QED
      BY <3>2, ResultsAssumption DEF RowRecords
  <2>2. row \in [Rows -> [result : Carried, revision : {1}, aiStatus : {"PENDING"},
                          proposal : {None}, stale : {FALSE}]]
    BY DEF Init
  <2> QED
    BY <2>1, <2>2
<1>2. job \in [Jobs -> JobRecords]
  BY DEF Init, JobRecords
<1>3. worker \in [Workers -> SlotRecords]
  BY IdleTyped DEF Init
<1>4. edit \in [Users -> EditRecords]
  BY NoEditTyped DEF Init
<1> QED
  BY <1>1, <1>2, <1>3, <1>4 DEF Init, TypeOK

-----------------------------------------------------------------------------
(* The inductive invariant.                                                *)

\* What a slot remembers wherever its program counter relies on it: the job it
\* runs, the call it waits for, and, for every entry it still holds, the gap the
\* attempt was started on.
SlotReady(s) ==
    /\ s.pc # "idle" => s.job \in Jobs
    /\ s.pc = "call" => s.call \in Calls
    /\ IF s.pc \in {"reserve", "call", "write", "fail"} THEN s.at \in Rows ELSE s.at = None
    /\ \A r \in Rows : r \in s.todo \/ r = s.at =>
         s.snap[r] \in DecisionRecords /\ s.snap[r].result \in Gaps

SlotsReady == \A w \in Workers : SlotReady(worker[w])

\* A request that still holds the revision of its row has also seen its result.
EditsCurrent ==
    \A u \in Users : edit[u].pc = "read" =>
      /\ edit[u].row \in Rows
      /\ edit[u].expected <= row[edit[u].row].revision
      /\ edit[u].expected = row[edit[u].row].revision =>
           edit[u].result = row[edit[u].row].result

IInv == TypeOK /\ SlotsReady /\ EditsCurrent /\ ProposalMatchesDecision

\* What every step keeps that is no request to read or save a decision.
DecisionsKept ==
    /\ edit' = edit
    /\ \A r \in Rows : /\ row'[r].result = row[r].result
                       /\ row'[r].revision = row[r].revision

LEMMA NextPcTyped == \A todo : NextPc(todo) \in {"done", "mark"}
BY DEF NextPc

LEMMA FailAttemptTyped ==
    ASSUME TypeOK, NEW w \in Workers, worker[w].job \in Jobs, FailAttempt(w)
    PROVE  TypeOK'
<1>1. job' \in [Jobs -> JobRecords]
  <2> DEFINE j == worker[w].job
             status == IF job[j].made + 1 < Attempts THEN "waiting" ELSE "failed"
  <2>1. job[j].made + 1 \in Nat /\ status \in {"waiting", "failed"}
    BY DEF TypeOK, JobRecords
  <2>2. CASE job[j].holder = w
    <3>1. job' = [job EXCEPT ![j] = [@ EXCEPT !.made = job[j].made + 1, !.holder = None,
                                              !.status = status]]
      BY <2>2 DEF FailAttempt
    <3> HIDE DEF status
    <3> QED
      BY <2>1, <3>1 DEF TypeOK, JobRecords
  <2>3. CASE job[j].holder # w
    BY <2>3 DEF TypeOK, FailAttempt
  <2> QED
    BY <2>2, <2>3
<1>2. worker' \in [Workers -> SlotRecords]
  BY IdleTyped DEF TypeOK, FailAttempt
<1> QED
  BY <1>1, <1>2 DEF TypeOK, FailAttempt

LEMMA TypeStep == IInv /\ [Next]_vars => TypeOK'
<1> SUFFICES ASSUME IInv, [Next]_vars PROVE TypeOK'
  OBVIOUS
<1> USE DEF IInv
<1>a. worker \in [Workers -> SlotRecords] /\ job \in [Jobs -> JobRecords]
  BY DEF TypeOK
<1>1. ASSUME NEW j \in Jobs, StartEvaluation(j) PROVE TypeOK'
  <2>1. row' \in [Rows -> RowRecords]
    BY <1>1, WithAiTyped DEF TypeOK, StartEvaluation
  <2>2. job' \in [Jobs -> JobRecords]
    BY <1>1 DEF TypeOK, JobRecords, StartEvaluation, Retryable
  <2> QED
    BY <1>1, <2>1, <2>2 DEF TypeOK, StartEvaluation
<1>2. ASSUME NEW j \in Jobs, Enqueue(j) PROVE TypeOK'
  BY <1>2 DEF TypeOK, JobRecords, Enqueue
<1>3. ASSUME NEW j \in Jobs, EnqueueFails(j) PROVE TypeOK'
  <2>1. row' \in [Rows -> RowRecords]
    BY <1>3, FailEvaluationsTyped DEF EnqueueFails
  <2>2. job' \in [Jobs -> JobRecords]
    BY <1>3 DEF TypeOK, JobRecords, EnqueueFails
  <2> QED
    BY <1>3, <2>1, <2>2 DEF TypeOK, EnqueueFails
<1>4. ASSUME NEW j \in Jobs, StallJob(j) PROVE TypeOK'
  <2> DEFINE stalled == job[j].stalled + 1
             status == IF job[j].stalled < MaxStalled THEN "waiting" ELSE "failed"
  <2>1. job' = [job EXCEPT ![j] = [@ EXCEPT !.holder = None, !.stalled = stalled,
                                            !.status = status]]
    BY <1>4 DEF StallJob
  <2>2. stalled \in Nat /\ status \in {"waiting", "failed"}
    BY <1>a DEF JobRecords
  <2>3. job' \in [Jobs -> JobRecords]
    <3> HIDE DEF stalled, status
    <3> QED
      BY <1>a, <2>1, <2>2 DEF JobRecords
  <2> QED
    BY <1>4, <2>3 DEF TypeOK, StallJob
<1>5. ASSUME NEW u \in Users, NEW r \in Rows, NEW v \in 1..MaxRevision, ReadEvaluation(u, r, v)
      PROVE  TypeOK'
  BY <1>5 DEF TypeOK, RowRecords, EditRecords, ReadEvaluation
<1>6. ASSUME NEW u \in Users, NEW result \in Chosen, SaveDecision(u, result) PROVE TypeOK'
  <2>1. edit[u].row \in Rows
    BY <1>6 DEF EditsCurrent, SaveDecision
  <2>2. row' \in [Rows -> RowRecords]
    BY <1>6, <2>1, ResultsAssumption DEF TypeOK, RowRecords, SaveDecision
  <2> QED
    BY <1>6, <2>2, NoEditTyped DEF TypeOK, SaveDecision
<1>7. ASSUME NEW u \in Users, SaveConflicts(u) PROVE TypeOK'
  BY <1>7, NoEditTyped DEF TypeOK, SaveConflicts
<1>8. ASSUME NEW w \in Workers, NEW j \in Jobs, TakeJob(w, j) PROVE TypeOK'
  <2>1. job' \in [Jobs -> JobRecords]
    BY <1>8 DEF TypeOK, JobRecords, TakeJob
  <2>2. worker' \in [Workers -> SlotRecords]
    <3>1. [Idle EXCEPT !.pc = "load", !.job = j, !.attempt = job[j].made + 1] \in SlotRecords
      <4>1. job[j].made + 1 \in Nat
        BY <1>a DEF JobRecords
      <4> QED
        BY <4>1, IdleTyped DEF SlotRecords
    <3> QED
      BY <1>8, <1>a, <3>1 DEF TakeJob
  <2> QED
    BY <1>8, <2>1, <2>2 DEF TypeOK, TakeJob
<1>9. ASSUME NEW w \in Workers, LoadBaseline(w) PROVE TypeOK'
  <2>1. worker' \in [Workers -> SlotRecords]
    <3> DEFINE pending == {r \in Rows : IsGap(r) /\ row[r].aiStatus = "RUNNING"}
               snap == [r \in Rows |-> IF r \in pending THEN Decision(r) ELSE None]
    <3>1. snap \in [Rows -> {None} \cup DecisionRecords]
      BY DecisionTyped
    <3>2. pending \in SUBSET Rows /\ NextPc(pending) \in {"done", "mark"}
      BY NextPcTyped
    <3>3. worker' = [worker EXCEPT ![w] = [@ EXCEPT !.snap = snap, !.todo = pending,
                                                    !.pc = NextPc(pending)]]
      BY <1>9 DEF LoadBaseline
    <3> DEFINE pc == NextPc(pending)
               x == [worker[w] EXCEPT !.snap = snap, !.todo = pending, !.pc = pc]
    <3>4. worker' = [worker EXCEPT ![w] = x]
      BY <3>3
    <3>5. worker[w] \in SlotRecords
      BY <1>a
    <3> HIDE DEF pending, snap, pc
    <3>6. x \in SlotRecords
      <4>1. pc \in {"done", "mark"}
        BY <3>2 DEF pc
      <4> QED
        BY <3>1, <3>2, <3>5, <4>1 DEF SlotRecords
    <3> HIDE DEF x
    <3> QED
      BY <1>a, <3>4, <3>6
  <2> QED
    BY <1>9, <2>1 DEF TypeOK, LoadBaseline, RecoverAbandoned
<1>10. ASSUME NEW w \in Workers, MarkRunning(w) PROVE TypeOK'
  <2> PICK r \in worker[w].todo :
         /\ row' = IF Unchanged(w, r)
                   THEN [row EXCEPT ![r] = WithAi(r, "RUNNING", @.proposal)] ELSE row
         /\ worker' = [worker EXCEPT ![w] = [@ EXCEPT !.at = r, !.todo = worker[w].todo \ {r},
                                                      !.pc = "reserve"]]
    BY <1>10 DEF MarkRunning
  <2>1. r \in Rows
    BY DEF TypeOK, SlotRecords
  <2>2. WithAi(r, "RUNNING", row[r].proposal) \in RowRecords
    BY <2>1, WithAiTyped DEF TypeOK, RowRecords
  <2>3. row' \in [Rows -> RowRecords]
    BY <2>1, <2>2 DEF TypeOK
  <2>4. worker' \in [Workers -> SlotRecords]
    <3>1. [worker[w] EXCEPT !.at = r, !.todo = worker[w].todo \ {r}, !.pc = "reserve"] \in SlotRecords
      BY <1>a, <2>1 DEF SlotRecords
    <3> QED
      BY <1>a, <3>1
  <2> QED
    BY <1>10, <2>3, <2>4 DEF TypeOK, MarkRunning
<1>11. ASSUME NEW w \in Workers, ReserveCall(w) PROVE TypeOK'
  <2> PICK c \in Calls :
         /\ call' = [call EXCEPT ![c] = "running"]
         /\ worker' = [worker EXCEPT ![w] = [@ EXCEPT !.call = c, !.pc = "call"]]
    BY <1>11 DEF ReserveCall
  <2>1. worker' \in [Workers -> SlotRecords]
    <3>1. [worker[w] EXCEPT !.call = c, !.pc = "call"] \in SlotRecords
      BY <1>a DEF SlotRecords
    <3> QED
      BY <1>a, <3>1
  <2> QED
    BY <1>11, <2>1 DEF TypeOK, ReserveCall
<1>12. ASSUME NEW w \in Workers, BudgetExhausted(w) PROVE TypeOK'
  <2>1. Holds(w) \in SUBSET Rows
    BY DEF TypeOK, SlotRecords, Holds
  <2>2. worker' \in [Workers -> SlotRecords]
    BY <1>12, <1>a, <2>1 DEF SlotRecords, BudgetExhausted
  <2> QED
    BY <1>12, <2>2 DEF TypeOK, BudgetExhausted
<1>13. ASSUME NEW w \in Workers, Generate(w) PROVE TypeOK'
  <2>1. worker' \in [Workers -> SlotRecords]
    <3>1. [worker[w] EXCEPT !.call = None, !.pc = "write"] \in SlotRecords
      BY <1>a DEF SlotRecords
    <3> QED
      BY <1>13, <1>a, <3>1 DEF Generate
  <2> QED
    BY <1>13, <2>1, SettleTyped DEF TypeOK, SlotsReady, SlotReady, Generate
<1>14. ASSUME NEW w \in Workers, CallFails(w) PROVE TypeOK'
  <2>1. worker' \in [Workers -> SlotRecords]
    <3>1. [worker[w] EXCEPT !.call = None, !.pc = "fail"] \in SlotRecords
      BY <1>a DEF SlotRecords
    <3> QED
      BY <1>14, <1>a, <3>1 DEF CallFails
  <2> QED
    BY <1>14, <2>1, SettleTyped DEF TypeOK, SlotsReady, SlotReady, CallFails
<1>15. ASSUME NEW w \in Workers, WriteProposal(w) PROVE TypeOK'
  <2>1. worker[w].at \in Rows /\ worker[w].snap[worker[w].at] \in DecisionRecords
    BY <1>15 DEF SlotsReady, SlotReady, WriteProposal
  <2>2. WithAi(worker[w].at, "COMPLETED", worker[w].snap[worker[w].at]) \in RowRecords
    BY <2>1, WithAiTyped
  <2>3. row' \in [Rows -> RowRecords]
    BY <1>15, <2>1, <2>2 DEF TypeOK, WriteProposal
  <2>4. worker' \in [Workers -> SlotRecords]
    <3>1. [worker[w] EXCEPT !.at = None, !.fails = 0, !.pc = NextPc(worker[w].todo)] \in SlotRecords
      BY <1>a, NextPcTyped DEF SlotRecords
    <3> QED
      BY <1>15, <1>a, <3>1 DEF WriteProposal
  <2> QED
    BY <1>15, <2>3, <2>4 DEF TypeOK, WriteProposal
<1>16. ASSUME NEW w \in Workers, WriteFails(w) PROVE TypeOK'
  BY <1>16 DEF TypeOK, SlotRecords, WriteFails
<1>17. ASSUME NEW w \in Workers, FailEntry(w) PROVE TypeOK'
  <2>1. row' \in [Rows -> RowRecords]
    BY <1>17, FailEvaluationsTyped DEF FailEntry
  <2>2. worker' \in [Workers -> SlotRecords]
    <3> DEFINE fails == worker[w].fails + 1
               pc == IF fails < MaxConsecutive THEN NextPc(worker[w].todo)
                     ELSE IF worker[w].attempt < Attempts THEN "throw" ELSE "park"
    <3>1. fails \in Nat /\ pc \in {"done", "mark", "throw", "park"}
      BY NextPcTyped DEF TypeOK, SlotRecords
    <3>2. worker' = [worker EXCEPT ![w] = [@ EXCEPT !.at = None, !.fails = fails,
                                                    !.pc = pc]]
      BY <1>17 DEF FailEntry
    <3> HIDE DEF fails, pc
    <3> QED
      BY <1>a, <3>1, <3>2 DEF SlotRecords
  <2> QED
    BY <1>17, <2>1, <2>2 DEF TypeOK, FailEntry
<1>18. ASSUME NEW w \in Workers, ParkRemaining(w) PROVE TypeOK'
  <2>1. row' \in [Rows -> RowRecords]
    BY <1>18, FailEvaluationsTyped DEF ParkRemaining
  <2>2. worker' \in [Workers -> SlotRecords]
    <3>1. [worker[w] EXCEPT !.todo = {}, !.pc = "done"] \in SlotRecords
      BY <1>a DEF SlotRecords
    <3> QED
      BY <1>18, <1>a, <3>1 DEF ParkRemaining
  <2> QED
    BY <1>18, <2>1, <2>2 DEF TypeOK, ParkRemaining
<1>19. ASSUME NEW w \in Workers, FinishJob(w) PROVE TypeOK'
  <2>1. job' \in [Jobs -> JobRecords]
    <3>1. worker[w].job \in Jobs
      BY <1>19 DEF SlotsReady, SlotReady, FinishJob
    <3> QED
      BY <1>19, <1>a, <3>1 DEF JobRecords, FinishJob
  <2> QED
    BY <1>19, <2>1, IdleTyped DEF TypeOK, FinishJob
<1>20. ASSUME NEW w \in Workers, GiveUp(w) \/ DatabaseError(w) PROVE TypeOK'
  BY <1>20, FailAttemptTyped DEF SlotsReady, SlotReady, GiveUp, DatabaseError
<1>21. ASSUME NEW w \in Workers, Crash(w) PROVE TypeOK'
  BY <1>21, IdleTyped DEF TypeOK, JobRecords, Crash
<1>22. ASSUME NEW r \in Rows, AgeRow(r) PROVE TypeOK'
  <2>1. row' \in [Rows -> RowRecords]
    BY <1>22, Zenon DEF TypeOK, RowRecords, AgeRow
  <2> QED
    BY <1>22, <2>1 DEF TypeOK, AgeRow
<1>23. ASSUME NEW c \in Calls, AgeCall(c) PROVE TypeOK'
  BY <1>23 DEF TypeOK, AgeCall
<1>24. CASE UNCHANGED vars
  BY <1>24 DEF TypeOK, vars
<1> QED
  BY <1>1, <1>2, <1>3, <1>4, <1>5, <1>6, <1>7, <1>8, <1>9, <1>10, <1>11, <1>12, <1>13,
     <1>14, <1>15, <1>16, <1>17, <1>18, <1>19, <1>20, <1>21, <1>22, <1>23, <1>24
     DEF Next, Proceed

-----------------------------------------------------------------------------
(* What the slots and the requests rely on.                                *)

LEMMA IdleReady == SlotReady(Idle)
BY NoneAssumption DEF SlotReady, Idle

\* Only the slot that takes a step has to be looked at.
LEMMA OneSlot ==
    ASSUME IInv, NEW w \in Workers, NEW s, SlotReady(s), worker' = [worker EXCEPT ![w] = s]
    PROVE  SlotsReady'
BY DEF IInv, TypeOK, SlotsReady

LEMMA SlotsStep == IInv /\ [Next]_vars => SlotsReady'
<1> SUFFICES ASSUME IInv, [Next]_vars PROVE SlotsReady'
  OBVIOUS
<1>a. worker \in [Workers -> SlotRecords] /\ \A w \in Workers : SlotReady(worker[w])
  BY DEF IInv, TypeOK, SlotsReady
<1>1. ASSUME worker' = worker PROVE SlotsReady'
  BY <1>1 DEF IInv, SlotsReady
<1>2. ASSUME NEW w \in Workers, worker' = [worker EXCEPT ![w] = Idle] PROVE SlotsReady'
  BY <1>2, IdleReady, OneSlot
<1>3. ASSUME NEW w \in Workers, NEW j \in Jobs, TakeJob(w, j) PROVE SlotsReady'
  <2>1. SlotReady([Idle EXCEPT !.pc = "load", !.job = j, !.attempt = job[j].made + 1])
    BY NoneAssumption DEF SlotReady, Idle
  <2> QED
    BY <1>3, <2>1, OneSlot DEF TakeJob
<1>4. ASSUME NEW w \in Workers, LoadBaseline(w) PROVE SlotsReady'
  <2> DEFINE pending == {r \in Rows : IsGap(r) /\ row[r].aiStatus = "RUNNING"}
             snap == [r \in Rows |-> IF r \in pending THEN Decision(r) ELSE None]
             s == [worker[w] EXCEPT !.snap = snap, !.todo = pending, !.pc = NextPc(pending)]
  <2>1. \A r \in pending : snap[r] \in DecisionRecords /\ snap[r].result \in Gaps
    BY DecisionTyped DEF IInv, IsGap, Decision
  <2>2. worker[w].at = None /\ worker[w].job \in Jobs
    BY <1>4, <1>a DEF SlotReady, LoadBaseline
  <2>3. s.snap = snap /\ s.todo = pending /\ s.pc \in {"done", "mark"}
        /\ s.at = worker[w].at /\ s.job = worker[w].job
    BY <1>a, NextPcTyped DEF SlotRecords
  <2>4. SlotReady(s)
    BY <2>1, <2>2, <2>3, NoneAssumption DEF SlotReady
  <2>5. worker' = [worker EXCEPT ![w] = s]
    BY <1>4 DEF LoadBaseline
  <2> QED
    BY <2>4, <2>5, OneSlot
<1>5. ASSUME NEW w \in Workers, MarkRunning(w) PROVE SlotsReady'
  <2> PICK r \in worker[w].todo :
         worker' = [worker EXCEPT ![w] = [@ EXCEPT !.at = r, !.todo = worker[w].todo \ {r},
                                                   !.pc = "reserve"]]
    BY <1>5 DEF MarkRunning
  <2> DEFINE s == [worker[w] EXCEPT !.at = r, !.todo = worker[w].todo \ {r}, !.pc = "reserve"]
  <2>1. worker[w].pc = "mark" /\ r \in Rows
    BY <1>5, <1>a DEF SlotRecords, MarkRunning
  <2>2. SlotReady(s)
    BY <1>a, <2>1 DEF SlotReady, SlotRecords
  <2> QED
    BY <2>2, OneSlot
<1>6. ASSUME NEW w \in Workers, ReserveCall(w) PROVE SlotsReady'
  <2> PICK c \in Calls : worker' = [worker EXCEPT ![w] = [@ EXCEPT !.call = c, !.pc = "call"]]
    BY <1>6 DEF ReserveCall
  <2>1. SlotReady([worker[w] EXCEPT !.call = c, !.pc = "call"])
    BY <1>6, <1>a DEF SlotReady, SlotRecords, ReserveCall
  <2> QED
    BY <2>1, OneSlot
<1>7. ASSUME NEW w \in Workers, BudgetExhausted(w) PROVE SlotsReady'
  <2>1. SlotReady([worker[w] EXCEPT !.pc = "park", !.todo = Holds(w), !.at = None])
    BY <1>7, <1>a, NoneAssumption DEF SlotReady, SlotRecords, BudgetExhausted, Holds
  <2> QED
    BY <1>7, <2>1, OneSlot DEF BudgetExhausted
<1>8. ASSUME NEW w \in Workers, Generate(w) PROVE SlotsReady'
  <2>1. SlotReady([worker[w] EXCEPT !.call = None, !.pc = "write"])
    BY <1>8, <1>a DEF SlotReady, SlotRecords, Generate
  <2> QED
    BY <1>8, <2>1, OneSlot DEF Generate
<1>9. ASSUME NEW w \in Workers, CallFails(w) PROVE SlotsReady'
  <2>1. SlotReady([worker[w] EXCEPT !.call = None, !.pc = "fail"])
    BY <1>9, <1>a DEF SlotReady, SlotRecords, CallFails
  <2> QED
    BY <1>9, <2>1, OneSlot DEF CallFails
<1>10. ASSUME NEW w \in Workers, WriteProposal(w) PROVE SlotsReady'
  <2>1. SlotReady([worker[w] EXCEPT !.at = None, !.fails = 0, !.pc = NextPc(worker[w].todo)])
    BY <1>10, <1>a, NextPcTyped, NoneAssumption DEF SlotReady, SlotRecords, WriteProposal
  <2> QED
    BY <1>10, <2>1, OneSlot DEF WriteProposal
<1>11. ASSUME NEW w \in Workers, WriteFails(w) PROVE SlotsReady'
  <2>1. SlotReady([worker[w] EXCEPT !.pc = "fail"])
    BY <1>11, <1>a DEF SlotReady, SlotRecords, WriteFails
  <2>2. worker' = [worker EXCEPT ![w] = [worker[w] EXCEPT !.pc = "fail"]]
    BY <1>11 DEF WriteFails
  <2> QED
    BY <2>1, <2>2, OneSlot
<1>12. ASSUME NEW w \in Workers, FailEntry(w) PROVE SlotsReady'
  <2> DEFINE fails == worker[w].fails + 1
             pc == IF fails < MaxConsecutive THEN NextPc(worker[w].todo)
                   ELSE IF worker[w].attempt < Attempts THEN "throw" ELSE "park"
  <2>1. pc \in {"done", "mark", "throw", "park"}
    BY NextPcTyped
  <2>2. worker' = [worker EXCEPT ![w] = [@ EXCEPT !.at = None, !.fails = fails, !.pc = pc]]
    BY <1>12 DEF FailEntry
  <2>3. worker[w].pc = "fail"
    BY <1>12 DEF FailEntry
  <2> HIDE DEF fails, pc
  <2>4. SlotReady([worker[w] EXCEPT !.at = None, !.fails = fails, !.pc = pc])
    BY <1>a, <2>1, <2>3, NoneAssumption DEF SlotReady, SlotRecords
  <2> QED
    BY <2>2, <2>4, OneSlot
<1>13. ASSUME NEW w \in Workers, ParkRemaining(w) PROVE SlotsReady'
  <2>1. SlotReady([worker[w] EXCEPT !.todo = {}, !.pc = "done"])
    BY <1>13, <1>a, NoneAssumption DEF SlotReady, SlotRecords, ParkRemaining
  <2> QED
    BY <1>13, <2>1, OneSlot DEF ParkRemaining
<1>14. ASSUME NEW w \in Workers,
              FinishJob(w) \/ GiveUp(w) \/ DatabaseError(w) \/ Crash(w)
       PROVE  worker' = [worker EXCEPT ![w] = Idle]
  BY <1>14 DEF FinishJob, GiveUp, DatabaseError, FailAttempt, Crash
<1>15. ASSUME NEW j \in Jobs,
              StartEvaluation(j) \/ Enqueue(j) \/ EnqueueFails(j) \/ StallJob(j)
       PROVE  worker' = worker
  BY <1>15 DEF StartEvaluation, Enqueue, EnqueueFails, StallJob
<1>16. ASSUME NEW u \in Users,
              \/ \E r \in Rows : \E v \in 1..MaxRevision : ReadEvaluation(u, r, v)
              \/ \E result \in Chosen : SaveDecision(u, result)
              \/ SaveConflicts(u)
       PROVE  worker' = worker
  BY <1>16 DEF ReadEvaluation, SaveDecision, SaveConflicts
<1>17. ASSUME \/ \E r \in Rows : AgeRow(r)
              \/ \E c \in Calls : AgeCall(c)
              \/ UNCHANGED vars
       PROVE  worker' = worker
  BY <1>17 DEF AgeRow, AgeCall, vars
<1> QED
  BY <1>1, <1>2, <1>3, <1>4, <1>5, <1>6, <1>7, <1>8, <1>9, <1>10, <1>11, <1>12, <1>13,
     <1>14, <1>15, <1>16, <1>17 DEF Next, Proceed

-----------------------------------------------------------------------------
(* Decisions and proposals.                                                *)

LEMMA WithAiFields ==
    ASSUME TypeOK, NEW r \in Rows, NEW status, NEW proposal
    PROVE  /\ WithAi(r, status, proposal).result = row[r].result
           /\ WithAi(r, status, proposal).revision = row[r].revision
           /\ WithAi(r, status, proposal).aiStatus = status
           /\ WithAi(r, status, proposal).proposal = proposal
BY DEF TypeOK, RowRecords, WithAi

LEMMA FailEvaluationsKeeps ==
    ASSUME IInv, NEW ids, FailEvaluations(ids), edit' = edit
    PROVE  DecisionsKept /\ ProposalMatchesDecision'
<1>1. ASSUME NEW r \in Rows PROVE row'[r] = row[r] \/ row'[r] = WithAi(r, "FAILED", row[r].proposal)
  BY DEF FailEvaluations
<1>2. ASSUME NEW r \in Rows, row'[r] # row[r] PROVE IsGap(r)
  BY <1>2 DEF IInv, ProposalMatchesDecision, FailEvaluations
<1> QED
  BY <1>1, <1>2, WithAiFields DEF IInv, DecisionsKept, ProposalMatchesDecision, IsGap

\* A guarded AI write lands on the very decision the attempt was started on.
LEMMA GuardedWrite ==
    ASSUME IInv, NEW w \in Workers, NEW r \in Rows, Unchanged(w, r),
           r \in worker[w].todo \/ r = worker[w].at
    PROVE  /\ IsGap(r)
           /\ worker[w].snap[r] # None
           /\ worker[w].snap[r].result = row[r].result
           /\ worker[w].snap[r].revision = row[r].revision
<1>1. worker[w].snap[r] \in DecisionRecords /\ worker[w].snap[r].result \in Gaps
  BY DEF IInv, SlotsReady, SlotReady
<1>2. None \notin DecisionRecords
  BY NoneAssumption DEF DecisionRecords, Results
<1> QED
  BY <1>1, <1>2 DEF Unchanged, Decision, IsGap

\* Every step but the requests of a person leaves all decisions alone, and what
\* it writes beside them fits.
LEMMA OthersKeep ==
    ASSUME IInv, [Next]_vars,
           ~ \E u \in Users :
               \/ \E r \in Rows : \E v \in 1..MaxRevision : ReadEvaluation(u, r, v)
               \/ \E result \in Chosen : SaveDecision(u, result)
               \/ SaveConflicts(u)
    PROVE  DecisionsKept /\ ProposalMatchesDecision'
<1> USE DEF IInv
<1>1. ASSUME row' = row, edit' = edit PROVE DecisionsKept /\ ProposalMatchesDecision'
  BY <1>1 DEF DecisionsKept, ProposalMatchesDecision, IsGap
<1>2. ASSUME NEW j \in Jobs, StartEvaluation(j) PROVE DecisionsKept /\ ProposalMatchesDecision'
  <2>1. \A r \in Rows : row'[r] = IF r \in Retryable THEN WithAi(r, "RUNNING", None) ELSE row[r]
    BY <1>2 DEF StartEvaluation
  <2>2. edit' = edit /\ \A r \in Retryable : IsGap(r)
    BY <1>2 DEF StartEvaluation, Retryable
  <2> QED
    BY <2>1, <2>2, WithAiFields DEF DecisionsKept, ProposalMatchesDecision, IsGap
<1>3. ASSUME NEW j \in Jobs, EnqueueFails(j) PROVE DecisionsKept /\ ProposalMatchesDecision'
  BY <1>3, FailEvaluationsKeeps DEF EnqueueFails
<1>4. ASSUME NEW w \in Workers, MarkRunning(w) PROVE DecisionsKept /\ ProposalMatchesDecision'
  <2> PICK r \in worker[w].todo :
         row' = IF Unchanged(w, r)
                THEN [row EXCEPT ![r] = WithAi(r, "RUNNING", @.proposal)] ELSE row
    BY <1>4 DEF MarkRunning
  <2>1. r \in Rows /\ edit' = edit
    BY <1>4 DEF TypeOK, SlotRecords, MarkRunning
  <2>2. CASE Unchanged(w, r)
    <3>1. IsGap(r)
      BY <2>1, <2>2, GuardedWrite
    <3>2. row' = [row EXCEPT ![r] = WithAi(r, "RUNNING", row[r].proposal)]
      BY <2>2
    <3> QED
      BY <2>1, <3>1, <3>2, WithAiFields
      DEF TypeOK, DecisionsKept, ProposalMatchesDecision, IsGap
  <2> QED
    BY <1>1, <2>1, <2>2
<1>5. ASSUME NEW w \in Workers, WriteProposal(w) PROVE DecisionsKept /\ ProposalMatchesDecision'
  <2> DEFINE r == worker[w].at
  <2>1. r \in Rows /\ edit' = edit
    BY <1>5 DEF SlotsReady, SlotReady, WriteProposal
  <2>2. CASE Unchanged(w, r)
    <3> DEFINE proposal == worker[w].snap[r]
    <3>1. IsGap(r) /\ proposal # None /\ proposal.result = row[r].result
          /\ proposal.revision = row[r].revision
      BY <2>1, <2>2, GuardedWrite
    <3>2. row' = [row EXCEPT ![r] = WithAi(r, "COMPLETED", proposal)]
      BY <1>5, <2>2 DEF WriteProposal
    <3>3. row[r].revision \in Nat
      BY <2>1 DEF TypeOK, RowRecords
    <3> HIDE DEF r, proposal
    <3> QED
      BY <2>1, <3>1, <3>2, <3>3, WithAiFields
      DEF TypeOK, DecisionsKept, ProposalMatchesDecision, IsGap
  <2>3. CASE ~ Unchanged(w, r)
    BY <1>1, <1>5, <2>1, <2>3 DEF WriteProposal
  <2> QED
    BY <2>2, <2>3
<1>6. ASSUME NEW w \in Workers, FailEntry(w) \/ ParkRemaining(w)
      PROVE  DecisionsKept /\ ProposalMatchesDecision'
  BY <1>6, FailEvaluationsKeeps DEF FailEntry, ParkRemaining
<1>7. ASSUME NEW r \in Rows, AgeRow(r) PROVE DecisionsKept /\ ProposalMatchesDecision'
  BY <1>7 DEF TypeOK, RowRecords, DecisionsKept, ProposalMatchesDecision, IsGap, AgeRow
<1>8. ASSUME NEW j \in Jobs, Enqueue(j) \/ StallJob(j) PROVE row' = row /\ edit' = edit
  BY <1>8 DEF Enqueue, StallJob
<1>9. ASSUME NEW w \in Workers,
             \/ \E j \in Jobs : TakeJob(w, j)
             \/ LoadBaseline(w) \/ ReserveCall(w) \/ BudgetExhausted(w) \/ Generate(w)
             \/ CallFails(w) \/ WriteFails(w) \/ FinishJob(w) \/ GiveUp(w)
             \/ DatabaseError(w) \/ Crash(w)
      PROVE  row' = row /\ edit' = edit
  BY <1>9 DEF TakeJob, LoadBaseline, ReserveCall, BudgetExhausted, Generate, CallFails,
              WriteFails, FinishJob, GiveUp, DatabaseError, FailAttempt, Crash
<1>10. ASSUME (\E c \in Calls : AgeCall(c)) \/ UNCHANGED vars PROVE row' = row /\ edit' = edit
  BY <1>10 DEF AgeCall, vars
<1> QED
  BY <1>1, <1>2, <1>3, <1>4, <1>5, <1>6, <1>7, <1>8, <1>9, <1>10 DEF Next, Proceed

\* A save that succeeds was made by someone who saw the decision it replaces,
\* and drops the proposal unless the result stays.
LEMMA SaveStep ==
    ASSUME IInv, NEW u \in Users, NEW result \in Chosen, SaveDecision(u, result)
    PROVE  /\ EditsCurrent' /\ ProposalMatchesDecision'
           /\ edit[u].row \in Rows
           /\ edit[u].expected = row[edit[u].row].revision
           /\ edit[u].result = row[edit[u].row].result
           /\ row'[edit[u].row].revision = row[edit[u].row].revision + 1
           /\ \A r \in Rows \ {edit[u].row} : row'[r] = row[r]
<1> DEFINE r == edit[u].row
           x == [result   |-> result,
                 revision |-> row[r].revision + 1,
                 aiStatus |-> IF edit[u].result # result THEN "PENDING" ELSE row[r].aiStatus,
                 proposal |-> IF edit[u].result # result THEN None ELSE row[r].proposal,
                 stale    |-> FALSE]
<1>1. /\ edit[u].pc = "read" /\ r \in Rows
      /\ edit[u].expected = row[r].revision
      /\ edit[u].result = row[r].result
  BY DEF IInv, EditsCurrent, SaveDecision
<1>2. row' = [row EXCEPT ![r] = x]
  BY DEF SaveDecision
<1>3. row \in [Rows -> RowRecords] /\ row[r].revision \in Nat
  BY <1>1 DEF IInv, TypeOK, RowRecords
<1>4. row'[r] = x /\ \A q \in Rows \ {r} : row'[q] = row[q]
  BY <1>1, <1>2, <1>3
<1>5. x.result = result /\ x.revision = row[r].revision + 1
  OBVIOUS
<1>6. ASSUME x.aiStatus # "PENDING"
      PROVE  x.result = row[r].result /\ x.aiStatus = row[r].aiStatus /\ x.proposal = row[r].proposal
  BY <1>1, <1>6
<1> HIDE DEF x
<1>7. EditsCurrent'
  <2> SUFFICES ASSUME NEW v \in Users, edit'[v].pc = "read"
               PROVE  /\ edit'[v].row \in Rows
                      /\ edit'[v].expected <= row'[edit'[v].row].revision
                      /\ edit'[v].expected = row'[edit'[v].row].revision =>
                           edit'[v].result = row'[edit'[v].row].result
    BY DEF EditsCurrent
  <2>1. v # u /\ edit'[v] = edit[v]
    BY DEF IInv, TypeOK, SaveDecision, NoEdit
  <2>2. edit[v].expected \in Nat
    BY DEF IInv, TypeOK, EditRecords
  <2>3. /\ edit[v].row \in Rows
        /\ edit[v].expected <= row[edit[v].row].revision
        /\ edit[v].expected = row[edit[v].row].revision =>
             edit[v].result = row[edit[v].row].result
    BY <2>1 DEF IInv, EditsCurrent
  <2> QED
    BY <1>3, <1>4, <1>5, <2>1, <2>2, <2>3
<1>8. ProposalMatchesDecision'
  <2>1. ASSUME NEW q \in Rows \ {r}
        PROVE  /\ row'[q].aiStatus = "COMPLETED" =>
                    /\ row'[q].proposal # None
                    /\ row'[q].proposal.result = row'[q].result
                    /\ row'[q].proposal.revision <= row'[q].revision
               /\ row'[q].aiStatus # "PENDING" => row'[q].result \in Gaps
    BY <1>4 DEF IInv, ProposalMatchesDecision, IsGap
  <2>2. row'[r].aiStatus # "PENDING" => row'[r].result \in Gaps
    BY <1>1, <1>4, <1>6 DEF IInv, ProposalMatchesDecision, IsGap
  <2>3. ASSUME row'[r].aiStatus = "COMPLETED"
        PROVE  /\ row'[r].proposal # None
               /\ row'[r].proposal.result = row'[r].result
               /\ row'[r].proposal.revision <= row'[r].revision
    <3>1. row[r].proposal # None /\ row[r].proposal.result = row[r].result
          /\ row[r].proposal.revision <= row[r].revision
      BY <1>1, <1>4, <1>6, <2>3 DEF IInv, ProposalMatchesDecision
    <3>2. row[r].proposal \in DecisionRecords
      BY <1>1, <1>3, <3>1 DEF RowRecords
    <3>3. row[r].proposal.revision \in Nat
      BY <3>2 DEF DecisionRecords
    <3> QED
      BY <1>3, <1>4, <1>5, <1>6, <2>3, <3>1, <3>3
  <2> QED
    BY <2>1, <2>2, <2>3 DEF ProposalMatchesDecision, IsGap
<1> QED
  BY <1>1, <1>3, <1>4, <1>5, <1>7, <1>8

LEMMA ReadStep ==
    ASSUME IInv, NEW u \in Users, row' = row,
           \/ \E r \in Rows : \E v \in 1..MaxRevision : ReadEvaluation(u, r, v)
           \/ SaveConflicts(u)
    PROVE  EditsCurrent' /\ ProposalMatchesDecision'
<1>1. ProposalMatchesDecision'
  BY DEF IInv, ProposalMatchesDecision, IsGap
<1>2. CASE SaveConflicts(u)
  BY <1>1, <1>2 DEF IInv, TypeOK, EditsCurrent, SaveConflicts, NoEdit
<1>3. ASSUME NEW r \in Rows, NEW v \in 1..MaxRevision, ReadEvaluation(u, r, v)
      PROVE  EditsCurrent'
  <2>1. v \in 1..row[r].revision
    BY <1>3 DEF ReadEvaluation
  <2>2. edit' = [edit EXCEPT ![u] = [pc |-> "read", row |-> r, expected |-> v,
                                     result |-> row[r].result]]
    BY <1>3 DEF ReadEvaluation
  <2>3. row[r].revision \in Nat
    BY DEF IInv, TypeOK, RowRecords
  <2> QED
    BY <2>1, <2>2, <2>3 DEF IInv, TypeOK, EditsCurrent
<1> QED
  BY <1>1, <1>2, <1>3

-----------------------------------------------------------------------------
(* The theorems.                                                           *)

LEMMA InitInv == Init => IInv
<1> SUFFICES ASSUME Init PROVE IInv
  OBVIOUS
<1>1. TypeOK
  BY InitTyped
<1>2. SlotsReady
  BY IdleReady DEF Init, SlotsReady
<1>3. EditsCurrent
  BY DEF Init, EditsCurrent, NoEdit
<1>4. ProposalMatchesDecision
  BY DEF Init, ProposalMatchesDecision
<1> QED
  BY <1>1, <1>2, <1>3, <1>4 DEF IInv

LEMMA Inductive == IInv /\ [Next]_vars => IInv'
<1> SUFFICES ASSUME IInv, [Next]_vars PROVE IInv'
  OBVIOUS
<1>1. TypeOK' /\ SlotsReady'
  BY TypeStep, SlotsStep
<1>2. EditsCurrent' /\ ProposalMatchesDecision'
  <2>1. ASSUME NEW u \in Users, NEW result \in Chosen, SaveDecision(u, result)
        PROVE  EditsCurrent' /\ ProposalMatchesDecision'
    BY <2>1, SaveStep
  <2>2. ASSUME NEW u \in Users,
               \/ \E r \in Rows : \E v \in 1..MaxRevision : ReadEvaluation(u, r, v)
               \/ SaveConflicts(u)
        PROVE  EditsCurrent' /\ ProposalMatchesDecision'
    <3>1. row' = row
      BY <2>2 DEF ReadEvaluation, SaveConflicts
    <3> QED
      BY <2>2, <3>1, ReadStep
  <2>3. ASSUME DecisionsKept, ProposalMatchesDecision'
        PROVE  EditsCurrent' /\ ProposalMatchesDecision'
    BY <2>3 DEF IInv, EditsCurrent, DecisionsKept
  <2> QED
    BY <2>1, <2>2, <2>3, OthersKeep
<1> QED
  BY <1>1, <1>2 DEF IInv

\* Every reachable state is well typed: no handler of the API or the worker
\* leaves a row, a job, a slot or a request in a shape the others do not expect.
THEOREM TypeCorrect == Spec => []TypeOK
<1>1. IInv => TypeOK
  BY DEF IInv
<1> QED
  BY <1>1, InitInv, Inductive, PTL DEF Spec

\* A proposal shown as COMPLETED was generated for the result beside it, for any
\* number of rows, passes, slots, requests and deliveries.
THEOREM ProposalsMatch == Spec => []ProposalMatchesDecision
<1>1. IInv => ProposalMatchesDecision
  BY DEF IInv
<1> QED
  BY <1>1, InitInv, Inductive, PTL DEF Spec

\* Decisions are changed by the saves of people alone, and every save replaces
\* the decision that its author had seen.
THEOREM DecisionsSafe == Spec => NoLostDecision
<1> DEFINE Seen == \A r \in Rows : Decision(r)' # Decision(r) =>
             /\ row'[r].revision = row[r].revision + 1
             /\ \E u \in Users : /\ edit[u].row = r
                                 /\ edit[u].expected = row[r].revision
                                 /\ edit[u].result = row[r].result
<1>1. IInv /\ [Next]_vars => [Seen]_vars
  <2> SUFFICES ASSUME IInv, [Next]_vars PROVE Seen
    OBVIOUS
  <2>1. ASSUME NEW u \in Users, NEW result \in Chosen, SaveDecision(u, result) PROVE Seen
    BY <2>1, SaveStep DEF Decision
  <2>2. ASSUME row' = row PROVE Seen
    BY <2>2 DEF Decision
  <2>3. ASSUME NEW u \in Users,
               \/ \E r \in Rows : \E v \in 1..MaxRevision : ReadEvaluation(u, r, v)
               \/ SaveConflicts(u)
        PROVE  row' = row
    BY <2>3 DEF ReadEvaluation, SaveConflicts
  <2>4. DecisionsKept => Seen
    BY DEF DecisionsKept, Decision
  <2> QED
    BY <2>1, <2>2, <2>3, <2>4, OthersKeep
<1> QED
  BY <1>1, InitInv, Inductive, PTL DEF Spec, NoLostDecision

-----------------------------------------------------------------------------
(* The budget.                                                             *)

LEMMA RunningFinite ==
    ASSUME NEW S \in SUBSET Calls
    PROVE  IsFiniteSet(S) /\ Cardinality(S) \in Nat
BY LedgerAssumption, FS_Subset, FS_CardinalityType

LEMMA OneMoreReserve ==
    ASSUME NEW n \in Nat
    PROVE  Reserve * (n + 1) = Reserve * n + Reserve
BY LedgerAssumption

LEMMA ReservesGrow ==
    ASSUME NEW m \in Nat, NEW n \in Nat, m <= n
    PROVE  Reserve * m <= Reserve * n
BY LedgerAssumption

\* Settling a running call replaces its reservation by a cost it bounds.
LEMMA SettleWithinReserve ==
    ASSUME TypeOK, BudgetRespected, NEW c \in Calls, NEW cost \in 0..Reserve, Settle(c, cost)
    PROVE  BudgetRespected'
<1>1. CASE call[c] = "free"
  <2>1. call' = call /\ settled' = settled
    BY <1>1 DEF TypeOK, Settle
  <2> QED
    BY <2>1 DEF BudgetRespected, Committed, RunningCalls
<1>2. CASE call[c] # "free"
  <2>1. c \in RunningCalls /\ RunningCalls' = RunningCalls \ {c} /\ settled' = settled + cost
    BY <1>2 DEF TypeOK, Settle, RunningCalls
  <2>2. /\ IsFiniteSet(RunningCalls)
        /\ Cardinality(RunningCalls) \in Nat /\ Cardinality(RunningCalls') \in Nat
    BY RunningFinite DEF RunningCalls
  <2>3. Cardinality(RunningCalls) = Cardinality(RunningCalls') + 1
    <3>1. Cardinality(RunningCalls \ {c}) = Cardinality(RunningCalls) - 1
      BY <2>1, <2>2, FS_RemoveElement
    <3> QED
      BY <2>1, <2>2, <3>1
  <2>4. Reserve * Cardinality(RunningCalls) = Reserve * Cardinality(RunningCalls') + Reserve
    BY <2>2, <2>3, OneMoreReserve
  <2> DEFINE held == Reserve * Cardinality(RunningCalls')
  <2>5. held \in Nat
    BY <2>2, LedgerAssumption
  <2> HIDE DEF held
  <2>6. settled + (held + Reserve) <= Budget
    BY <2>4 DEF BudgetRespected, Committed, held
  <2>7. settled' + held <= Budget
    BY <2>1, <2>5, <2>6, LedgerAssumption DEF TypeOK
  <2> QED
    BY <2>7 DEF BudgetRespected, Committed, held
<1> QED
  BY <1>1, <1>2

\* A step that neither settles a cost nor makes a call can only free budget.
LEMMA FewerCalls ==
    ASSUME TypeOK, BudgetRespected, settled' = settled, RunningCalls' \subseteq RunningCalls
    PROVE  BudgetRespected'
<1>1. /\ Cardinality(RunningCalls) \in Nat /\ Cardinality(RunningCalls') \in Nat
      /\ Cardinality(RunningCalls') <= Cardinality(RunningCalls)
  BY RunningFinite, FS_Subset DEF RunningCalls
<1>2. Reserve * Cardinality(RunningCalls') <= Reserve * Cardinality(RunningCalls)
  BY <1>1, ReservesGrow
<1> DEFINE held == Reserve * Cardinality(RunningCalls)
           held2 == Reserve * Cardinality(RunningCalls')
<1>3. held \in Nat /\ held2 \in Nat /\ held2 <= held
  BY <1>1, <1>2, LedgerAssumption
<1> HIDE DEF held, held2
<1>4. settled + held <= Budget
  BY DEF BudgetRespected, Committed, held
<1>5. settled' + held2 <= Budget
  BY <1>3, <1>4, LedgerAssumption DEF TypeOK
<1> QED
  BY <1>5 DEF BudgetRespected, Committed, held2

\* The check and the insertion are one transaction, so a reservation only joins
\* the running ones while all of them fit.
LEMMA ReserveWithinBudget ==
    ASSUME TypeOK, NEW w \in Workers, ReserveCall(w)
    PROVE  BudgetRespected'
<1> PICK c \in Calls : call[c] = "free" /\ call' = [call EXCEPT ![c] = "running"]
  BY DEF ReserveCall
<1>1. settled' = settled /\ RunningCalls' = RunningCalls \cup {c} /\ c \notin RunningCalls
  BY DEF TypeOK, ReserveCall, RunningCalls
<1>2. IsFiniteSet(RunningCalls) /\ Cardinality(RunningCalls) \in Nat
  BY RunningFinite DEF RunningCalls
<1>3. Cardinality(RunningCalls') = Cardinality(RunningCalls) + 1
  BY <1>1, <1>2, FS_AddElement
<1>4. Reserve * Cardinality(RunningCalls') = Reserve * Cardinality(RunningCalls) + Reserve
  BY <1>2, <1>3, OneMoreReserve
<1> DEFINE held == Reserve * Cardinality(RunningCalls)
<1>5. held \in Nat
  BY <1>2, LedgerAssumption
<1> HIDE DEF held
<1>6. (settled + held) + Reserve <= Budget
  BY DEF ReserveCall, Committed, held
<1>7. settled' + (held + Reserve) <= Budget
  BY <1>1, <1>5, <1>6, LedgerAssumption DEF TypeOK
<1> QED
  BY <1>4, <1>7 DEF BudgetRespected, Committed, held

LEMMA BudgetStep == IInv /\ BudgetRespected /\ [Next]_vars => BudgetRespected'
<1> SUFFICES ASSUME IInv, BudgetRespected, [Next]_vars PROVE BudgetRespected'
  OBVIOUS
<1>a. TypeOK
  BY DEF IInv
<1>1. ASSUME NEW w \in Workers, ReserveCall(w) PROVE BudgetRespected'
  BY <1>1, <1>a, ReserveWithinBudget
<1>2. ASSUME NEW w \in Workers, Generate(w) \/ CallFails(w) PROVE BudgetRespected'
  <2>1. worker[w].call \in Calls
    BY <1>2 DEF IInv, SlotsReady, SlotReady, Generate, CallFails
  <2> QED
    BY <1>2, <1>a, <2>1, SettleWithinReserve DEF Generate, CallFails
<1>3. ASSUME NEW w \in Workers, LoadBaseline(w) PROVE BudgetRespected'
  <2>1. settled' = settled /\ RunningCalls' \subseteq RunningCalls
    BY <1>3 DEF LoadBaseline, RecoverAbandoned, RunningCalls
  <2> QED
    BY <1>a, <2>1, FewerCalls
<1>4. ASSUME NEW c \in Calls, AgeCall(c) PROVE BudgetRespected'
  <2>1. settled' = settled /\ RunningCalls' \subseteq RunningCalls
    BY <1>4, <1>a DEF TypeOK, AgeCall, RunningCalls
  <2> QED
    BY <1>a, <2>1, FewerCalls
<1>5. ASSUME call' = call, settled' = settled PROVE BudgetRespected'
  BY <1>5 DEF BudgetRespected, Committed, RunningCalls
<1>6. ASSUME NEW j \in Jobs,
             StartEvaluation(j) \/ Enqueue(j) \/ EnqueueFails(j) \/ StallJob(j)
      PROVE  call' = call /\ settled' = settled
  BY <1>6 DEF StartEvaluation, Enqueue, EnqueueFails, StallJob
<1>7. ASSUME NEW u \in Users,
             \/ \E r \in Rows : \E v \in 1..MaxRevision : ReadEvaluation(u, r, v)
             \/ \E result \in Chosen : SaveDecision(u, result)
             \/ SaveConflicts(u)
      PROVE  call' = call /\ settled' = settled
  BY <1>7 DEF ReadEvaluation, SaveDecision, SaveConflicts
<1>8. ASSUME NEW w \in Workers,
             \/ \E j \in Jobs : TakeJob(w, j)
             \/ MarkRunning(w) \/ BudgetExhausted(w) \/ WriteProposal(w) \/ WriteFails(w)
             \/ FailEntry(w) \/ ParkRemaining(w) \/ FinishJob(w) \/ GiveUp(w)
             \/ DatabaseError(w) \/ Crash(w)
      PROVE  call' = call /\ settled' = settled
  BY <1>8 DEF TakeJob, MarkRunning, BudgetExhausted, WriteProposal, WriteFails, FailEntry,
              ParkRemaining, FinishJob, GiveUp, DatabaseError, FailAttempt, Crash
<1>9. ASSUME (\E r \in Rows : AgeRow(r)) \/ UNCHANGED vars
      PROVE  call' = call /\ settled' = settled
  BY <1>9 DEF AgeRow, vars
<1> QED
  BY <1>1, <1>2, <1>3, <1>4, <1>5, <1>6, <1>7, <1>8, <1>9 DEF Next, Proceed

\* The evaluation budget of a run is never exceeded, whatever the reserve, the
\* budget and the number of passes and calls that spend from it at once.
THEOREM BudgetSafe == Spec => []BudgetRespected
<1>1. Init => BudgetRespected
  <2> SUFFICES ASSUME Init PROVE BudgetRespected
    OBVIOUS
  <2>1. RunningCalls = {} /\ settled = 0
    BY DEF Init, RunningCalls
  <2>2. Cardinality(RunningCalls) = 0
    BY <2>1, FS_EmptySet
  <2> QED
    BY <2>1, <2>2, LedgerAssumption DEF BudgetRespected, Committed
<1> QED
  BY <1>1, InitInv, Inductive, BudgetStep, PTL DEF Spec

-----------------------------------------------------------------------------
(* What a pass that runs to its end leaves behind.                         *)

\* No job has been delivered again for a lost lock.
Undisturbed == \A j \in Jobs : job[j].stalled = 0

\* A slot at work holds the job that it runs.
Held ==
    \A w \in Workers : worker[w].pc # "idle" =>
      job[worker[w].job].status = "active" /\ job[worker[w].job].holder = w

\* A pass that is done holds no entry any more.
DoneEmpty == \A w \in Workers : worker[w].pc = "done" => Holds(w) = {}

\* A slot remembers decisions that the rows had.
SnapsOld ==
    \A w \in Workers : \A r \in Rows :
      worker[w].snap[r] # None => worker[w].snap[r].revision <= row[r].revision

\* Slot w was delivered with the decision of r as it is now, and is through with it.
Past(w, r) == Unchanged(w, r) /\ r \notin Holds(w)

\* Slot v has not read the rows yet, or still holds r with its decision as it is now.
Cares(v, r) == worker[v].pc \in {"idle", "load"} \/ (Unchanged(v, r) /\ r \in Holds(v))

\* Job j is to produce the proposal of r, or has given up.
Answers(j, r) ==
    \/ job[j].status \in {"reset", "waiting", "failed"}
    \/ /\ job[j].status = "active"
       /\ \A v \in Workers : worker[v].job = j => Cares(v, r)

\* A row that a pass went past and that is still RUNNING is the business of some job.
Answered ==
    \A r \in Rows : row[r].aiStatus = "RUNNING" /\ (\E w \in Workers : Past(w, r)) =>
      \E j \in Jobs : Answers(j, r)

PassInv == IInv /\ DoneEmpty /\ SnapsOld /\ (Undisturbed => Held /\ Answered)

\* The step that slot w makes inside a pass, from its rows read to the end.
Works(w) ==
    \/ MarkRunning(w) \/ ReserveCall(w) \/ BudgetExhausted(w) \/ Generate(w) \/ CallFails(w)
    \/ WriteProposal(w) \/ WriteFails(w) \/ FailEntry(w) \/ ParkRemaining(w)

\* What a working slot keeps, and which entries it gives up by the step.
SlotKeeps(w) ==
    /\ worker[w].pc \notin {"idle", "load"} /\ worker'[w].pc \notin {"idle", "load"}
    /\ worker'[w].job = worker[w].job /\ worker'[w].snap = worker[w].snap

LEMMA HoldsKept ==
    ASSUME TypeOK, NEW w \in Workers, NEW s, worker' = [worker EXCEPT ![w] = s],
           s.job = worker[w].job, s.snap = worker[w].snap, s.pc \notin {"idle", "load"},
           worker[w].pc \notin {"idle", "load"}
    PROVE  /\ SlotKeeps(w) /\ worker'[w] = s /\ Holds(w)' = s.todo \cup ({s.at} \ {None})
           /\ s.at = None => Holds(w)' = s.todo
<1>1. SlotKeeps(w) /\ worker'[w] = s /\ Holds(w)' = s.todo \cup ({s.at} \ {None})
  BY DEF TypeOK, SlotKeeps, Holds
<1>2. ASSUME s.at = None PROVE s.todo \cup ({s.at} \ {None}) = s.todo
  BY <1>2
<1> QED
  BY <1>1, <1>2

LEMMA WorksMoves ==
    ASSUME IInv, NEW w \in Workers, Works(w)
    PROVE  /\ SlotKeeps(w) /\ job' = job
           /\ \A v \in Workers : v # w => worker'[v] = worker[v]
           /\ worker'[w].pc = "done" => Holds(w)' = {}
           /\ \/ Holds(w)' = Holds(w)
              \/ (WriteProposal(w) \/ FailEntry(w)) /\ Holds(w)' = worker[w].todo
              \/ ParkRemaining(w) /\ Holds(w)' = {}
<1>a. worker \in [Workers -> SlotRecords] /\ TypeOK /\ SlotReady(worker[w])
  BY DEF IInv, TypeOK, SlotsReady
<1>b. worker[w] \in SlotRecords
  BY <1>a
<1>1. CASE MarkRunning(w)
  <2> PICK r \in worker[w].todo :
         worker' = [worker EXCEPT ![w] = [@ EXCEPT !.at = r, !.todo = worker[w].todo \ {r},
                                                   !.pc = "reserve"]]
    BY <1>1 DEF MarkRunning
  <2> DEFINE s == [worker[w] EXCEPT !.at = r, !.todo = worker[w].todo \ {r}, !.pc = "reserve"]
  <2>1. worker[w].pc = "mark" /\ r \in Rows /\ worker[w].at = None
    BY <1>1, <1>a DEF SlotRecords, MarkRunning, SlotReady
  <2>2. s.job = worker[w].job /\ s.snap = worker[w].snap /\ s.pc = "reserve"
        /\ s.todo = worker[w].todo \ {r} /\ s.at = r
    BY <1>b DEF SlotRecords
  <2>3. worker' = [worker EXCEPT ![w] = s]
    OBVIOUS
  <2> HIDE DEF s
  <2>4. SlotKeeps(w) /\ worker'[w] = s /\ Holds(w)' = (worker[w].todo \ {r}) \cup ({r} \ {None})
    BY <1>a, <2>1, <2>2, <2>3, HoldsKept
  <2>5. Holds(w)' = Holds(w)
    BY <2>1, <2>4, NoneAssumption DEF Holds
  <2> QED
    BY <1>1, <1>a, <2>2, <2>3, <2>4, <2>5 DEF MarkRunning
<1>2. CASE ReserveCall(w)
  <2> PICK c \in Calls : worker' = [worker EXCEPT ![w] = [@ EXCEPT !.call = c, !.pc = "call"]]
    BY <1>2 DEF ReserveCall
  <2> DEFINE s == [worker[w] EXCEPT !.call = c, !.pc = "call"]
  <2>1. s.job = worker[w].job /\ s.snap = worker[w].snap /\ s.pc = "call"
        /\ s.todo = worker[w].todo /\ s.at = worker[w].at
    BY <1>b DEF SlotRecords
  <2>2. worker' = [worker EXCEPT ![w] = s] /\ worker[w].pc = "reserve"
    BY <1>2 DEF ReserveCall
  <2> HIDE DEF s
  <2>3. SlotKeeps(w) /\ worker'[w] = s /\ Holds(w)' = Holds(w)
    BY <1>a, <2>1, <2>2, HoldsKept DEF Holds
  <2> QED
    BY <1>2, <1>a, <2>1, <2>2, <2>3 DEF ReserveCall
<1>3. CASE BudgetExhausted(w)
  <2> DEFINE s == [worker[w] EXCEPT !.pc = "park", !.todo = Holds(w), !.at = None]
  <2>1. s.job = worker[w].job /\ s.snap = worker[w].snap /\ s.pc = "park"
        /\ s.todo = Holds(w) /\ s.at = None
    BY <1>b DEF SlotRecords
  <2>2. worker' = [worker EXCEPT ![w] = s] /\ worker[w].pc = "reserve"
    BY <1>3 DEF BudgetExhausted
  <2> HIDE DEF s
  <2>3. SlotKeeps(w) /\ worker'[w] = s /\ Holds(w)' = Holds(w)
    BY <1>a, <2>1, <2>2, HoldsKept
  <2> QED
    BY <1>3, <1>a, <2>1, <2>2, <2>3 DEF BudgetExhausted
<1>4. CASE Generate(w) \/ CallFails(w)
  <2> PICK pc \in {"write", "fail"} :
         worker' = [worker EXCEPT ![w] = [@ EXCEPT !.call = None, !.pc = pc]]
    BY <1>4 DEF Generate, CallFails
  <2> DEFINE s == [worker[w] EXCEPT !.call = None, !.pc = pc]
  <2>1. s.job = worker[w].job /\ s.snap = worker[w].snap /\ s.pc = pc
        /\ s.todo = worker[w].todo /\ s.at = worker[w].at
    BY <1>b DEF SlotRecords
  <2>2. worker' = [worker EXCEPT ![w] = s] /\ worker[w].pc = "call" /\ job' = job
    BY <1>4 DEF Generate, CallFails
  <2> HIDE DEF s
  <2>3. SlotKeeps(w) /\ worker'[w] = s /\ Holds(w)' = Holds(w)
    BY <1>a, <2>1, <2>2, HoldsKept DEF Holds
  <2> QED
    BY <1>a, <2>1, <2>2, <2>3
<1>5. CASE WriteProposal(w)
  <2> DEFINE pc == NextPc(worker[w].todo)
             s == [worker[w] EXCEPT !.at = None, !.fails = 0, !.pc = pc]
  <2>1. s.job = worker[w].job /\ s.snap = worker[w].snap /\ s.pc = pc
        /\ s.todo = worker[w].todo /\ s.at = None
    BY <1>b DEF SlotRecords
  <2>2. worker' = [worker EXCEPT ![w] = s] /\ worker[w].pc = "write" /\ job' = job
    BY <1>5 DEF WriteProposal
  <2>3. pc \in {"done", "mark"} /\ (pc = "done" => worker[w].todo = {})
    BY DEF NextPc
  <2> HIDE DEF s, pc
  <2>4. SlotKeeps(w) /\ worker'[w] = s /\ Holds(w)' = worker[w].todo
    BY <1>a, <2>1, <2>2, <2>3, HoldsKept
  <2> QED
    BY <1>5, <1>a, <2>1, <2>2, <2>3, <2>4
<1>6. CASE WriteFails(w)
  <2> DEFINE s == [worker[w] EXCEPT !.pc = "fail"]
  <2>1. s.job = worker[w].job /\ s.snap = worker[w].snap /\ s.pc = "fail"
        /\ s.todo = worker[w].todo /\ s.at = worker[w].at
    BY <1>b DEF SlotRecords
  <2>2. worker' = [worker EXCEPT ![w] = s] /\ worker[w].pc = "write" /\ job' = job
    BY <1>6 DEF WriteFails
  <2> HIDE DEF s
  <2>3. SlotKeeps(w) /\ worker'[w] = s /\ Holds(w)' = Holds(w)
    BY <1>a, <2>1, <2>2, HoldsKept DEF Holds
  <2> QED
    BY <1>a, <2>1, <2>2, <2>3
<1>7. CASE FailEntry(w)
  <2> DEFINE fails == worker[w].fails + 1
             pc == IF fails < MaxConsecutive THEN NextPc(worker[w].todo)
                   ELSE IF worker[w].attempt < Attempts THEN "throw" ELSE "park"
             s == [worker[w] EXCEPT !.at = None, !.fails = fails, !.pc = pc]
  <2>1. s.job = worker[w].job /\ s.snap = worker[w].snap /\ s.pc = pc
        /\ s.todo = worker[w].todo /\ s.at = None
    BY <1>b DEF SlotRecords
  <2>2. worker' = [worker EXCEPT ![w] = s] /\ worker[w].pc = "fail" /\ job' = job
    BY <1>7 DEF FailEntry
  <2>3. pc \in {"done", "mark", "throw", "park"} /\ (pc = "done" => worker[w].todo = {})
    BY DEF NextPc
  <2> HIDE DEF s, pc
  <2>4. SlotKeeps(w) /\ worker'[w] = s /\ Holds(w)' = worker[w].todo
    BY <1>a, <2>1, <2>2, <2>3, HoldsKept
  <2> QED
    BY <1>7, <1>a, <2>1, <2>2, <2>3, <2>4
<1>8. CASE ParkRemaining(w)
  <2> DEFINE s == [worker[w] EXCEPT !.todo = {}, !.pc = "done"]
  <2>1. s.job = worker[w].job /\ s.snap = worker[w].snap /\ s.pc = "done"
        /\ s.todo = {} /\ s.at = worker[w].at
    BY <1>b DEF SlotRecords
  <2>2. worker' = [worker EXCEPT ![w] = s] /\ worker[w].pc = "park" /\ job' = job
        /\ worker[w].at = None
    BY <1>8, <1>a DEF ParkRemaining, SlotReady
  <2> HIDE DEF s
  <2>3. SlotKeeps(w) /\ worker'[w] = s /\ Holds(w)' = {}
    BY <1>a, <2>1, <2>2, HoldsKept
  <2> QED
    BY <1>8, <1>a, <2>1, <2>2, <2>3
<1> QED
  BY <1>1, <1>2, <1>3, <1>4, <1>5, <1>6, <1>7, <1>8 DEF Works

\* A pass takes up the rows that wait for a proposal, with their decisions.
LEMMA LoadMoves ==
    ASSUME IInv, NEW w \in Workers, LoadBaseline(w)
    PROVE  /\ worker[w].pc = "load" /\ worker'[w].job = worker[w].job /\ job' = job /\ row' = row
           /\ worker'[w].pc \in {"done", "mark"}
           /\ worker'[w].pc = "done" => Holds(w)' = {}
           /\ \A v \in Workers : v # w => worker'[v] = worker[v]
           /\ \A r \in Rows :
                IF IsGap(r) /\ row[r].aiStatus = "RUNNING"
                THEN worker'[w].snap[r] = Decision(r) /\ r \in Holds(w)'
                ELSE worker'[w].snap[r] = None
<1>a. worker \in [Workers -> SlotRecords] /\ TypeOK /\ SlotReady(worker[w])
  BY DEF IInv, TypeOK, SlotsReady
<1> DEFINE pending == {r \in Rows : IsGap(r) /\ row[r].aiStatus = "RUNNING"}
           snap == [r \in Rows |-> IF r \in pending THEN Decision(r) ELSE None]
           pc == NextPc(pending)
           s == [worker[w] EXCEPT !.snap = snap, !.todo = pending, !.pc = pc]
<1>1. worker' = [worker EXCEPT ![w] = s]
  BY DEF LoadBaseline
<1>2. pc \in {"done", "mark"} /\ (pc = "done" => pending = {})
  BY DEF NextPc
<1>3. s.job = worker[w].job /\ s.snap = snap /\ s.todo = pending /\ s.at = worker[w].at /\ s.pc = pc
  BY <1>a DEF SlotRecords
<1>4. worker[w].at = None /\ worker[w].pc = "load"
  BY <1>a DEF SlotReady, LoadBaseline
<1>5. worker'[w] = s /\ \A v \in Workers : v # w => worker'[v] = worker[v]
  BY <1>1, <1>a
<1> HIDE DEF s, pc
<1>6. Holds(w)' = pending
  BY <1>3, <1>4, <1>5, NoneAssumption DEF Holds
<1>7. ASSUME NEW r \in Rows
      PROVE  IF IsGap(r) /\ row[r].aiStatus = "RUNNING"
             THEN worker'[w].snap[r] = Decision(r) /\ r \in Holds(w)'
             ELSE worker'[w].snap[r] = None
  BY <1>3, <1>5, <1>6
<1>8. job' = job /\ row' = row
  BY DEF LoadBaseline
<1> QED
  BY <1>2, <1>3, <1>4, <1>5, <1>6, <1>7, <1>8

\* The slot w leaves its pass.
Leaves(w) == FinishJob(w) \/ GiveUp(w) \/ DatabaseError(w) \/ Crash(w)

LEMMA LeavesMoves ==
    ASSUME TypeOK, NEW w \in Workers, Leaves(w)
    PROVE  /\ worker[w].pc # "idle" /\ worker'[w] = Idle /\ row' = row
           /\ \A v \in Workers : v # w => worker'[v] = worker[v]
BY DEF TypeOK, Leaves, FinishJob, GiveUp, DatabaseError, FailAttempt, Crash

LEMMA TakeMoves ==
    ASSUME TypeOK, NEW w \in Workers, NEW j \in Jobs, TakeJob(w, j)
    PROVE  /\ worker'[w].pc = "load" /\ worker'[w].job = j /\ worker'[w].snap = Idle.snap
           /\ \A v \in Workers : v # w => worker'[v] = worker[v]
           /\ job[j].status = "waiting" /\ job'[j].status = "active" /\ job'[j].holder = w
           /\ \A k \in Jobs : k # j => job'[k] = job[k]
           /\ row' = row
BY DEF TypeOK, TakeJob, Idle, JobRecords

\* The steps that no slot makes.
Outside ==
    \/ \E j \in Jobs : StartEvaluation(j) \/ Enqueue(j) \/ EnqueueFails(j) \/ StallJob(j)
    \/ \E u \in Users :
         \/ \E r \in Rows : \E v \in 1..MaxRevision : ReadEvaluation(u, r, v)
         \/ \E result \in Chosen : SaveDecision(u, result)
         \/ SaveConflicts(u)
    \/ \E r \in Rows : AgeRow(r)
    \/ \E c \in Calls : AgeCall(c)
    \/ UNCHANGED vars

LEMMA StepKinds ==
    ASSUME [Next]_vars
    PROVE  \/ Outside
           \/ \E w \in Workers : (\E j \in Jobs : TakeJob(w, j)) \/ LoadBaseline(w) \/ Works(w) \/ Leaves(w)
BY DEF Next, Proceed, Outside, Works, Leaves

LEMMA OutsideKeeps ==
    ASSUME Outside PROVE worker' = worker
BY DEF Outside, StartEvaluation, Enqueue, EnqueueFails, StallJob, ReadEvaluation, SaveDecision,
       SaveConflicts, AgeRow, AgeCall, vars

\* How a job moves while no lock is lost.
LEMMA JobMoves ==
    ASSUME TypeOK, [Next]_vars, Undisturbed', NEW j \in Jobs
    PROVE  \/ job'[j] = job[j]
           \/ StartEvaluation(j) /\ job[j].status = "none" /\ job'[j].status = "reset"
           \/ Enqueue(j) /\ job[j].status = "reset" /\ job'[j].status = "waiting"
           \/ EnqueueFails(j) /\ job[j].status = "reset"
           \/ \E w \in Workers : TakeJob(w, j)
           \/ \E w \in Workers : FinishJob(w) /\ worker[w].job = j
           \/ \E w \in Workers : /\ Leaves(w) /\ worker[w].job = j
                                 /\ job'[j].status \in {"waiting", "failed"}
           \/ \E w \in Workers : Crash(w) /\ job[j].holder = w /\ job'[j].status = job[j].status
<1>a. job \in [Jobs -> JobRecords]
  BY DEF TypeOK
<1>1. ASSUME NEW k \in Jobs, StartEvaluation(k) \/ Enqueue(k) \/ EnqueueFails(k)
      PROVE  \/ job'[j] = job[j]
             \/ StartEvaluation(j) /\ job[j].status = "none" /\ job'[j].status = "reset"
             \/ Enqueue(j) /\ job[j].status = "reset" /\ job'[j].status = "waiting"
             \/ EnqueueFails(j) /\ job[j].status = "reset"
  BY <1>1, <1>a DEF StartEvaluation, Enqueue, EnqueueFails, JobRecords
<1>2. ASSUME NEW k \in Jobs, StallJob(k) PROVE FALSE
  <2> DEFINE status == IF job[k].stalled < MaxStalled THEN "waiting" ELSE "failed"
  <2>1. job' = [job EXCEPT ![k] = [@ EXCEPT !.holder = None, !.stalled = job[k].stalled + 1,
                                            !.status = status]]
    BY <1>2 DEF StallJob
  <2> HIDE DEF status
  <2>2. job'[k].stalled = job[k].stalled + 1 /\ job[k].stalled \in Nat
    BY <1>a, <2>1 DEF JobRecords
  <2> QED
    BY <2>2 DEF Undisturbed
<1>3. CASE Outside
  <2>1. ASSUME ~ \E k \in Jobs : StartEvaluation(k) \/ Enqueue(k) \/ EnqueueFails(k) \/ StallJob(k)
        PROVE  job' = job
    BY <1>3, <2>1 DEF Outside, ReadEvaluation, SaveDecision, SaveConflicts, AgeRow, AgeCall, vars
  <2> QED
    BY <1>1, <1>2, <2>1
<1>4. ASSUME NEW w \in Workers, LoadBaseline(w) \/ Works(w) PROVE job' = job
  BY <1>4 DEF LoadBaseline, Works, MarkRunning, ReserveCall, BudgetExhausted, Generate, CallFails,
              WriteProposal, WriteFails, FailEntry, ParkRemaining
<1>5. ASSUME NEW w \in Workers, NEW k \in Jobs, TakeJob(w, k), k # j PROVE job'[j] = job[j]
  BY <1>5, TakeMoves
<1>6. ASSUME NEW w \in Workers, FinishJob(w), worker[w].job # j PROVE job'[j] = job[j]
  BY <1>6, <1>a DEF FinishJob
<1>7. ASSUME NEW w \in Workers, GiveUp(w) \/ DatabaseError(w)
      PROVE  job'[j] = job[j] \/ (worker[w].job = j /\ job'[j].status \in {"waiting", "failed"})
  <2> DEFINE k == worker[w].job
             made == job[k].made + 1
             status == IF made < Attempts THEN "waiting" ELSE "failed"
  <2>1. \/ job' = job
        \/ job' = [job EXCEPT ![k] = [@ EXCEPT !.made = made, !.holder = None, !.status = status]]
    BY <1>7 DEF GiveUp, DatabaseError, FailAttempt
  <2>2. status \in {"waiting", "failed"}
    OBVIOUS
  <2> HIDE DEF made, status
  <2> QED
    BY <1>a, <2>1, <2>2 DEF JobRecords
<1>8. ASSUME NEW w \in Workers, Crash(w)
      PROVE  job'[j] = job[j] \/ (job[j].holder = w /\ job'[j].status = job[j].status)
  BY <1>8, <1>a DEF Crash, JobRecords
<1> QED
  BY <1>3, <1>4, <1>5, <1>6, <1>7, <1>8, StepKinds DEF Leaves

\* Only the queue's stall check counts a stall, and it counts one.
LEMMA StalledGrows ==
    ASSUME TypeOK, [Next]_vars, NEW j \in Jobs
    PROVE  job'[j].stalled \in {job[j].stalled, job[j].stalled + 1}
<1>a. job \in [Jobs -> JobRecords]
  BY DEF TypeOK
<1>1. ASSUME NEW k \in Jobs, StartEvaluation(k) \/ Enqueue(k) \/ EnqueueFails(k)
      PROVE  job'[j].stalled = job[j].stalled
  BY <1>1, <1>a DEF StartEvaluation, Enqueue, EnqueueFails, JobRecords
<1>2. ASSUME NEW k \in Jobs, StallJob(k)
      PROVE  job'[j].stalled \in {job[j].stalled, job[j].stalled + 1}
  <2> DEFINE status == IF job[k].stalled < MaxStalled THEN "waiting" ELSE "failed"
  <2>1. job' = [job EXCEPT ![k] = [@ EXCEPT !.holder = None, !.stalled = job[k].stalled + 1,
                                            !.status = status]]
    BY <1>2 DEF StallJob
  <2> HIDE DEF status
  <2> QED
    BY <1>a, <2>1 DEF JobRecords
<1>3. CASE Outside
  <2>1. ASSUME ~ \E k \in Jobs : StartEvaluation(k) \/ Enqueue(k) \/ EnqueueFails(k) \/ StallJob(k)
        PROVE  job' = job
    BY <1>3, <2>1 DEF Outside, ReadEvaluation, SaveDecision, SaveConflicts, AgeRow, AgeCall, vars
  <2> QED
    BY <1>1, <1>2, <2>1
<1>4. ASSUME NEW w \in Workers, LoadBaseline(w) \/ Works(w) PROVE job' = job
  BY <1>4 DEF LoadBaseline, Works, MarkRunning, ReserveCall, BudgetExhausted, Generate, CallFails,
              WriteProposal, WriteFails, FailEntry, ParkRemaining
<1>5. ASSUME NEW w \in Workers, NEW k \in Jobs, TakeJob(w, k)
      PROVE  job'[j].stalled = job[j].stalled
  BY <1>5, <1>a DEF TakeJob, JobRecords
<1>6. ASSUME NEW w \in Workers, FinishJob(w) PROVE job'[j].stalled = job[j].stalled
  BY <1>6, <1>a DEF FinishJob, JobRecords
<1>7. ASSUME NEW w \in Workers, GiveUp(w) \/ DatabaseError(w)
      PROVE  job'[j].stalled = job[j].stalled
  <2> DEFINE k == worker[w].job
             made == job[k].made + 1
             status == IF made < Attempts THEN "waiting" ELSE "failed"
  <2>1. \/ job' = job
        \/ job' = [job EXCEPT ![k] = [@ EXCEPT !.made = made, !.holder = None, !.status = status]]
    BY <1>7 DEF GiveUp, DatabaseError, FailAttempt
  <2> HIDE DEF k, made, status
  <2>2. CASE k = j
    <3>1. job' # job => job'[j] = [job[j] EXCEPT !.made = made, !.holder = None, !.status = status]
      BY <1>a, <2>1, <2>2
    <3> QED
      BY <1>a, <3>1 DEF JobRecords
  <2>3. CASE k # j
    BY <1>a, <2>1, <2>3
  <2> QED
    BY <2>2, <2>3
<1>8. ASSUME NEW w \in Workers, Crash(w) PROVE job'[j].stalled = job[j].stalled
  BY <1>8, <1>a DEF Crash, JobRecords
<1> QED
  BY <1>3, <1>4, <1>5, <1>6, <1>7, <1>8, StepKinds DEF Leaves

LEMMA SlotMoves ==
    ASSUME IInv, [Next]_vars, NEW w \in Workers
    PROVE  \/ worker'[w] = worker[w]
           \/ Leaves(w) /\ worker'[w] = Idle
           \/ \E j \in Jobs : TakeJob(w, j)
           \/ LoadBaseline(w)
           \/ Works(w)
<1>a. TypeOK
  BY DEF IInv
<1>1. CASE Outside
  BY <1>1, OutsideKeeps
<1>2. ASSUME NEW v \in Workers, v # w,
             (\E j \in Jobs : TakeJob(v, j)) \/ LoadBaseline(v) \/ Works(v) \/ Leaves(v)
      PROVE  worker'[w] = worker[w]
  BY <1>a, <1>2, TakeMoves, LoadMoves, WorksMoves, LeavesMoves
<1>3. ASSUME Leaves(w) PROVE worker'[w] = Idle
  BY <1>a, <1>3, LeavesMoves
<1> QED
  BY <1>1, <1>2, <1>3, StepKinds

LEMMA HeldStep ==
    ASSUME IInv, Held, Undisturbed', [Next]_vars
    PROVE  Held'
<1>a. TypeOK /\ \A w \in Workers : worker[w].pc # "idle" => worker[w].job \in Jobs
  BY DEF IInv, SlotsReady, SlotReady
<1> SUFFICES ASSUME NEW w \in Workers, worker'[w].pc # "idle"
             PROVE  job'[worker'[w].job].status = "active" /\ job'[worker'[w].job].holder = w
  BY DEF Held
<1>1. CASE worker'[w] = worker[w]
  <2> DEFINE j == worker[w].job
  <2>1. j \in Jobs /\ job[j].status = "active" /\ job[j].holder = w
    BY <1>a, <1>1 DEF Held
  <2>2. ASSUME NEW v \in Workers, Leaves(v) PROVE worker[v].job # j /\ v # w
    <3>1. v # w
      BY <1>a, <1>1, <2>2, LeavesMoves DEF Idle
    <3>2. worker[v].pc # "idle"
      BY <1>a, <2>2, LeavesMoves
    <3> QED
      BY <2>1, <3>1, <3>2 DEF Held
  <2>3. ASSUME NEW v \in Workers, TakeJob(v, j) PROVE FALSE
    BY <1>a, <2>1, <2>3, TakeMoves
  <2>4. job'[j] = job[j]
    BY <1>a, <2>1, <2>2, <2>3, JobMoves DEF Leaves
  <2> QED
    BY <1>1, <2>1, <2>4
<1>2. ASSUME NEW j \in Jobs, TakeJob(w, j)
      PROVE  job'[worker'[w].job].status = "active" /\ job'[worker'[w].job].holder = w
  BY <1>a, <1>2, TakeMoves
<1>3. CASE LoadBaseline(w)
  BY <1>3, LoadMoves DEF Held
<1>4. CASE Works(w)
  BY <1>4, WorksMoves DEF Held, SlotKeeps
<1>5. CASE worker'[w] = Idle
  BY <1>5 DEF Idle
<1> QED
  BY <1>1, <1>2, <1>3, <1>4, <1>5, SlotMoves

\* A decision stays or gets a new revision, which no slot has seen.
LEMMA DecisionMoves ==
    ASSUME IInv, [Next]_vars, NEW r \in Rows
    PROVE  \/ Decision(r)' = Decision(r) /\ row'[r].revision = row[r].revision
           \/ row'[r].revision = row[r].revision + 1 /\ worker' = worker
<1>1. ASSUME NEW u \in Users, NEW result \in Chosen, SaveDecision(u, result)
      PROVE  \/ Decision(r)' = Decision(r) /\ row'[r].revision = row[r].revision
             \/ row'[r].revision = row[r].revision + 1 /\ worker' = worker
  <2>1. worker' = worker
    BY <1>1 DEF SaveDecision
  <2> QED
    BY <1>1, <2>1, SaveStep DEF Decision
<1>2. ASSUME NEW u \in Users,
             \/ \E s \in Rows : \E v \in 1..MaxRevision : ReadEvaluation(u, s, v)
             \/ SaveConflicts(u)
      PROVE  row' = row
  BY <1>2 DEF ReadEvaluation, SaveConflicts
<1>3. ASSUME row' = row \/ DecisionsKept
      PROVE  Decision(r)' = Decision(r) /\ row'[r].revision = row[r].revision
  BY <1>3 DEF DecisionsKept, Decision
<1> QED
  BY <1>1, <1>2, <1>3, OthersKeep

LEMMA SnapsStep ==
    ASSUME IInv, SnapsOld, [Next]_vars
    PROVE  SnapsOld'
<1> SUFFICES ASSUME NEW w \in Workers, NEW r \in Rows, worker'[w].snap[r] # None
             PROVE  worker'[w].snap[r].revision <= row'[r].revision
  BY DEF SnapsOld
<1>a. TypeOK /\ row[r].revision \in Nat
  BY DEF IInv, TypeOK, RowRecords
<1>1. CASE worker'[w].snap = worker[w].snap
  <2>1. worker[w].snap[r] \in DecisionRecords
    BY <1>a, <1>1 DEF TypeOK, SlotRecords
  <2>2. worker[w].snap[r].revision \in Nat
    BY <2>1 DEF DecisionRecords
  <2>3. worker[w].snap[r].revision <= row[r].revision
    BY <1>1 DEF SnapsOld
  <2> QED
    BY <1>1, <1>a, <2>2, <2>3, DecisionMoves
<1>2. CASE worker'[w].snap = Idle.snap
  BY <1>2 DEF Idle
<1>3. CASE LoadBaseline(w)
  <2>1. row' = row /\ worker'[w].snap[r] = Decision(r)
    BY <1>3, LoadMoves
  <2> QED
    BY <1>a, <2>1 DEF Decision
<1> QED
  BY <1>1, <1>2, <1>3, <1>a, SlotMoves, TakeMoves, WorksMoves DEF SlotKeeps

LEMMA DoneStep ==
    ASSUME IInv, DoneEmpty, [Next]_vars
    PROVE  DoneEmpty'
<1> SUFFICES ASSUME NEW w \in Workers, worker'[w].pc = "done" PROVE Holds(w)' = {}
  BY DEF DoneEmpty
<1>1. CASE worker'[w] = worker[w]
  BY <1>1 DEF DoneEmpty, Holds
<1>2. ASSUME NEW j \in Jobs, TakeJob(w, j) PROVE FALSE
  BY <1>2, TakeMoves DEF IInv
<1>3. CASE worker'[w] = Idle
  BY <1>3 DEF Idle
<1> QED
  BY <1>1, <1>2, <1>3, SlotMoves, LoadMoves, WorksMoves

\* An entry that a working slot gives up has an outcome, if it was still to have one.
LEMMA EntriesEnd ==
    ASSUME IInv, NEW w \in Workers, Works(w), NEW r \in Rows, r \in Holds(w), r \notin Holds(w)',
           Unchanged(w, r)
    PROVE  row'[r].aiStatus # "RUNNING"
<1>a. TypeOK /\ SlotReady(worker[w])
  BY DEF IInv, SlotsReady
<1>b. row[r].aiStatus = "RUNNING" => row[r].result # "NOT_ASSESSED"
  BY DEF IInv, ProposalMatchesDecision, IsGap, Gaps
<1>c. ASSUME NEW ids, r \in ids, FailEvaluations(ids) PROVE row'[r].aiStatus # "RUNNING"
  BY <1>a, <1>b, <1>c, WithAiFields DEF FailEvaluations
<1>1. CASE WriteProposal(w) /\ r = worker[w].at
  <2> DEFINE x == WithAi(r, "COMPLETED", worker[w].snap[r])
  <2>1. row' = [row EXCEPT ![r] = x]
    BY <1>1 DEF WriteProposal
  <2>2. x.aiStatus = "COMPLETED"
    BY <1>a, WithAiFields
  <2> HIDE DEF x
  <2> QED
    BY <1>a, <2>1, <2>2 DEF TypeOK
<1>2. CASE FailEntry(w) /\ r = worker[w].at
  BY <1>2, <1>c DEF FailEntry
<1>3. CASE ParkRemaining(w)
  <2>1. worker[w].at = None
    BY <1>3, <1>a DEF SlotReady, ParkRemaining
  <2>2. r \in worker[w].todo
    BY <2>1 DEF Holds
  <2> QED
    BY <1>3, <1>c, <2>2 DEF ParkRemaining
<1>4. (WriteProposal(w) \/ FailEntry(w)) /\ Holds(w)' = worker[w].todo => r = worker[w].at
  BY DEF Holds
<1> QED
  BY <1>1, <1>2, <1>3, <1>4, WorksMoves

\* The steps that announce a row as RUNNING.
LEMMA RowRuns ==
    ASSUME IInv, [Next]_vars, NEW r \in Rows, row'[r].aiStatus = "RUNNING", row[r].aiStatus # "RUNNING"
    PROVE  \/ \E j \in Jobs : StartEvaluation(j)
           \/ \E v \in Workers : MarkRunning(v) /\ worker'[v].at = r /\ Unchanged(v, r)
<1>a. TypeOK /\ row \in [Rows -> RowRecords] /\ worker \in [Workers -> SlotRecords]
  BY DEF IInv, TypeOK
<1>1. ASSUME NEW ids, FailEvaluations(ids) PROVE FALSE
  BY <1>a, <1>1, WithAiFields DEF FailEvaluations
<1>2. ASSUME NEW v \in Workers, MarkRunning(v)
      PROVE  worker'[v].at = r /\ Unchanged(v, r)
  <2> PICK s \in worker[v].todo :
         /\ row' = IF Unchanged(v, s)
                   THEN [row EXCEPT ![s] = WithAi(s, "RUNNING", @.proposal)] ELSE row
         /\ worker' = [worker EXCEPT ![v] = [@ EXCEPT !.at = s, !.todo = worker[v].todo \ {s},
                                                      !.pc = "reserve"]]
    BY <1>2 DEF MarkRunning
  <2>1. s \in Rows /\ worker'[v].at = s
    BY <1>a DEF SlotRecords
  <2>2. s = r /\ Unchanged(v, s)
    BY <1>a, <2>1
  <2> QED
    BY <2>1, <2>2
<1>3. ASSUME NEW v \in Workers, WriteProposal(v) PROVE FALSE
  <2> DEFINE s == worker[v].at
             x == WithAi(s, "COMPLETED", worker[v].snap[s])
  <2>1. s \in Rows
    BY <1>3 DEF IInv, SlotsReady, SlotReady, WriteProposal
  <2>2. row' = row \/ row' = [row EXCEPT ![s] = x]
    BY <1>3 DEF WriteProposal
  <2>3. x.aiStatus = "COMPLETED"
    BY <1>a, <2>1, WithAiFields
  <2> HIDE DEF s, x
  <2> QED
    BY <1>a, <2>1, <2>2, <2>3
<1>4. ASSUME NEW u \in Users, NEW result \in Chosen, SaveDecision(u, result) PROVE FALSE
  <2> DEFINE s == edit[u].row
             status == IF edit[u].result # result THEN "PENDING" ELSE row[s].aiStatus
  <2>1. s \in Rows /\ \A q \in Rows \ {s} : row'[q] = row[q]
    BY <1>4, SaveStep
  <2>2. row'[s].aiStatus \in {"PENDING", row[s].aiStatus}
    BY <1>4, <1>a, <2>1 DEF SaveDecision
  <2> QED
    BY <2>1, <2>2
<1>5. ASSUME NEW s \in Rows, AgeRow(s) PROVE FALSE
  BY <1>5, <1>a DEF AgeRow, RowRecords
<1>6. ASSUME NEW v \in Workers,
             \/ \E j \in Jobs : TakeJob(v, j)
             \/ LoadBaseline(v) \/ ReserveCall(v) \/ BudgetExhausted(v) \/ Generate(v)
             \/ CallFails(v) \/ WriteFails(v) \/ Leaves(v)
      PROVE  row' = row
  BY <1>6, <1>a, LeavesMoves DEF TakeJob, LoadBaseline, ReserveCall, BudgetExhausted, Generate,
       CallFails, WriteFails
<1>7. ASSUME \/ \E j \in Jobs : Enqueue(j) \/ StallJob(j)
             \/ \E u \in Users : \/ \E s \in Rows : \E v \in 1..MaxRevision : ReadEvaluation(u, s, v)
                                 \/ SaveConflicts(u)
             \/ \E c \in Calls : AgeCall(c)
             \/ UNCHANGED vars
      PROVE  row' = row
  BY <1>7 DEF Enqueue, StallJob, ReadEvaluation, SaveConflicts, AgeCall, vars
<1>8. ~ \E j \in Jobs : EnqueueFails(j)
  BY <1>1 DEF EnqueueFails
<1>9. ~ \E v \in Workers : FailEntry(v) \/ ParkRemaining(v)
  BY <1>1 DEF FailEntry, ParkRemaining
<1> QED
  BY <1>2, <1>3, <1>4, <1>5, <1>6, <1>7, <1>8, <1>9, StepKinds DEF Outside, Works

\* A pass is never newly through with a row that is RUNNING.
LEMMA StillPast ==
    ASSUME IInv, SnapsOld, [Next]_vars, NEW w \in Workers, NEW r \in Rows,
           row'[r].aiStatus = "RUNNING", Past(w, r)'
    PROVE  Past(w, r) /\ Decision(r)' = Decision(r)
<1>a. TypeOK /\ TypeOK' /\ row[r].revision \in Nat
  BY TypeStep DEF IInv, TypeOK, RowRecords
<1>b. worker'[w].snap[r] = Decision(r)' /\ r \notin Holds(w)'
  BY DEF Past, Unchanged
<1>c. Decision(r)' # None /\ Decision(r)'.revision = row'[r].revision
  <2>1. Decision(r)' \in DecisionRecords
    BY <1>a DEF TypeOK, RowRecords, DecisionRecords, Decision
  <2>2. None \notin DecisionRecords
    BY NoneAssumption DEF DecisionRecords, Results
  <2> QED
    BY <2>1, <2>2 DEF Decision
<1>d. Decision(r)' = Decision(r)
  <2>1. ASSUME row'[r].revision = row[r].revision + 1, worker' = worker PROVE FALSE
    <3>1. worker[w].snap[r].revision = row[r].revision + 1 /\ worker[w].snap[r] # None
      BY <1>b, <1>c, <2>1
    <3> QED
      BY <1>a, <3>1 DEF SnapsOld
  <2> QED
    BY <2>1, DecisionMoves
<1>1. CASE worker'[w] = worker[w]
  BY <1>1, <1>b, <1>d DEF Past, Unchanged, Holds
<1>2. CASE worker'[w] = Idle
  BY <1>2, <1>b, <1>c DEF Idle
<1>3. ASSUME NEW j \in Jobs, TakeJob(w, j) PROVE FALSE
  BY <1>3, <1>a, <1>b, <1>c, TakeMoves DEF Idle
<1>4. ASSUME LoadBaseline(w) PROVE FALSE
  BY <1>4, <1>b, <1>c, LoadMoves
<1>5. CASE Works(w)
  <2>1. SlotKeeps(w)
    BY <1>5, WorksMoves
  <2>2. Unchanged(w, r)
    BY <1>b, <1>d, <2>1 DEF Unchanged, SlotKeeps
  <2>3. r \notin Holds(w)
    BY <1>5, <1>b, <2>2, EntriesEnd
  <2> QED
    BY <1>d, <2>2, <2>3 DEF Past
<1> QED
  BY <1>1, <1>2, <1>3, <1>4, <1>5, SlotMoves

\* A slot that cares for a row does so until the row has an outcome.
LEMMA CaresKept ==
    ASSUME IInv, [Next]_vars, NEW v \in Workers, NEW r \in Rows, Cares(v, r),
           row[r].aiStatus = "RUNNING", row'[r].aiStatus = "RUNNING", Decision(r)' = Decision(r)
    PROVE  Cares(v, r)'
<1>a. TypeOK /\ IsGap(r)
  BY DEF IInv, ProposalMatchesDecision
<1>1. CASE worker'[v] = worker[v]
  BY <1>1 DEF Cares, Unchanged, Holds
<1>2. CASE worker'[v] = Idle
  BY <1>2 DEF Cares, Idle
<1>3. ASSUME NEW j \in Jobs, TakeJob(v, j) PROVE Cares(v, r)'
  BY <1>3, <1>a, TakeMoves DEF Cares
<1>4. CASE LoadBaseline(v)
  <2>1. worker'[v].snap[r] = Decision(r) /\ r \in Holds(v)'
    BY <1>4, <1>a, LoadMoves
  <2> QED
    BY <2>1 DEF Cares, Unchanged
<1>5. CASE Works(v)
  <2>1. SlotKeeps(v)
    BY <1>5, WorksMoves
  <2>2. Unchanged(v, r) /\ r \in Holds(v)
    BY <2>1 DEF SlotKeeps, Cares
  <2>3. r \in Holds(v)'
    BY <1>5, <2>2, EntriesEnd
  <2> QED
    BY <2>1, <2>2, <2>3 DEF Cares, Unchanged, SlotKeeps
<1> QED
  BY <1>1, <1>2, <1>3, <1>4, <1>5, SlotMoves

LEMMA AnswersKept ==
    ASSUME IInv, DoneEmpty, Held, Undisturbed', [Next]_vars, NEW r \in Rows, NEW j \in Jobs,
           Answers(j, r), row[r].aiStatus = "RUNNING", row'[r].aiStatus = "RUNNING",
           Decision(r)' = Decision(r)
    PROVE  Answers(j, r)'
<1>a. TypeOK /\ IsGap(r) /\ row[r].result # "NOT_ASSESSED"
      /\ \A w \in Workers : worker[w].pc # "idle" => worker[w].job \in Jobs
  BY DEF IInv, ProposalMatchesDecision, IsGap, Gaps, SlotsReady, SlotReady
<1>1. ASSUME EnqueueFails(j) PROVE FALSE
  BY <1>1, <1>a, WithAiFields DEF EnqueueFails, FailEvaluations
<1>2. ASSUME NEW w \in Workers, FinishJob(w), worker[w].job = j PROVE FALSE
  <2>1. worker[w].pc = "done" /\ job[j].status = "active"
    BY <1>2 DEF FinishJob, Held
  <2>2. r \in Holds(w)
    BY <1>2, <2>1 DEF Answers, Cares
  <2> QED
    BY <2>1, <2>2 DEF DoneEmpty
<1>3. ASSUME NEW w \in Workers, TakeJob(w, j) PROVE Answers(j, r)'
  <2>1. /\ job[j].status = "waiting" /\ job'[j].status = "active" /\ worker'[w].pc = "load"
        /\ \A v \in Workers : v # w => worker'[v] = worker[v]
    BY <1>3, <1>a, TakeMoves
  <2>2. ASSUME NEW v \in Workers, v # w, worker'[v].job = j PROVE worker'[v].pc = "idle"
    <3>1. worker[v].pc # "idle" => job[j].status = "active"
      BY <2>1, <2>2 DEF Held
    <3> QED
      BY <2>1, <2>2, <3>1
  <2> QED
    BY <2>1, <2>2 DEF Answers, Cares
<1>4. CASE job'[j].status = job[j].status
  <2>1. CASE job[j].status = "active"
    <3> SUFFICES ASSUME NEW v \in Workers, worker'[v].job = j PROVE Cares(v, r)'
      BY <1>4, <2>1 DEF Answers
    <3>1. CASE worker[v].job = j
      BY <3>1, <1>a, <2>1, CaresKept DEF Answers
    <3>2. CASE worker[v].job # j
      <4>1. worker'[v] # worker[v] /\ ~LoadBaseline(v) /\ ~Works(v)
        BY <3>2, LoadMoves, WorksMoves DEF SlotKeeps
      <4>2. CASE worker'[v] = Idle
        BY <4>2 DEF Cares, Idle
      <4>3. ASSUME NEW k \in Jobs, TakeJob(v, k) PROVE Cares(v, r)'
        BY <4>3, <1>a, TakeMoves DEF Cares
      <4> QED
        BY <4>1, <4>2, <4>3, SlotMoves
    <3> QED
      BY <3>1, <3>2
  <2> QED
    BY <1>4, <2>1 DEF Answers
<1>5. CASE job'[j].status \in {"reset", "waiting", "failed"}
  BY <1>5 DEF Answers
<1> QED
  BY <1>a, <1>1, <1>2, <1>3, <1>4, <1>5, JobMoves

LEMMA AnsweredStep ==
    ASSUME IInv, DoneEmpty, SnapsOld, Held, Held', Answered, Undisturbed', [Next]_vars
    PROVE  Answered'
<1>a. TypeOK /\ \A w \in Workers : worker[w].pc # "idle" => worker[w].job \in Jobs
  BY DEF IInv, SlotsReady, SlotReady
<1> SUFFICES ASSUME NEW r \in Rows, row'[r].aiStatus = "RUNNING", NEW w \in Workers, Past(w, r)'
             PROVE  \E j \in Jobs : Answers(j, r)'
  BY DEF Answered
<1>1. Past(w, r) /\ Decision(r)' = Decision(r)
  BY StillPast
<1>2. CASE row[r].aiStatus = "RUNNING"
  <2>1. PICK j \in Jobs : Answers(j, r)
    BY <1>1, <1>2 DEF Answered
  <2> QED
    BY <1>1, <1>2, <2>1, AnswersKept
<1>3. ASSUME NEW j \in Jobs, StartEvaluation(j) PROVE Answers(j, r)'
  BY <1>3, <1>a DEF StartEvaluation, Answers, TypeOK, JobRecords
<1>4. ASSUME NEW v \in Workers, MarkRunning(v), worker'[v].at = r, Unchanged(v, r)
      PROVE  \E j \in Jobs : Answers(j, r)'
  <2>1. SlotKeeps(v) /\ job' = job
    BY <1>4, WorksMoves DEF Works
  <2>2. PICK j \in Jobs : j = worker[v].job
    BY <1>a, <2>1 DEF SlotKeeps
  <2>3. Cares(v, r)'
    <3>1. r # None /\ r \in Holds(v)'
      BY <1>4, NoneAssumption DEF Holds
    <3> QED
      BY <1>1, <1>4, <2>1, <3>1 DEF Cares, Unchanged, SlotKeeps
  <2>4. job'[j].status = "active" /\ job'[j].holder = v
    BY <2>1, <2>2 DEF Held, SlotKeeps
  <2>5. ASSUME NEW u \in Workers, worker'[u].job = j PROVE Cares(u, r)'
    <3>1. CASE worker'[u].pc = "idle"
      BY <3>1 DEF Cares
    <3>2. CASE worker'[u].pc # "idle"
      BY <2>3, <2>4, <2>5, <3>2 DEF Held
    <3> QED
      BY <3>1, <3>2
  <2> QED
    BY <2>4, <2>5 DEF Answers
<1> QED
  BY <1>2, <1>3, <1>4, RowRuns

LEMMA PassStep == PassInv /\ [Next]_vars => PassInv'
<1> SUFFICES ASSUME PassInv, [Next]_vars PROVE PassInv'
  OBVIOUS
<1>1. IInv' /\ DoneEmpty' /\ SnapsOld'
  BY Inductive, DoneStep, SnapsStep DEF PassInv
<1>2. ASSUME Undisturbed' PROVE Held' /\ Answered'
  <2>1. Undisturbed
    <3> SUFFICES ASSUME NEW j \in Jobs PROVE job[j].stalled = 0
      BY DEF Undisturbed
    <3>1. job'[j].stalled = 0 /\ job[j].stalled \in Nat /\ job \in [Jobs -> JobRecords]
      BY <1>2 DEF Undisturbed, PassInv, IInv, TypeOK, JobRecords
    <3>2. job'[j].stalled \in {job[j].stalled, job[j].stalled + 1}
      BY StalledGrows DEF PassInv, IInv
    <3> QED
      BY <3>1, <3>2
  <2>2. Held /\ Answered /\ Held'
    BY <1>2, <2>1, HeldStep DEF PassInv
  <2> QED
    BY <1>2, <2>2, AnsweredStep DEF PassInv
<1> QED
  BY <1>1, <1>2 DEF PassInv

\* A pass that runs to its end has answered every gap it was delivered with: a row still
\* RUNNING on the decision it was delivered with is the business of another pass, which
\* was asked for meanwhile, waits, works on it or has failed (regulatory-evaluation.processor.ts).
THEOREM FinishedPassesAnswer == Spec => []FinishedPassLeavesNothing
<1>1. Init => PassInv
  <2> SUFFICES ASSUME Init PROVE PassInv
    OBVIOUS
  <2>1. \A w \in Workers : worker[w] = Idle
    BY DEF Init
  <2>2. DoneEmpty /\ SnapsOld /\ Held
    BY <2>1 DEF DoneEmpty, SnapsOld, Held, Idle
  <2>3. Answered
    BY DEF Init, Answered
  <2> QED
    BY <2>2, <2>3, InitInv DEF PassInv
<1>2. PassInv => FinishedPassLeavesNothing
  <2> SUFFICES ASSUME PassInv, \A j \in Jobs : job[j].stalled = 0,
                      NEW w \in Workers, worker[w].pc = "done",
                      NEW r \in Rows, Unchanged(w, r), row[r].aiStatus = "RUNNING"
               PROVE  \E j \in Jobs \ {worker[w].job} :
                        job[j].status \notin {"none", "rejected", "completed"}
    BY DEF FinishedPassLeavesNothing
  <2>1. Holds(w) = {} /\ Held /\ Answered
    BY DEF PassInv, DoneEmpty, Undisturbed
  <2>2. PICK j \in Jobs : Answers(j, r)
    BY <2>1 DEF Past, Answered
  <2>3. j # worker[w].job
    BY <2>1, <2>2 DEF Held, Answers, Cares
  <2> QED
    BY <2>2, <2>3 DEF Answers
<1> QED
  BY <1>1, <1>2, PassStep, PTL DEF Spec


-----------------------------------------------------------------------------
(* The jobs of the passes are delivered as the abstract queue says.      *)

\* The jobs as JobDelivery sees them.
Deliveries == [j \in Jobs |-> Progress(job[j])]

\* A request that has no job in the queue, or not yet.
Unasked == {"none", "reset", "rejected"}

\* A job is within its attempts and the stalls that are forgiven; who holds a lock holds
\* that of an active job.
Within(j) ==
    /\ j.status \in Unasked => j.made = 0 /\ j.stalled = 0
    /\ j.status \in {"waiting", "active"} => j.made < Attempts /\ j.stalled <= MaxStalled
    /\ j.holder # None => j.status = "active"

AllWithin == \A r \in Jobs : Within(job[r])

\* What a step can make of a job: its holder is gone, it is added, taken or completed, an
\* attempt is used, or a stall.
SameCounts(j, k) == k.made = j.made /\ k.stalled = j.stalled
Becomes(j, k) ==
    \/ k.status = j.status /\ SameCounts(j, k)
    \/ j.status \in Unasked /\ k.status \in Unasked /\ SameCounts(j, k)
    \/ j.status = "reset" /\ k.status = "waiting" /\ SameCounts(j, k)
    \/ j.status = "waiting" /\ k.status = "active" /\ SameCounts(j, k)
    \/ j.status = "active" /\ k.status = "completed" /\ SameCounts(j, k)
    \/ /\ j.status = "active" /\ k.made = j.made + 1 /\ k.stalled = j.stalled
       /\ k.status \in {"waiting", "failed"} /\ (k.status = "waiting" => k.made < Attempts)
    \/ /\ j.status = "active" /\ k.made = j.made /\ k.stalled = j.stalled + 1
       /\ k.status \in {"waiting", "failed"} /\ (k.status = "waiting" => k.stalled <= MaxStalled)

\* The steps of JobDelivery, or none, by the records that they leave.
Delivers(p, q) ==
    \/ q = p
    \/ p.status = "none" /\ q = [p EXCEPT !.status = "queued"]
    \/ p.status = "queued" /\ p.left > 0 /\ q = [p EXCEPT !.left = p.left - 1]
    \/ p.status = "queued" /\ q = [p EXCEPT !.status = "done"]
    \/ p.status = "queued" /\ p.left < Attempts + MaxStalled /\ q = [p EXCEPT !.status = "failed"]

\* The same, by the fields.
LEMMA RecordMoves ==
    ASSUME NEW p, NEW q, p = [status |-> p.status, left |-> p.left],
           q = [status |-> q.status, left |-> q.left],
           \/ p.status = "none" /\ q.status = "queued" /\ q.left = p.left
           \/ p.status = "queued" /\ q.status = "queued" /\ p.left > 0 /\ q.left = p.left - 1
           \/ p.status = "queued" /\ q.status \in {"queued", "done"} /\ q.left = p.left
           \/ /\ p.status = "queued" /\ q.status = "failed" /\ q.left = p.left
              /\ p.left < Attempts + MaxStalled
    PROVE  Delivers(p, q)
<1>1. PICK ps, pl, qs, ql : p = [status |-> ps, left |-> pl] /\ q = [status |-> qs, left |-> ql]
  OBVIOUS
<1>2. p.status = ps /\ p.left = pl /\ q.status = qs /\ q.left = ql
  BY <1>1
<1> QED
  BY <1>1, <1>2 DEF Delivers

\* Whatever becomes of a job is what the abstract queue allows.
LEMMA JobDelivers ==
    ASSUME NEW j \in JobRecords, NEW k \in JobRecords, Within(j), Becomes(j, k),
           k.holder # None => k.status = "active"
    PROVE  Within(k) /\ Delivers(Progress(j), Progress(k))
<1>a. /\ Attempts \in Nat /\ Attempts > 0 /\ MaxStalled \in Nat
      /\ j.made \in Nat /\ j.stalled \in Nat /\ k.made \in Nat /\ k.stalled \in Nat
      /\ j.status \in {"none", "reset", "rejected", "waiting", "active", "completed", "failed"}
  BY DeliveryAssumption DEF JobRecords
<1>1. Within(k)
  BY <1>a DEF Within, Becomes, SameCounts, Unasked
<1>2. PICK m \in Int : m = Attempts + MaxStalled - j.made - j.stalled
  BY <1>a
<1>3. PICK n \in Int : n = Attempts + MaxStalled - k.made - k.stalled
  BY <1>a
<1>4. /\ SameCounts(j, k) => n = m
      /\ k.made + k.stalled = j.made + j.stalled + 1 => n = m - 1
      /\ m - 1 < Attempts + MaxStalled
  <2>1. SameCounts(j, k) => n = m
    BY <1>2, <1>3 DEF SameCounts
  <2>2. k.made + k.stalled = j.made + j.stalled + 1 => n = m - 1
    BY <1>a, <1>2, <1>3
  <2>3. m - 1 < Attempts + MaxStalled
    BY <1>a, <1>2
  <2> QED
    BY <2>1, <2>2, <2>3
<1>b. j.status \in {"waiting", "active"} => m > 0
  BY <1>a, <1>2 DEF Within
<1>c. /\ j.status \in {"reset", "waiting"} => Progress(j).left = m
      /\ j.status = "active" => Progress(j).left = m - 1
      /\ k.status \in {"failed", "waiting"} => Progress(k).left = n
      /\ k.status \in {"active", "completed"} => Progress(k).left = n - 1
  <2>1. /\ Progress(j).left =
              m - (IF j.status \in {"active", "completed"} THEN 1 ELSE 0)
        /\ Progress(k).left =
              n - (IF k.status \in {"active", "completed"} THEN 1 ELSE 0)
    BY <1>a, <1>2, <1>3 DEF Progress
  <2> QED
    BY <2>1, <1>2, <1>3
<1>d. /\ j.status = "reset" => Progress(j).status = "none"
      /\ j.status \in {"waiting", "active"} => Progress(j).status = "queued"
      /\ k.status \in {"waiting", "active"} => Progress(k).status = "queued"
      /\ k.status = "completed" => Progress(k).status = "done"
      /\ k.status = "failed" => Progress(k).status = "failed"
  BY DEF Progress
<1>5. CASE k.status = j.status /\ SameCounts(j, k)
  <2>1. Progress(k) = Progress(j)
    BY <1>5 DEF SameCounts, Progress
  <2> QED
    BY <1>1, <2>1 DEF Delivers
<1>f. CASE j.status \in Unasked /\ k.status \in Unasked /\ SameCounts(j, k)
  <2>1. Progress(k) = Progress(j)
    BY <1>f DEF SameCounts, Progress, Unasked
  <2> QED
    BY <1>1, <2>1 DEF Delivers
<1> DEFINE p == Progress(j)
           q == Progress(k)
<1>e. /\ p = [status |-> p.status, left |-> p.left]
      /\ q = [status |-> q.status, left |-> q.left]
  BY DEF Progress
<1> HIDE DEF p, q
<1>6. CASE j.status = "reset" /\ k.status = "waiting" /\ SameCounts(j, k)
  <2>1. p.status = "none" /\ q.status = "queued" /\ q.left = p.left
    BY <1>4, <1>c, <1>d, <1>6 DEF p, q
  <2>2. Delivers(p, q)
    BY <1>e, <2>1, RecordMoves
  <2> QED
    BY <1>1, <2>2 DEF p, q
<1>7. CASE j.status = "waiting" /\ k.status = "active" /\ SameCounts(j, k)
  <2>1. p.status = "queued" /\ q.status = "queued" /\ p.left > 0 /\ q.left = p.left - 1
    BY <1>4, <1>b, <1>c, <1>d, <1>7 DEF p, q
  <2>2. Delivers(p, q)
    BY <1>e, <2>1, RecordMoves
  <2> QED
    BY <1>1, <2>2 DEF p, q
<1>8. CASE j.status = "active" /\ k.status = "completed" /\ SameCounts(j, k)
  <2>1. p.status = "queued" /\ q.status = "done" /\ q.left = p.left
    BY <1>4, <1>c, <1>d, <1>8 DEF p, q
  <2>2. Delivers(p, q)
    BY <1>e, <2>1, RecordMoves
  <2> QED
    BY <1>1, <2>2 DEF p, q
<1>9. CASE /\ j.status = "active" /\ k.made + k.stalled = j.made + j.stalled + 1
           /\ k.status \in {"waiting", "failed"}
  <2>1. /\ p.status = "queued" /\ q.status \in {"queued", "failed"} /\ q.left = p.left
        /\ p.left < Attempts + MaxStalled
    BY <1>4, <1>c, <1>d, <1>9 DEF p, q
  <2>2. Delivers(p, q)
    BY <1>e, <2>1, RecordMoves
  <2> QED
    BY <1>1, <2>2 DEF p, q
<1>10. \/ k.made = j.made + 1 /\ k.stalled = j.stalled
       \/ k.made = j.made /\ k.stalled = j.stalled + 1
       => k.made + k.stalled = j.made + j.stalled + 1
  BY <1>a
<1> QED
  BY <1>1, <1>5, <1>6, <1>7, <1>8, <1>9, <1>10, <1>f DEF Becomes

LEMMA OneDelivery ==
    ASSUME NEW r \in Jobs, NEW d, Deliveries' = [Deliveries EXCEPT ![r] = d],
           Delivers(Deliveries[r], d)
    PROVE  [Delivery!Next]_Deliveries
<1>1. CASE d = Deliveries[r]
  BY <1>1 DEF Deliveries
<1>2. CASE Deliveries[r].status = "none" /\ d = [Deliveries[r] EXCEPT !.status = "queued"]
  <2>1. Delivery!Add(r)
    BY <1>2 DEF Delivery!Add, Deliveries
  <2> QED
    BY <2>1 DEF Delivery!Next
<1>3. CASE /\ Deliveries[r].status = "queued" /\ Deliveries[r].left > 0
           /\ d = [Deliveries[r] EXCEPT !.left = Deliveries[r].left - 1]
  <2>1. Delivery!Deliver(r)
    BY <1>3 DEF Delivery!Deliver, Deliveries
  <2> QED
    BY <2>1 DEF Delivery!Next
<1>4. CASE Deliveries[r].status = "queued" /\ d = [Deliveries[r] EXCEPT !.status = "done"]
  <2>1. Delivery!Complete(r)
    BY <1>4 DEF Delivery!Complete, Deliveries
  <2> QED
    BY <2>1 DEF Delivery!Next
<1>5. CASE /\ Deliveries[r].status = "queued" /\ Deliveries[r].left < Attempts + MaxStalled
           /\ d = [Deliveries[r] EXCEPT !.status = "failed"]
  <2>1. Delivery!GiveUp(r)
    BY <1>5 DEF Delivery!GiveUp, Deliveries
  <2> QED
    BY <2>1 DEF Delivery!Next
<1> QED
  BY <1>1, <1>2, <1>3, <1>4, <1>5 DEF Delivers

\* A step that replaces one job.
LEMMA OneJob ==
    ASSUME TypeOK, AllWithin, NEW r \in Jobs, NEW k \in JobRecords, Becomes(job[r], k),
           job' = [job EXCEPT ![r] = k], k.holder # None => k.status = "active"
    PROVE  AllWithin' /\ [Delivery!Next]_Deliveries
<1>1. job \in [Jobs -> JobRecords]
  BY DEF TypeOK
<1>2. Within(k) /\ Delivers(Progress(job[r]), Progress(k))
  BY <1>1, JobDelivers DEF AllWithin
<1>3. \A s \in Jobs : job'[s] = IF s = r THEN k ELSE job[s]
  BY <1>1
<1>4. AllWithin'
  BY <1>2, <1>3 DEF AllWithin, Within
<1>5. Deliveries' = [Deliveries EXCEPT ![r] = Progress(k)]
  <2>1. \A s \in Jobs : Progress(job[s])' = IF s = r THEN Progress(k)
                                                  ELSE Progress(job[s])
    BY <1>3
  <2> QED
    BY <2>1 DEF Deliveries
<1>6. Deliveries[r] = Progress(job[r])
  BY DEF Deliveries
<1> QED
  BY <1>2, <1>4, <1>5, <1>6, OneDelivery

\* Every step adds, delivers or ends one job as the abstract queue allows, or leaves what
\* it sees alone.  A slot that lost its lock ends nothing.
LEMMA DeliveryStep ==
    ASSUME IInv, AllWithin, [Next]_vars
    PROVE  AllWithin' /\ [Delivery!Next]_Deliveries
<1>a. /\ job \in [Jobs -> JobRecords] /\ TypeOK
      /\ \A w \in Workers : worker[w].pc # "idle" => worker[w].job \in Jobs
  BY DEF IInv, TypeOK, SlotsReady, SlotReady
<1>b. \A j \in Jobs : Within(job[j])
  BY DEF AllWithin
<1>1. CASE job' = job
  BY <1>1 DEF AllWithin, Deliveries
<1>2. ASSUME NEW j \in Jobs, StartEvaluation(j)
      PROVE  AllWithin' /\ [Delivery!Next]_Deliveries
  <2> DEFINE k == [job[j] EXCEPT !.status = "reset", !.scope = Retryable]
  <2>1. job' = [job EXCEPT ![j] = k] /\ job[j].status = "none"
    BY <1>a, <1>2 DEF StartEvaluation
  <2>2. k \in JobRecords /\ Becomes(job[j], k) /\ k.holder = job[j].holder
    BY <1>a, <2>1 DEF JobRecords, Becomes, SameCounts, Unasked, Retryable
  <2> QED
    BY <1>a, <1>b, <2>1, <2>2, OneJob DEF Within
<1>3. ASSUME NEW j \in Jobs, Enqueue(j)
      PROVE  AllWithin' /\ [Delivery!Next]_Deliveries
  <2> DEFINE k == [job[j] EXCEPT !.status = "waiting", !.scope = {}]
  <2>1. job' = [job EXCEPT ![j] = k] /\ job[j].status = "reset"
    BY <1>a, <1>3 DEF Enqueue
  <2>2. k \in JobRecords /\ Becomes(job[j], k) /\ k.holder = job[j].holder
    BY <1>a, <2>1 DEF JobRecords, Becomes, SameCounts
  <2> QED
    BY <1>a, <1>b, <2>1, <2>2, OneJob DEF Within
<1>4. ASSUME NEW j \in Jobs, EnqueueFails(j)
      PROVE  AllWithin' /\ [Delivery!Next]_Deliveries
  <2> DEFINE k == [job[j] EXCEPT !.status = "rejected", !.scope = {}]
  <2>1. job' = [job EXCEPT ![j] = k] /\ job[j].status = "reset"
    BY <1>a, <1>4 DEF EnqueueFails
  <2>2. k \in JobRecords /\ Becomes(job[j], k) /\ k.holder = job[j].holder
    BY <1>a, <2>1 DEF JobRecords, Becomes, SameCounts, Unasked
  <2> QED
    BY <1>a, <1>b, <2>1, <2>2, OneJob DEF Within
<1>5. ASSUME NEW w \in Workers, NEW j \in Jobs, TakeJob(w, j)
      PROVE  AllWithin' /\ [Delivery!Next]_Deliveries
  <2> DEFINE k == [job[j] EXCEPT !.status = "active", !.holder = w]
  <2>1. job' = [job EXCEPT ![j] = k] /\ job[j].status = "waiting"
    BY <1>a, <1>5 DEF TakeJob
  <2>2. k \in JobRecords /\ Becomes(job[j], k) /\ k.status = "active"
    BY <1>a, <2>1 DEF JobRecords, Becomes, SameCounts
  <2> QED
    BY <1>a, <2>1, <2>2, OneJob
<1>6. ASSUME NEW w \in Workers, FinishJob(w)
      PROVE  AllWithin' /\ [Delivery!Next]_Deliveries
  <2> DEFINE j == worker[w].job
             k == [job[j] EXCEPT !.status = "completed", !.holder = None]
  <2>1. j \in Jobs
    BY <1>a, <1>6 DEF FinishJob
  <2>2. CASE job[j].holder = w
    <3>1. job' = [job EXCEPT ![j] = k] /\ job[j].status = "active"
      BY <1>a, <1>b, <1>6, <2>1, <2>2, NoneAssumption DEF FinishJob, Within
    <3>2. k \in JobRecords /\ Becomes(job[j], k) /\ k.holder = None
      BY <1>a, <2>1, <3>1 DEF JobRecords, Becomes, SameCounts
    <3> QED
      BY <1>a, <2>1, <3>1, <3>2, OneJob
  <2>3. CASE job[j].holder # w
    BY <1>1, <1>6, <2>3 DEF FinishJob
  <2> QED
    BY <2>2, <2>3
<1>7. ASSUME NEW w \in Workers, GiveUp(w) \/ DatabaseError(w)
      PROVE  AllWithin' /\ [Delivery!Next]_Deliveries
  <2> DEFINE j == worker[w].job
             made == job[j].made + 1
             status == IF made < Attempts THEN "waiting" ELSE "failed"
             k == [job[j] EXCEPT !.made = made, !.holder = None, !.status = status]
  <2>1. j \in Jobs /\ FailAttempt(w)
    BY <1>a, <1>7 DEF GiveUp, DatabaseError
  <2>2. CASE job[j].holder = w
    <3>1. job' = [job EXCEPT ![j] = k] /\ job[j].status = "active"
      BY <1>a, <1>b, <2>1, <2>2, NoneAssumption DEF FailAttempt, Within
    <3>2. /\ made \in Nat /\ status \in {"waiting", "failed"}
          /\ status = "waiting" => made < Attempts
      BY <1>a, <2>1 DEF JobRecords
    <3>3. /\ k \in JobRecords /\ k.made = made /\ k.stalled = job[j].stalled
          /\ k.status = status /\ k.holder = None
      <4> HIDE DEF made, status, j
      <4> QED
        BY <1>a, <2>1, <3>2 DEF JobRecords
    <3>4. Becomes(job[j], k)
      <4>1. k.made = job[j].made + 1
        BY <3>3
      <4> HIDE DEF k, made, status, j
      <4> QED
        BY <3>1, <3>2, <3>3, <4>1 DEF Becomes
    <3> QED
      BY <1>a, <2>1, <3>1, <3>3, <3>4, OneJob
  <2>3. CASE job[j].holder # w
    BY <1>1, <2>1, <2>3 DEF FailAttempt
  <2> QED
    BY <2>2, <2>3
<1>8. ASSUME NEW w \in Workers, Crash(w)
      PROVE  AllWithin' /\ [Delivery!Next]_Deliveries
  <2>1. \A j \in Jobs : job'[j] = job[j] \/ job'[j] = [job[j] EXCEPT !.holder = None]
    BY <1>8 DEF Crash
  <2>2. ASSUME NEW j \in Jobs
        PROVE  /\ job'[j].status = job[j].status /\ SameCounts(job[j], job'[j])
               /\ job'[j].holder \in {job[j].holder, None}
    BY <1>a, <2>1 DEF JobRecords, SameCounts
  <2>3. AllWithin'
    BY <2>2 DEF AllWithin, Within, SameCounts
  <2>4. \A j \in Jobs : Progress(job[j])' = Progress(job[j])
    BY <2>2 DEF Progress, SameCounts
  <2> QED
    BY <2>3, <2>4 DEF Deliveries
<1>9. ASSUME NEW j \in Jobs, StallJob(j)
      PROVE  AllWithin' /\ [Delivery!Next]_Deliveries
  <2> DEFINE stalled == job[j].stalled + 1
             status == IF job[j].stalled < MaxStalled THEN "waiting" ELSE "failed"
             k == [job[j] EXCEPT !.holder = None, !.stalled = stalled, !.status = status]
  <2>1. job[j].status = "active" /\ job' = [job EXCEPT ![j] = k]
    BY <1>9 DEF StallJob
  <2>2. /\ stalled \in Nat /\ status \in {"waiting", "failed"}
        /\ status = "waiting" => stalled <= MaxStalled
    BY <1>a, DeliveryAssumption DEF JobRecords
  <2>3. /\ k \in JobRecords /\ k.made = job[j].made /\ k.stalled = stalled
        /\ k.status = status /\ k.holder = None
    <3> HIDE DEF stalled, status
    <3> QED
      BY <1>a, <2>2 DEF JobRecords
  <2>4. Becomes(job[j], k)
    <3>1. k.stalled = job[j].stalled + 1
      BY <2>3
    <3> HIDE DEF k, stalled, status
    <3> QED
      BY <2>1, <2>2, <2>3, <3>1 DEF Becomes
  <2> QED
    BY <1>a, <2>1, <2>3, <2>4, OneJob
<1>10. ASSUME NEW w \in Workers, LoadBaseline(w) \/ Works(w) PROVE job' = job
  BY <1>10 DEF LoadBaseline, Works, MarkRunning, ReserveCall, BudgetExhausted, Generate, CallFails,
               WriteProposal, WriteFails, FailEntry, ParkRemaining
<1>11. ASSUME Outside,
              ~ \E j \in Jobs : StartEvaluation(j) \/ Enqueue(j) \/ EnqueueFails(j) \/ StallJob(j)
       PROVE  job' = job
  BY <1>11 DEF Outside, ReadEvaluation, SaveDecision, SaveConflicts, AgeRow, AgeCall, vars
<1> QED
  BY <1>1, <1>2, <1>3, <1>4, <1>5, <1>6, <1>7, <1>8, <1>9, <1>10, <1>11, StepKinds DEF Leaves

\* The queue of the passes implements JobDelivery: a request enqueues its pass once, the
\* pass is delivered no more often than its attempts and the forgiven stalls allow, and not
\* at all once a slot with its lock has ended it, whatever slots go on without theirs
\* (regulatory-watch.service.ts, regulatory-evaluation.processor.ts).
THEOREM PassesAreDelivered == Spec => DeliveryImplemented
<1>1. Init => AllWithin /\ Delivery!Init
  <2> SUFFICES ASSUME Init PROVE AllWithin /\ Delivery!Init
    OBVIOUS
  <2>1. \A j \in Jobs : /\ job[j].status = "none" /\ job[j].made = 0 /\ job[j].stalled = 0
                        /\ job[j].holder = None
    BY DEF Init
  <2>2. \A j \in Jobs : Progress(job[j]) = [status |-> "none", left |-> Attempts + MaxStalled]
    BY <2>1, DeliveryAssumption DEF Progress
  <2> QED
    BY <2>1, <2>2 DEF AllWithin, Within, Delivery!Init
<1>2. IInv /\ AllWithin /\ [Next]_vars => AllWithin' /\ [Delivery!Next]_Deliveries
  BY DeliveryStep
<1>3. [Delivery!Next]_Deliveries => [Delivery!Next]_([j \in Jobs |-> Progress(job[j])])
  BY DEF Deliveries
<1>4. Delivery!Spec => DeliveryImplemented
  BY DEF DeliveryImplemented
<1>5. Spec => Delivery!Spec
  BY <1>1, <1>2, <1>3, InitInv, Inductive, PTL DEF Spec, Delivery!Spec
<1> QED
  BY <1>4, <1>5, PTL
=============================================================================
