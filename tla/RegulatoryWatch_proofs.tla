----------------------- MODULE RegulatoryWatch_proofs -----------------------
(***************************************************************************)
(* What holds of RegulatoryWatch for every number of runs, laws, requests, *)
(* slots and events.                                                       *)
(***************************************************************************)
EXTENDS RegulatoryWatch, FiniteSetTheorems, TLAPS

-----------------------------------------------------------------------------
(* Type correctness.                                                       *)

LEMMA DraftedTyped ==
    ASSUME NEW change \in {"ADDED", "UNCHANGED", "MODIFIED"}, NEW auto \in BOOLEAN
    PROVE  Drafted(change, auto) \in Candidates
<1>1. (change # "UNCHANGED" /\ ~auto) \in BOOLEAN
  BY Zenon
<1>2. Drafted(change, auto).review \in BOOLEAN
  BY <1>1, Zenon DEF Drafted
<1> QED
  BY <1>2 DEF Drafted, Candidates, Decisions

LEMMA DiscoveriesTyped ==
    ASSUME NEW laws, NEW auto \in BOOLEAN, NEW found \in Discoveries(laws, auto)
    PROVE  found \in [Laws -> Candidates \cup {None}]
BY DraftedTyped DEF Discoveries

LEMMA IdleTyped == Idle \in SlotRecords
BY DEF Idle, SlotRecords

LEMMA FreeTyped == Free \in RequestRecords
BY DEF Free, RequestRecords

LEMMA InitTyped == Init => TypeOK
<1> SUFFICES ASSUME Init PROVE TypeOK
  OBVIOUS
<1>1. NoRun \in RunRecords /\ NoBaseline \in BaselineRecords /\ Queue!NoJob \in JobRecords
      /\ Pending \in EventRecords /\ (Init => job = [r \in Runs |-> Queue!NoJob])
  BY DEF NoRun, NoBaseline, Queue!NoJob, Pending, RunRecords, BaselineRecords, JobRecords,
         EventRecords, Init, Queue!Init
<1>2. CASE FreshWatch
  BY <1>1, <1>2, IdleTyped, FreeTyped DEF Init, FreshWatch, TypeOK, WatchRecords
<1>3. CASE PlatformWatch
  <2>1. [NoRun EXCEPT !.status = "COMPLETED"] \in RunRecords
    BY DEF NoRun, RunRecords
  <2>2. [NoBaseline EXCEPT !.status = "PUBLISHED", !.sequence = 1, !.platform = TRUE]
          \in BaselineRecords
    BY DEF NoBaseline, BaselineRecords
  <2> QED
    BY <1>1, <1>3, <2>1, <2>2, IdleTyped, FreeTyped DEF Init, PlatformWatch, TypeOK, WatchRecords
<1> QED
  BY <1>2, <1>3 DEF Init

LEMMA WatchTyped ==
    ASSUME TypeOK,
           NEW status \in {"NOT_STARTED", "ANALYZING", "REVIEW_REQUIRED", "ACTIVE", "STALE", "FAILED"}
    PROVE  /\ [watch EXCEPT !.status = status] \in WatchRecords
           /\ [watch EXCEPT !.status = status, !.revision = @ + 1] \in WatchRecords
           /\ [watch EXCEPT !.revision = @ + 1] \in WatchRecords
<1>1. watch \in WatchRecords /\ watch.revision + 1 \in Nat
  BY DEF TypeOK, WatchRecords
<1>2. [watch EXCEPT !.status = status, !.revision = watch.revision + 1] \in WatchRecords
      /\ [watch EXCEPT !.revision = watch.revision + 1] \in WatchRecords
  BY <1>1 DEF WatchRecords
<1> QED
  BY <1>1, <1>2 DEF WatchRecords

LEMMA RunTyped ==
    ASSUME TypeOK, NEW r,
           NEW status \in {"QUEUED", "RUNNING", "READY_FOR_REVIEW", "COMPLETED", "SUPERSEDED", "FAILED"}
    PROVE  /\ r \in Runs => [run[r] EXCEPT !.status = status] \in RunRecords
           /\ [run EXCEPT ![r].status = status] \in [Runs -> RunRecords]
<1>1. ASSUME r \in Runs PROVE [run[r] EXCEPT !.status = status] \in RunRecords
  <2>1. run[r] \in RunRecords
    BY <1>1 DEF TypeOK
  <2> QED
    BY <2>1, Zenon DEF RunRecords
<1> QED
  BY <1>1 DEF TypeOK

LEMMA NewRunTyped ==
    ASSUME NEW base \in Runs \cup {None}, NEW trigger \in Events \cup {None}
    PROVE  [status |-> "QUEUED", base |-> base, trigger |-> trigger, reviewed |-> FALSE] \in RunRecords
<1>1. FALSE \in BOOLEAN
  OBVIOUS
<1> QED
  BY <1>1 DEF RunRecords

LEMMA RequestTyped ==
    ASSUME TypeOK, NEW q, NEW x \in RequestRecords
    PROVE  [request EXCEPT ![q] = x] \in [Requests -> RequestRecords]
BY DEF TypeOK

LEMMA SlotTyped ==
    ASSUME TypeOK, NEW w \in Workers
    PROVE  /\ worker[w] \in SlotRecords
           /\ [worker EXCEPT ![w] = Idle] \in [Workers -> SlotRecords]
BY IdleTyped DEF TypeOK

LEMMA JobTyped ==
    ASSUME TypeOK, NEW r \in Runs
    PROVE  /\ Queue!Added(job[r]) \in JobRecords
           /\ Queue!Recovered(job[r]) \in JobRecords
           /\ \A w \in Workers : /\ Queue!Taken(job[r], w) \in JobRecords
                               /\ Queue!Completed(job[r], w) \in JobRecords
                               /\ Queue!Thrown(job[r], w) \in JobRecords
<1>1. job[r] \in JobRecords
  BY DEF TypeOK
<1>2. Queue!Added(job[r]) \in JobRecords
  BY <1>1 DEF JobRecords, Queue!Added
<1>3. Queue!Recovered(job[r]) \in JobRecords
  <2>1. job[r].stalled + 1 \in Nat
    BY <1>1 DEF JobRecords
  <2> QED
    BY <1>1, <2>1 DEF JobRecords, Queue!Recovered
<1>4. ASSUME NEW w \in Workers
      PROVE  /\ Queue!Taken(job[r], w) \in JobRecords
             /\ Queue!Completed(job[r], w) \in JobRecords
             /\ Queue!Thrown(job[r], w) \in JobRecords
  <2>1. Queue!Taken(job[r], w) \in JobRecords
    BY <1>1 DEF JobRecords, Queue!Taken
  <2>2. Queue!Completed(job[r], w) \in JobRecords
    BY <1>1 DEF JobRecords, Queue!Completed
  <2>3. Queue!Thrown(job[r], w) \in JobRecords
    <3> DEFINE status == IF job[r].made + 1 < Attempts THEN "waiting" ELSE "failed"
    <3>1. status \in {"waiting", "failed"} /\ job[r].made + 1 \in Nat
      BY <1>1 DEF JobRecords
    <3>2. Queue!Thrown(job[r], w) =
            IF job[r].holder # w THEN job[r]
            ELSE [job[r] EXCEPT !.made = job[r].made + 1, !.holder = None, !.status = status]
      BY DEF Queue!Thrown
    <3> HIDE DEF status
    <3> QED
      BY <1>1, <3>1, <3>2 DEF JobRecords
  <2> QED
    BY <2>1, <2>2, <2>3
<1> QED
  BY <1>2, <1>3, <1>4

LEMMA QueueTyped ==
    ASSUME TypeOK, NEW r,
           \/ Queue!Add(r) \/ Queue!Stall(r)
           \/ \E w \in Workers : Queue!Take(r, w) \/ Queue!Complete(r, w) \/ Queue!Throw(r, w)
    PROVE  job' \in [Runs -> JobRecords]
<1>1. ASSUME NEW x, r \in Runs => x \in JobRecords
      PROVE  [job EXCEPT ![r] = x] \in [Runs -> JobRecords]
  BY <1>1 DEF TypeOK
<1>2. PICK x : job' = [job EXCEPT ![r] = x] /\ (r \in Runs => x \in JobRecords)
  BY JobTyped DEF Queue!Add, Queue!Stall, Queue!Take, Queue!Complete, Queue!Throw
<1> QED
  BY <1>1, <1>2

LEMMA GotoTyped ==
    ASSUME TypeOK, NEW w \in Workers,
           NEW pc \in {"idle", "load", "mark", "discover", "gap", "clear", "persist", "check",
                       "finish", "report", "end", "catch", "failRun", "rethrow"},
           Goto(w, pc)
    PROVE  worker' \in [Workers -> SlotRecords]
BY DEF TypeOK, SlotRecords, Goto

LEMMA RequestTypeStep ==
    ASSUME TypeOK, NEW q \in Requests, RequestStep(q)
    PROVE  TypeOK'
<1>a. request[q] \in RequestRecords /\ request[q].run \in Runs \cup {None}
      /\ request[q].base \in Runs \cup {None} /\ run \in [Runs -> RunRecords]
      /\ baseline \in [Runs -> BaselineRecords]
  BY DEF TypeOK, RequestRecords
<1>b. watch.current \in Runs \cup {None} /\ watch.revision \in Nat /\ watch.revision + 1 \in Nat
  BY DEF TypeOK, WatchRecords
<1>1. CASE StartRead(q)
  <2> PICK r \in Runs \cup {None} : request' = [request EXCEPT ![q] =
         [Free EXCEPT !.pc = "start", !.base = watch.current,
            !.run = IF r # None /\ run[r].status \in Reviewable THEN r ELSE None]]
    BY <1>1 DEF StartRead
  <2> DEFINE s == IF r # None /\ run[r].status \in Reviewable THEN r ELSE None
  <2>1. s \in Runs \cup {None}
    OBVIOUS
  <2>2. request' = [request EXCEPT ![q] =
                      [Free EXCEPT !.pc = "start", !.base = watch.current, !.run = s]]
    OBVIOUS
  <2> HIDE DEF s
  <2>3. [Free EXCEPT !.pc = "start", !.base = watch.current, !.run = s] \in RequestRecords
    BY <1>b, <2>1 DEF Free, RequestRecords
  <2> QED
    BY <1>1, <2>2, <2>3 DEF TypeOK, StartRead
<1>2. CASE StartCommit(q)
  <2> PICK r \in Runs :
         /\ run' = [s \in Runs |->
              IF s = r THEN [NoRun EXCEPT !.status = "QUEUED", !.base = request[q].base]
              ELSE IF s = request[q].run THEN [run[s] EXCEPT !.status = "SUPERSEDED"]
              ELSE run[s]]
         /\ request' = [request EXCEPT ![q] = [Free EXCEPT !.pc = "enqueue", !.run = r]]
    BY <1>2 DEF StartCommit
  <2>1. [Free EXCEPT !.pc = "enqueue", !.run = r] \in RequestRecords
    BY DEF Free, RequestRecords
  <2>2. [NoRun EXCEPT !.status = "QUEUED", !.base = request[q].base] \in RunRecords
    BY <1>a DEF NoRun, RunRecords
  <2>3. run' \in [Runs -> RunRecords]
    BY <1>a, <2>2, RunTyped
  <2> QED
    BY <1>2, <2>1, <2>3, WatchTyped DEF TypeOK, StartCommit
<1>3. CASE Enqueue(q)
  <2>1. job' \in [Runs -> JobRecords]
    BY <1>3, QueueTyped DEF Enqueue
  <2> QED
    BY <1>3, <2>1, FreeTyped DEF TypeOK, Enqueue
<1>4. CASE EnqueueFails(q)
  <2>1. request' \in [Requests -> RequestRecords]
    <3>1. [request[q] EXCEPT !.pc = "failWatch"] \in RequestRecords
      BY <1>a, Zenon DEF RequestRecords
    <3> QED
      BY <1>4, <3>1 DEF TypeOK, EnqueueFails
  <2> QED
    BY <1>4, <2>1, RunTyped DEF TypeOK, EnqueueFails
<1>5. CASE FailWatch(q)
  BY <1>5, WatchTyped, FreeTyped DEF TypeOK, FailWatch
<1>6. CASE DecideRead(q)
  <2> PICK r \in Runs, rows \in SUBSET Keys :
         request' = [request EXCEPT ![q] = [Free EXCEPT !.pc = "decide", !.run = r,
                                              !.rows = rows, !.revision = watch.revision]]
    BY <1>6 DEF DecideRead
  <2>1. [Free EXCEPT !.pc = "decide", !.run = r, !.rows = rows, !.revision = watch.revision]
          \in RequestRecords
    BY <1>b DEF Free, RequestRecords
  <2> QED
    BY <1>6, <2>1 DEF TypeOK, DecideRead
<1>7. CASE DecideCommit(q)
  <2> DEFINE r == request[q].run
  <2> PICK decided \in [request[q].rows -> Decisions] :
         candidate' = [candidate EXCEPT ![r] = [row \in Keys |->
           IF row \in request[q].rows /\ @[row] # None
           THEN [@[row] EXCEPT !.decision = decided[row], !.source = "HUMAN"] ELSE @[row]]]
    BY <1>7 DEF DecideCommit
  <2>a. request[q].rows \in SUBSET Keys
    BY <1>a DEF RequestRecords
  <2>b. candidate \in [Runs -> [Keys -> Candidates \cup {None}]]
    BY DEF TypeOK
  <2>1. candidate' \in [Runs -> [Keys -> Candidates \cup {None}]]
    <3> HIDE DEF r
    <3>1. ASSUME r \in Runs, NEW row \in Keys, row \in request[q].rows, candidate[r][row] # None
          PROVE  [candidate[r][row] EXCEPT !.decision = decided[row], !.source = "HUMAN"]
                   \in Candidates
      <4>1. decided[row] \in Decisions
        BY <3>1
      <4>2. candidate[r][row] \in Candidates
        BY <2>b, <3>1
      <4> QED
        BY <4>1, <4>2, Zenon DEF Candidates
    <3>2. CASE r \in Runs
      <4>1. ASSUME NEW row \in Keys
            PROVE  (IF row \in request[q].rows /\ candidate[r][row] # None
                    THEN [candidate[r][row] EXCEPT !.decision = decided[row], !.source = "HUMAN"]
                    ELSE candidate[r][row]) \in Candidates \cup {None}
        BY <2>b, <3>1, <3>2
      <4>2. [row \in Keys |->
               IF row \in request[q].rows /\ candidate[r][row] # None
               THEN [candidate[r][row] EXCEPT !.decision = decided[row], !.source = "HUMAN"]
               ELSE candidate[r][row]] \in [Keys -> Candidates \cup {None}]
        BY <4>1, Zenon
      <4> QED
        BY <2>b, <4>2
    <3>3. CASE r \notin Runs
      BY <2>b, <3>3
    <3> QED
      BY <3>2, <3>3
  <2> QED
    BY <1>7, <2>1, WatchTyped, FreeTyped DEF TypeOK, DecideCommit
<1>8. CASE PublishRead(q)
  <2> PICK r \in Runs, auto \in BOOLEAN :
         request' = [request EXCEPT ![q] =
           [pc |-> "publish", run |-> r, base |-> run[r].base, auto |-> auto,
            found |-> Applicable(r, auto), revision |-> watch.revision,
            rows |-> {c \in Keys : auto /\ candidate[r][c] # None
                                        /\ candidate[r][c].source # "HUMAN"}]]
    BY <1>8 DEF PublishRead
  <2> DEFINE rows == {c \in Keys : auto /\ candidate[r][c] # None
                                        /\ candidate[r][c].source # "HUMAN"}
  <2>1. Applicable(r, auto) \in SUBSET Laws /\ rows \in SUBSET Keys
        /\ run[r].base \in Runs \cup {None}
    BY <1>a DEF Applicable, RunRecords, Keys, Law
  <2> HIDE DEF rows
  <2>2. [pc |-> "publish", run |-> r, base |-> run[r].base, auto |-> auto,
         found |-> Applicable(r, auto), revision |-> watch.revision, rows |-> rows]
           \in RequestRecords
    BY <1>b, <2>1 DEF RequestRecords
  <2> QED
    BY <1>8, <2>2 DEF TypeOK, PublishRead, rows
<1>9. CASE PublishCommit(q)
  <2> DEFINE r == request[q].run
  <2>1. candidate' \in [Runs -> [Keys -> Candidates \cup {None}]]
    <3>1. ASSUME r \in Runs, NEW row \in request[q].rows
          PROVE  [candidate[r][row] EXCEPT !.decision = "APPLICABLE", !.source = "SYSTEM",
                                           !.review = FALSE] \in Candidates
      <4>1. row \in Keys /\ candidate[r][row] # None
        BY <1>9, <1>a, <3>1 DEF PublishCommit, RowsLeft, RequestRecords
      <4>2. candidate[r][row] \in Candidates
        BY <3>1, <4>1 DEF TypeOK
      <4> QED
        BY <4>2, Zenon DEF Candidates, Decisions
    <3>2. CASE r \in Runs
      <4>1. [row \in Keys |->
               IF row \in request[q].rows
               THEN [candidate[r][row] EXCEPT !.decision = "APPLICABLE", !.source = "SYSTEM",
                                              !.review = FALSE]
               ELSE candidate[r][row]] \in [Keys -> Candidates \cup {None}]
        BY <3>1, <3>2 DEF TypeOK
      <4> QED
        BY <1>9, <4>1 DEF TypeOK, PublishCommit
    <3>3. CASE r \notin Runs
      BY <1>9, <3>3 DEF TypeOK, PublishCommit
    <3> QED
      BY <3>2, <3>3
  <2>2. baseline' \in [Runs -> BaselineRecords]
    <3>1. Cardinality(Published) + 1 \in Nat
      <4>1. IsFiniteSet(Runs)
        BY BoundsAssumption, FS_Interval DEF Runs
      <4>2. IsFiniteSet(Published)
        BY <4>1, FS_Subset DEF Published
      <4> QED
        BY <4>2, FS_CardinalityType
    <3>2. [status |-> "PUBLISHED", previous |-> request[q].base,
           sequence |-> Cardinality(Published) + 1, entries |-> request[q].found,
           platform |-> FALSE] \in BaselineRecords
      BY <1>a, <3>1 DEF BaselineRecords, RequestRecords
    <3>3. \A b \in Runs : Retired(b) \in BaselineRecords
      <4> TAKE b \in Runs
      <4>1. baseline[b] \in BaselineRecords
        BY <1>a
      <4>2. [baseline[b] EXCEPT !.status = "SUPERSEDED"] \in BaselineRecords
        BY <4>1, Zenon DEF BaselineRecords
      <4> QED
        BY <4>1, <4>2 DEF Retired
    <3> QED
      BY <1>9, <3>2, <3>3 DEF PublishCommit, NextSequence
  <2>3. r \in Runs \cup {None}
    BY <1>a
  <2>4. watch' \in WatchRecords
    BY <1>9, <1>b, <2>3 DEF PublishCommit, WatchRecords
  <2> QED
    BY <1>9, <2>1, <2>2, <2>4, RunTyped, FreeTyped DEF TypeOK, PublishCommit
<1>10. CASE ClaimFails(q) \/ RequestDies(q)
  BY <1>10, FreeTyped DEF TypeOK, ClaimFails, RequestDies
<1> QED
  BY <1>1, <1>2, <1>3, <1>4, <1>5, <1>6, <1>7, <1>8, <1>9, <1>10 DEF RequestStep

LEMMA ImpactTypeStep ==
    ASSUME TypeOK, NEW e \in Events, ImpactStep(e)
    PROVE  TypeOK'
<1>a. impact[e] \in EventRecords /\ impact[e].run \in Runs \cup {None}
      /\ impact[e].base \in Runs \cup {None} /\ impact \in [Events -> EventRecords]
  BY DEF TypeOK, EventRecords
<1>b. watch.current \in Runs \cup {None}
  BY DEF TypeOK, WatchRecords
<1>1. CASE ImpactIgnored(e)
  BY <1>1, <1>a DEF TypeOK, EventRecords, ImpactIgnored
<1>2. CASE ImpactDeferred(e)
  BY <1>2, WatchTyped DEF TypeOK, ImpactDeferred
<1>3. CASE ImpactRead(e)
  <2>1. [Pending EXCEPT !.pc = "create", !.base = watch.current] \in EventRecords
    BY <1>b DEF Pending, EventRecords
  <2> QED
    BY <1>3, <2>1 DEF TypeOK, ImpactRead
<1>4. CASE ImpactCreate(e)
  <2> PICK r \in Runs :
         /\ run' = [s \in Runs |->
              IF s = r THEN [status |-> "QUEUED", base |-> impact[e].base,
                             trigger |-> e, reviewed |-> FALSE]
              ELSE IF run[s].status \in Active \cup Reviewable
                   THEN [run[s] EXCEPT !.status = "SUPERSEDED"] ELSE run[s]]
         /\ impact' = [impact EXCEPT ![e].pc = "enqueue", ![e].run = r]
    BY <1>4 DEF ImpactCreate
  <2>1. run' \in [Runs -> RunRecords]
    BY <1>a, NewRunTyped, RunTyped DEF TypeOK
  <2>2. impact' \in [Events -> EventRecords]
    BY <1>a DEF EventRecords
  <2> QED
    BY <1>4, <2>1, <2>2, WatchTyped DEF TypeOK, ImpactCreate
<1>5. CASE ImpactFound(e)
  <2> PICK r \in Runs :
         impact' = [impact EXCEPT ![e].run = r,
           ![e].pc = IF run[r].status = "COMPLETED" THEN "done" ELSE "enqueue"]
    BY <1>5 DEF ImpactFound
  <2>1. impact' \in [Events -> EventRecords]
    BY <1>a DEF EventRecords
  <2> QED
    BY <1>5, <2>1 DEF TypeOK, ImpactFound
<1>6. CASE ImpactEnqueue(e)
  <2>1. job' \in [Runs -> JobRecords]
    BY <1>6, QueueTyped DEF ImpactEnqueue
  <2>2. impact' \in [Events -> EventRecords]
    BY <1>6, <1>a DEF EventRecords, ImpactEnqueue
  <2> QED
    BY <1>6, <2>1, <2>2 DEF TypeOK, ImpactEnqueue
<1>7. CASE ImpactFails(e)
  <2>1. \A pc \in {"pending", "failed"} : [Pending EXCEPT !.pc = pc] \in EventRecords
    BY DEF Pending, EventRecords
  <2> QED
    BY <1>7, <2>1 DEF TypeOK, ImpactFails
<1> QED
  BY <1>1, <1>2, <1>3, <1>4, <1>5, <1>6, <1>7 DEF ImpactStep

LEMMA WorkerTypeStep ==
    ASSUME TypeOK, NEW w \in Workers,
           (\E r \in Runs : TakeJob(w, r)) \/ Proceed(w) \/ Throw(w) \/ Crash(w)
    PROVE  TypeOK'
<1>a. worker[w] \in SlotRecords /\ worker \in [Workers -> SlotRecords]
      /\ worker[w].run \in Runs \cup {None}
  BY DEF TypeOK, SlotRecords
<1>1. ASSUME NEW r \in Runs, TakeJob(w, r) PROVE TypeOK'
  <2>1. job[r].made + job[r].stalled + 1 \in Nat
    BY DEF TypeOK, JobRecords
  <2>2. [Idle EXCEPT !.pc = "load", !.run = r, !.delivery = job[r].made + job[r].stalled + 1]
          \in SlotRecords
    BY <2>1 DEF Idle, SlotRecords
  <2>3. job' \in [Runs -> JobRecords]
    BY <1>1, QueueTyped DEF TakeJob
  <2> QED
    BY <1>1, <2>2, <2>3 DEF TypeOK, TakeJob
<1>2. CASE LoadRun(w)
  <2>1. (IF run[worker[w].run].status \in Active THEN "mark" ELSE "end") \in {"mark", "end"}
    OBVIOUS
  <2> QED
    BY <1>2, <2>1, GotoTyped DEF TypeOK, LoadRun
<1>3. CASE MarkRunning(w)
  BY <1>3, RunTyped, GotoTyped DEF TypeOK, MarkRunning
<1>4. CASE Discover(w)
  <2>1. CASE Goto(w, "end")
    BY <1>4, <2>1, GotoTyped DEF TypeOK, Discover
  <2>2. CASE ~ Goto(w, "end")
    <3> PICK auto \in AutoModes : \E found \in Discoveries(BaseLaws(worker[w].run), auto) :
           worker' = [worker EXCEPT ![w].found = found,
             ![w].pc = IF \A l \in Laws : found[l] = None THEN "gap" ELSE "clear"]
      BY <1>4, <2>2 DEF Discover
    <3> PICK found \in Discoveries(BaseLaws(worker[w].run), auto) :
           worker' = [worker EXCEPT ![w].found = found,
             ![w].pc = IF \A l \in Laws : found[l] = None THEN "gap" ELSE "clear"]
      OBVIOUS
    <3>1. found \in [Laws -> Candidates \cup {None}]
      BY DiscoveriesTyped, AutoAssumption
    <3> DEFINE pc == IF \A l \in Laws : found[l] = None THEN "gap" ELSE "clear"
    <3>2. pc \in {"gap", "clear"}
      OBVIOUS
    <3>3. worker' = [worker EXCEPT ![w] = [@ EXCEPT !.found = found, !.pc = pc]]
      OBVIOUS
    <3> HIDE DEF pc
    <3>4. [worker[w] EXCEPT !.found = found, !.pc = pc] \in SlotRecords
      BY <1>a, <3>1, <3>2 DEF SlotRecords
    <3> QED
      BY <1>4, <1>a, <3>3, <3>4 DEF TypeOK, Discover
  <2> QED
    BY <2>1, <2>2
<1>5. CASE CoverageGap(w)
  BY <1>5, RunTyped, WatchTyped, GotoTyped DEF TypeOK, CoverageGap
<1>6. CASE ClearCandidates(w) \/ PersistCandidates(w)
  <2>1. \A row \in Keys : Law(row) \in Laws
    BY DEF Keys, Law
  <2> DEFINE r == worker[w].run
             cleared == [row \in Keys |-> None]
             persisted == [row \in Keys |->
               IF row[1] = worker[w].delivery THEN worker[w].found[Law(row)] ELSE candidate[r][row]]
  <2>2. candidate' = [candidate EXCEPT ![r] = cleared]
        \/ candidate' = [candidate EXCEPT ![r] = persisted]
    BY <1>6 DEF ClearCandidates, PersistCandidates
  <2>3. r \in Runs => /\ cleared \in [Keys -> Candidates \cup {None}]
                      /\ persisted \in [Keys -> Candidates \cup {None}]
    BY <1>a, <2>1 DEF TypeOK, SlotRecords
  <2>4. candidate' \in [Runs -> [Keys -> Candidates \cup {None}]]
    <3> HIDE DEF r, cleared, persisted
    <3> QED
      BY <2>2, <2>3 DEF TypeOK
  <2> QED
    BY <1>6, <2>4, GotoTyped DEF TypeOK, ClearCandidates, PersistCandidates
<1>7. CASE CheckCurrent(w)
  <2>1. (IF StillCurrent(worker[w].run) THEN "finish" ELSE "end") \in {"finish", "end"}
    OBVIOUS
  <2> QED
    BY <1>7, <2>1, GotoTyped DEF TypeOK, CheckCurrent
<1>8. CASE Finish(w)
  <2> DEFINE r == worker[w].run
             changed == \E l \in Laws : /\ worker[w].found[l] # None
                                        /\ worker[w].found[l].change # "UNCHANGED"
             review == run[r].base = None \/ changed
             s1 == IF review THEN "READY_FOR_REVIEW" ELSE "COMPLETED"
             s2 == IF review THEN "REVIEW_REQUIRED" ELSE "ACTIVE"
  <2>1. s1 \in {"READY_FOR_REVIEW", "COMPLETED"} /\ s2 \in {"REVIEW_REQUIRED", "ACTIVE"}
    OBVIOUS
  <2>2. run' = [run EXCEPT ![r].status = s1] /\ watch' = [watch EXCEPT !.status = s2]
    BY <1>8 DEF Finish
  <2> HIDE DEF s1, s2
  <2>3. run' \in [Runs -> RunRecords] /\ watch' \in WatchRecords
    BY <2>1, <2>2, RunTyped, WatchTyped
  <2>4. worker' \in [Workers -> SlotRecords]
    <3>1. Idle.found \in [Laws -> Candidates \cup {None}]
      BY DEF Idle
    <3>2. [worker[w] EXCEPT !.pc = "report", !.found = Idle.found] \in SlotRecords
      BY <1>a, <3>1 DEF SlotRecords
    <3>3. worker' = [worker EXCEPT ![w] = [worker[w] EXCEPT !.pc = "report", !.found = Idle.found]]
      BY <1>8 DEF Finish
    <3> QED
      BY <1>a, <3>2, <3>3
  <2> QED
    BY <1>8, <2>3, <2>4 DEF TypeOK, Finish
<1>9. CASE Report(w) \/ Throw(w)
  BY <1>9, GotoTyped DEF TypeOK, Report, Throw
<1>10. CASE EndJob(w) \/ Crash(w) \/ FailAttempt(w)
  <2>1. job' \in [Runs -> JobRecords]
    BY <1>10, QueueTyped DEF EndJob, Crash, FailAttempt, TypeOK
  <2> QED
    BY <1>10, <2>1, SlotTyped DEF TypeOK, EndJob, Crash, FailAttempt
<1>11. CASE Catch(w)
  <2>1. (IF run[worker[w].run].status = Superseded THEN "end" ELSE "failRun") \in {"end", "failRun"}
    OBVIOUS
  <2> QED
    BY <1>11, <2>1, GotoTyped DEF TypeOK, Catch
<1>12. CASE FailRun(w)
  <2> DEFINE status == IF run[worker[w].run].base = None THEN "FAILED" ELSE "STALE"
  <2>1. status \in {"FAILED", "STALE"} /\ watch' = [watch EXCEPT !.status = status]
    BY <1>12 DEF FailRun
  <2> HIDE DEF status
  <2> QED
    BY <1>12, <2>1, RunTyped, WatchTyped, GotoTyped DEF TypeOK, FailRun
<1> QED
  BY <1>1, <1>2, <1>3, <1>4, <1>5, <1>6, <1>7, <1>8, <1>9, <1>10, <1>11, <1>12
     DEF Proceed

LEMMA TypeStep == TypeOK /\ [Next]_vars => TypeOK'
<1> SUFFICES ASSUME TypeOK, [Next]_vars PROVE TypeOK'
  OBVIOUS
<1>1. ASSUME NEW r \in Runs, ReviewAnalysis(r) PROVE TypeOK'
  <2>1. [run[r] EXCEPT !.reviewed = TRUE] \in RunRecords
    <3>1. run[r] \in RunRecords
      BY DEF TypeOK
    <3> QED
      BY <3>1, Zenon DEF RunRecords
  <2>2. run' = [run EXCEPT ![r] = [run[r] EXCEPT !.reviewed = TRUE]]
    BY <1>1 DEF ReviewAnalysis
  <2> QED
    BY <1>1, <2>1, <2>2 DEF TypeOK, ReviewAnalysis
<1>2. ASSUME NEW r \in Runs, StallJob(r) PROVE TypeOK'
  <2>1. job' \in [Runs -> JobRecords]
    BY <1>2, QueueTyped DEF StallJob
  <2> QED
    BY <1>2, <2>1 DEF TypeOK, StallJob
<1>3. ASSUME NEW next \in {"COMPLETE", "STALE"}, EditProfile(next) PROVE TypeOK'
  BY <1>3, WatchTyped DEF TypeOK, EditProfile
<1>4. CASE CompleteProfile
  BY <1>4 DEF TypeOK, CompleteProfile
<1>5. CASE UNCHANGED vars
  BY <1>5 DEF TypeOK, vars
<1> QED
  BY <1>1, <1>2, <1>3, <1>4, <1>5, RequestTypeStep, ImpactTypeStep, WorkerTypeStep DEF Next

\* The rows of the watch, its runs, candidates and baselines, and all that
\* requests, slots and jobs remember of them, stay well typed
\* (regulatory-watch.service.ts, regulatory-analysis.processor.ts).
THEOREM TypeCorrect == Spec => []TypeOK
BY InitTyped, TypeStep, PTL DEF Spec

-----------------------------------------------------------------------------
(* The register: the inductive invariant.                                  *)

Numbered == \A b \in Published : baseline[b].sequence <= Cardinality(Published)

\* A baseline follows the one its run was made against, and a publication in
\* progress remembers that one, and something to publish.
FollowsRun ==
    /\ \A b \in Published : run[b].status # "none" /\ baseline[b].previous = run[b].base
    /\ \A q \in Requests : request[q].pc = "publish" =>
         /\ request[q].run \in Runs
         /\ run[request[q].run].status # "none"
         /\ request[q].base = run[request[q].run].base
         /\ request[q].found # {}

IInv == TypeOK /\ OneRegister /\ RegisterChain /\ Numbered /\ FollowsRun

LEMMA PublishedFinite == IsFiniteSet(Published) /\ Cardinality(Published) \in Nat
<1>1. IsFiniteSet(Runs)
  BY BoundsAssumption, FS_Interval DEF Runs
<1>2. IsFiniteSet(Published)
  BY <1>1, FS_Subset DEF Published
<1> QED
  BY <1>2, FS_CardinalityType

LEMMA InitInv == Init => IInv
<1> SUFFICES ASSUME Init PROVE IInv
  OBVIOUS
<1>1. \A q \in Requests : request[q].pc # "publish"
  BY DEF Init, Free
<1>2. CASE FreshWatch
  <2>1. \A b \in Runs : baseline[b].status = "none"
    BY <1>2 DEF FreshWatch, NoBaseline
  <2>2. Published = {} /\ watch.current = None
    BY <1>2, <2>1 DEF Published, FreshWatch
  <2> QED
    BY <1>1, <2>1, <2>2, InitTyped, NoneAssumption
    DEF IInv, OneRegister, RegisterChain, Numbered, FollowsRun
<1>3. CASE PlatformWatch
  <2>1. 1 \in Runs /\ watch.current = 1
    BY <1>3 DEF PlatformWatch
  <2>2. baseline[1].status = "PUBLISHED" /\ baseline[1].sequence = 1 /\ baseline[1].previous = None
        /\ \A b \in Runs \ {1} : baseline[b].status = "none"
    BY <1>3, <2>1 DEF PlatformWatch, NoBaseline
  <2>3. run[1].status = "COMPLETED" /\ run[1].base = None
    BY <1>3, <2>1 DEF PlatformWatch, NoRun
  <2>4. Published = {1}
    BY <2>1, <2>2 DEF Published
  <2>5. Cardinality(Published) = 1
    BY <2>4, FS_Singleton
  <2> QED
    BY <1>1, <2>1, <2>2, <2>3, <2>4, <2>5, InitTyped, NoneAssumption
    DEF IInv, OneRegister, RegisterChain, Numbered, FollowsRun
<1> QED
  BY <1>2, <1>3 DEF Init

\* A run keeps its base from its creation on, and never vanishes.
RunKept(r) ==
    run[r].status # "none" => run'[r].status # "none" /\ run'[r].base = run[r].base

LEMMA StatusKeepsRuns ==
    ASSUME TypeOK, NEW s, NEW status, status # "none",
           run' = [run EXCEPT ![s].status = status]
    PROVE  \A r \in Runs : RunKept(r)
BY DEF TypeOK, RunRecords, RunKept

LEMMA RunsKept == TypeOK /\ [Next]_vars => \A r \in Runs : RunKept(r)
<1> SUFFICES ASSUME TypeOK, [Next]_vars PROVE \A r \in Runs : RunKept(r)
  OBVIOUS
<1>a. run \in [Runs -> RunRecords]
  BY DEF TypeOK
<1>1. ASSUME run' = run PROVE \A r \in Runs : RunKept(r)
  BY <1>1 DEF RunKept
<1>2. ASSUME NEW q \in Requests, StartCommit(q) PROVE \A r \in Runs : RunKept(r)
  BY <1>2, <1>a DEF StartCommit, RunKept, IsNext, RunRecords
<1>3. ASSUME NEW q \in Requests, EnqueueFails(q) \/ PublishCommit(q)
      PROVE  \A r \in Runs : RunKept(r)
  BY <1>3, StatusKeepsRuns DEF EnqueueFails, PublishCommit
<1>4. ASSUME NEW q \in Requests,
             \/ StartRead(q) \/ Enqueue(q) \/ FailWatch(q) \/ DecideRead(q) \/ DecideCommit(q)
             \/ PublishRead(q) \/ ClaimFails(q) \/ RequestDies(q)
      PROVE  run' = run
  BY <1>4 DEF StartRead, Enqueue, FailWatch, DecideRead, DecideCommit, PublishRead, ClaimFails,
              RequestDies
<1>5. ASSUME NEW s \in Runs, ReviewAnalysis(s) PROVE \A r \in Runs : RunKept(r)
  BY <1>5, <1>a DEF ReviewAnalysis, RunKept, RunRecords
<1>6. ASSUME NEW e \in Events, ImpactCreate(e) PROVE \A r \in Runs : RunKept(r)
  BY <1>6, <1>a DEF ImpactCreate, RunKept, IsNext, RunRecords
<1>7. ASSUME NEW e \in Events,
             \/ ImpactIgnored(e) \/ ImpactDeferred(e) \/ ImpactRead(e) \/ ImpactFound(e)
             \/ ImpactEnqueue(e) \/ ImpactFails(e)
      PROVE  run' = run
  BY <1>7 DEF ImpactIgnored, ImpactDeferred, ImpactRead, ImpactFound, ImpactEnqueue, ImpactFails
<1>8. ASSUME NEW w \in Workers, MarkRunning(w) \/ CoverageGap(w) \/ FailRun(w)
      PROVE  \A r \in Runs : RunKept(r)
  BY <1>8, StatusKeepsRuns DEF MarkRunning, CoverageGap, FailRun
<1>9. ASSUME NEW w \in Workers, Finish(w) PROVE \A r \in Runs : RunKept(r)
  <2> PICK status \in {"READY_FOR_REVIEW", "COMPLETED"} :
         run' = [run EXCEPT ![worker[w].run].status = status]
    BY <1>9 DEF Finish
  <2> QED
    BY StatusKeepsRuns
<1>10. ASSUME NEW w \in Workers,
              \/ \E r \in Runs : TakeJob(w, r)
              \/ LoadRun(w) \/ Discover(w) \/ ClearCandidates(w) \/ PersistCandidates(w)
              \/ CheckCurrent(w) \/ Report(w) \/ EndJob(w) \/ Throw(w) \/ Catch(w)
              \/ FailAttempt(w) \/ Crash(w)
       PROVE  run' = run
  BY <1>10 DEF TakeJob, LoadRun, Discover, ClearCandidates, PersistCandidates, CheckCurrent,
               Report, EndJob, Throw, Catch, FailAttempt, Crash
<1>11. ASSUME \/ \E s \in Runs : StallJob(s)
              \/ \E next \in {"COMPLETE", "STALE"} : EditProfile(next)
              \/ CompleteProfile \/ UNCHANGED vars
       PROVE  run' = run
  BY <1>11 DEF StallJob, EditProfile, CompleteProfile, vars
<1> QED
  BY <1>1, <1>2, <1>3, <1>4, <1>5, <1>6, <1>7, <1>8, <1>9, <1>10, <1>11
     DEF Next, RequestStep, ImpactStep, Proceed

\* Only a publication touches the register.
LEMMA RegisterKept ==
    ASSUME TypeOK, [Next]_vars, ~ \E q \in Requests : PublishCommit(q)
    PROVE  baseline' = baseline /\ watch'.current = watch.current
<1>a. watch \in WatchRecords
  BY DEF TypeOK
<1>1. ASSUME NEW q \in Requests, RequestStep(q)
      PROVE  baseline' = baseline /\ watch'.current = watch.current
  BY <1>1, <1>a DEF RequestStep, WatchRecords, StartRead, StartCommit, Enqueue, EnqueueFails,
                    FailWatch, DecideRead, DecideCommit, PublishRead, ClaimFails, RequestDies
<1>2. ASSUME NEW e \in Events, ImpactStep(e)
      PROVE  baseline' = baseline /\ watch'.current = watch.current
  BY <1>2, <1>a DEF ImpactStep, WatchRecords, ImpactIgnored, ImpactDeferred, ImpactRead,
                    ImpactCreate, ImpactFound, ImpactEnqueue, ImpactFails
<1>3. ASSUME NEW w \in Workers,
             (\E r \in Runs : TakeJob(w, r)) \/ Proceed(w) \/ Throw(w) \/ Crash(w)
      PROVE  baseline' = baseline /\ watch'.current = watch.current
  BY <1>3, <1>a DEF Proceed, WatchRecords, TakeJob, LoadRun, MarkRunning, Discover, CoverageGap,
                    ClearCandidates, PersistCandidates, CheckCurrent, Finish, Report, EndJob,
                    Catch, FailRun, FailAttempt, Throw, Crash
<1>4. ASSUME \/ \E r \in Runs : ReviewAnalysis(r) \/ StallJob(r)
             \/ \E next \in {"COMPLETE", "STALE"} : EditProfile(next)
             \/ CompleteProfile \/ UNCHANGED vars
      PROVE  baseline' = baseline /\ watch'.current = watch.current
  BY <1>4, <1>a DEF WatchRecords, ReviewAnalysis, StallJob, EditProfile, CompleteProfile, vars
<1> QED
  BY <1>1, <1>2, <1>3, <1>4 DEF Next

\* A publication in progress was prepared from its run.
LEMMA RequestsFollow ==
    ASSUME IInv, [Next]_vars, NEW q \in Requests, request'[q].pc = "publish"
    PROVE  /\ request'[q].run \in Runs
           /\ run[request'[q].run].status # "none"
           /\ request'[q].base = run[request'[q].run].base
           /\ request'[q].found # {}
<1>a. request \in [Requests -> RequestRecords]
  BY DEF IInv, TypeOK
<1>1. CASE request'[q] = request[q]
  BY <1>1 DEF IInv, FollowsRun
<1>2. CASE PublishRead(q)
  BY <1>2, <1>a DEF PublishRead, Reviewable
<1>3. ASSUME NEW p \in Requests, RequestStep(p), ~ PublishRead(q)
      PROVE  request'[q] = request[q] \/ request'[q].pc # "publish"
  <2>1. CASE p # q
    BY <1>3, <1>a, <2>1 DEF RequestStep, StartRead, StartCommit, Enqueue, EnqueueFails, FailWatch,
         DecideRead, DecideCommit, PublishRead, PublishCommit, ClaimFails, RequestDies
  <2>2. CASE p = q
    <3>a. ASSUME NEW x, request' = [request EXCEPT ![q] = x], x.pc # "publish"
          PROVE  request'[q].pc # "publish"
      BY <1>a, <3>a
    <3>b. Free.pc = "idle"
      BY DEF Free
    <3>1. CASE StartRead(q)
      <4>1. PICK r \in Runs \cup {None} : request' = [request EXCEPT ![q] =
                   [Free EXCEPT !.pc = "start", !.base = watch.current,
                      !.run = IF r # None /\ run[r].status \in Reviewable THEN r ELSE None]]
        BY <3>1 DEF StartRead
      <4> QED
        BY <3>a, <4>1 DEF Free
    <3>2. CASE EnqueueFails(q)
      BY <3>2, <1>a DEF EnqueueFails, RequestRecords
    <3>3. CASE StartCommit(q)
      <4>1. PICK r \in Runs : request' = [request EXCEPT ![q] =
                                          [Free EXCEPT !.pc = "enqueue", !.run = r]]
        BY <3>3 DEF StartCommit
      <4> QED
        BY <3>a, <4>1 DEF Free
    <3>4. CASE DecideRead(q)
      <4>1. PICK r \in Runs : \E rows \in SUBSET Keys : request' = [request EXCEPT ![q] =
                   [Free EXCEPT !.pc = "decide", !.run = r, !.rows = rows,
                                !.revision = watch.revision]]
        BY <3>4 DEF DecideRead
      <4> QED
        BY <3>a, <4>1 DEF Free
    <3>5. CASE Enqueue(q) \/ FailWatch(q) \/ DecideCommit(q) \/ PublishCommit(q)
               \/ ClaimFails(q) \/ RequestDies(q)
      <4>1. request' = [request EXCEPT ![q] = Free]
        BY <3>5 DEF Enqueue, FailWatch, DecideCommit, PublishCommit, ClaimFails, RequestDies
      <4> QED
        BY <3>a, <3>b, <4>1
    <3> QED
      BY <1>3, <2>2, <3>1, <3>2, <3>3, <3>4, <3>5 DEF RequestStep
  <2> QED
    BY <2>1, <2>2
<1>4. ASSUME \/ \E e \in Events : ImpactStep(e)
             \/ \E w \in Workers : (\E r \in Runs : TakeJob(w, r)) \/ Proceed(w) \/ Throw(w) \/ Crash(w)
             \/ \E r \in Runs : ReviewAnalysis(r) \/ StallJob(r)
             \/ \E next \in {"COMPLETE", "STALE"} : EditProfile(next)
             \/ CompleteProfile \/ UNCHANGED vars
      PROVE  request' = request
  BY <1>4 DEF ImpactStep, ImpactIgnored, ImpactDeferred, ImpactRead, ImpactCreate, ImpactFound,
       ImpactEnqueue, ImpactFails, Proceed, TakeJob, LoadRun, MarkRunning, Discover, CoverageGap,
       ClearCandidates, PersistCandidates, CheckCurrent, Finish, Report, EndJob, Catch, FailRun,
       FailAttempt, Throw, Crash, ReviewAnalysis, StallJob, EditProfile, CompleteProfile, vars
<1> QED
  BY <1>1, <1>2, <1>3, <1>4 DEF Next

\* The heart of the argument.  The claim makes the run's base the current baseline,
\* so the run has not published yet: what it published would be numbered one above
\* the current baseline, that is above the number of baselines there are.
LEMMA PublishStep ==
    ASSUME IInv, NEW q \in Requests, PublishCommit(q)
    PROVE  /\ OneRegister' /\ RegisterChain' /\ Numbered'
           /\ \A b \in Published : /\ b \in Published'
                                  /\ baseline'[b].entries = baseline[b].entries
                                  /\ baseline'[b].previous = baseline[b].previous
                                  /\ baseline'[b].sequence = baseline[b].sequence
           /\ Published' = Published \cup {request[q].run}
           /\ request[q].run \in Runs \ Published
           /\ watch.current = run[request[q].run].base
           /\ watch'.current = request[q].run
           /\ baseline'[request[q].run] =
                [status |-> "PUBLISHED", previous |-> watch.current,
                 sequence |-> Cardinality(Published) + 1,
                 entries |-> request[q].found, platform |-> FALSE]
<1> DEFINE r == request[q].run
           n == Cardinality(Published)
<1>a. baseline \in [Runs -> BaselineRecords] /\ watch.current \in Runs \cup {None}
  BY DEF IInv, TypeOK, WatchRecords
<1>b. r \in Runs /\ request[q].base = run[r].base /\ watch.current = run[r].base
  BY DEF IInv, FollowsRun, PublishCommit, PublicationClaimed
<1>c. n \in Nat /\ IsFiniteSet(Published)
  BY PublishedFinite
<1>d. \A b \in Published : b \in Runs /\ baseline[b].sequence \in Nat /\ baseline[b].sequence <= n
  BY <1>a DEF IInv, Numbered, Published, BaselineRecords
<1>e. watch.current # None => watch.current \in Published /\ baseline[watch.current].sequence = n
  BY <1>a DEF IInv, OneRegister, RegisterChain, Published
<1>1. r \notin Published
  <2> SUFFICES ASSUME r \in Published PROVE FALSE
    OBVIOUS
  <2>1. baseline[r].previous = watch.current
    BY <1>b DEF IInv, FollowsRun
  <2>2. watch.current # None
    BY DEF IInv, RegisterChain
  <2>3. baseline[r].sequence = baseline[watch.current].sequence + 1
    BY <2>1, <2>2 DEF IInv, RegisterChain
  <2> QED
    BY <2>2, <2>3, <1>c, <1>d, <1>e
<1>2. watch'.current = r
  BY DEF PublishCommit
<1>3. baseline'[r] = [status |-> "PUBLISHED", previous |-> watch.current, sequence |-> n + 1,
                      entries |-> request[q].found, platform |-> FALSE]
  BY <1>b DEF PublishCommit, NextSequence
<1>4. \A b \in Runs \ {r} : baseline'[b] = Retired(b)
  BY DEF PublishCommit
<1>5. \A b \in Runs \ {r} : /\ baseline'[b].status = "none" <=> baseline[b].status = "none"
                            /\ baseline'[b].status # "PUBLISHED"
                            /\ baseline'[b].entries = baseline[b].entries
                            /\ baseline'[b].previous = baseline[b].previous
                            /\ baseline'[b].sequence = baseline[b].sequence
  BY <1>a, <1>4 DEF Retired, BaselineRecords
<1> HIDE DEF r, n
<1>6. Published' = Published \cup {r}
  BY <1>b, <1>3, <1>5 DEF Published
<1>7. Cardinality(Published') = n + 1
  BY <1>1, <1>6, <1>c, FS_AddElement DEF n
<1>8. \A b \in Published : /\ b \in Published' /\ b # r
                           /\ baseline'[b].entries = baseline[b].entries
                           /\ baseline'[b].previous = baseline[b].previous
                           /\ baseline'[b].sequence = baseline[b].sequence
  BY <1>1, <1>5, <1>6, <1>d
<1>9. OneRegister'
  BY <1>2, <1>3, <1>5 DEF OneRegister
<1>10. Numbered'
  <2>1. ASSUME NEW b \in Published' PROVE baseline'[b].sequence <= n + 1
    BY <2>1, <1>3, <1>6, <1>8, <1>c, <1>d
  <2> QED
    BY <2>1, <1>7 DEF Numbered
<1>11. RegisterChain'
  <2>1. ASSUME NEW b \in Published'
        PROVE  IF baseline'[b].previous = None THEN baseline'[b].sequence = 1
               ELSE /\ baseline'[b].previous \in Published'
                    /\ baseline'[b].sequence = baseline'[baseline'[b].previous].sequence + 1
    <3>1. CASE b \in Published
      <4>1. IF baseline[b].previous = None THEN baseline[b].sequence = 1
            ELSE /\ baseline[b].previous \in Published
                 /\ baseline[b].sequence = baseline[baseline[b].previous].sequence + 1
        BY <3>1 DEF IInv, RegisterChain
      <4> QED
        BY <3>1, <4>1, <1>8
    <3>2. CASE b = r
      <4>1. CASE watch.current = None
        <5>1. Published = {}
          BY <4>1 DEF IInv, RegisterChain
        <5>2. n = 0
          BY <5>1, FS_EmptySet DEF n
        <5> QED
          BY <3>2, <4>1, <5>2, <1>3
      <4>2. CASE watch.current # None
        BY <3>2, <4>2, <1>3, <1>e, <1>8
      <4> QED
        BY <4>1, <4>2
    <3> QED
      BY <2>1, <3>1, <3>2, <1>6
  <2>2. ASSUME NEW b \in Published', NEW c \in Published', baseline'[b].sequence = baseline'[c].sequence
        PROVE  b = c
    <3>1. \A x \in Published : baseline'[x].sequence # n + 1
      BY <1>8, <1>c, <1>d
    <3>2. \A x, y \in Published : baseline[x].sequence = baseline[y].sequence => x = y
      BY DEF IInv, RegisterChain
    <3>3. baseline'[r].sequence = n + 1
      BY <1>3
    <3> QED
      BY <2>2, <3>1, <3>2, <3>3, <1>6, <1>8
  <2>3. watch'.current # None /\ baseline'[watch'.current].sequence = Cardinality(Published')
    BY <1>2, <1>3, <1>7, <1>b, NoneAssumption
  <2> QED
    BY <2>1, <2>2, <2>3 DEF RegisterChain
<1> QED
  BY <1>1, <1>2, <1>3, <1>6, <1>8, <1>9, <1>10, <1>11, <1>b DEF r, n

LEMMA InvStep == IInv /\ [Next]_vars => IInv'
<1> SUFFICES ASSUME IInv, [Next]_vars PROVE IInv'
  OBVIOUS
<1>1. TypeOK /\ TypeOK'
  BY TypeStep DEF IInv
<1>2. \A b \in Runs : RunKept(b)
  BY <1>1, RunsKept
<1>3. ASSUME NEW q \in Requests, request'[q].pc = "publish"
      PROVE  /\ request'[q].run \in Runs
             /\ run'[request'[q].run].status # "none"
             /\ request'[q].base = run'[request'[q].run].base
             /\ request'[q].found # {}
  <2>1. /\ request'[q].run \in Runs
        /\ run[request'[q].run].status # "none"
        /\ request'[q].base = run[request'[q].run].base
        /\ request'[q].found # {}
    BY <1>3, RequestsFollow
  <2> QED
    BY <2>1, <1>2 DEF RunKept
<1>4. CASE ~ \E q \in Requests : PublishCommit(q)
  <2>1. baseline' = baseline /\ watch'.current = watch.current
    BY <1>1, <1>4, RegisterKept
  <2>2. Published' = Published
    BY <2>1 DEF Published
  <2>3. OneRegister' /\ Numbered'
    BY <2>1, <2>2 DEF IInv, OneRegister, Numbered
  <2>4. RegisterChain'
    BY <2>1, <2>2 DEF IInv, RegisterChain
  <2>5. \A b \in Published' : run'[b].status # "none" /\ baseline'[b].previous = run'[b].base
    BY <2>1, <2>2, <1>2 DEF IInv, FollowsRun, RunKept, Published
  <2> QED
    BY <1>1, <1>3, <2>3, <2>4, <2>5 DEF IInv, FollowsRun
<1>5. ASSUME NEW p \in Requests, PublishCommit(p) PROVE IInv'
  <2>1. /\ OneRegister' /\ RegisterChain' /\ Numbered'
        /\ \A b \in Published : baseline'[b].previous = baseline[b].previous
        /\ Published' = Published \cup {request[p].run}
        /\ baseline'[request[p].run].previous = run[request[p].run].base
    <3>1. baseline'[request[p].run] =
            [status |-> "PUBLISHED", previous |-> watch.current,
             sequence |-> Cardinality(Published) + 1,
             entries |-> request[p].found, platform |-> FALSE]
      BY <1>5, PublishStep
    <3>2. baseline'[request[p].run].previous = watch.current
      BY <3>1
    <3> QED
      BY <1>5, <3>2, PublishStep
  <2>2. request[p].run \in Runs /\ run[request[p].run].status # "none"
    BY <1>5 DEF IInv, FollowsRun, PublishCommit
  <2>3. ASSUME NEW b \in Published'
        PROVE  run'[b].status # "none" /\ baseline'[b].previous = run'[b].base
    <3>1. CASE b = request[p].run
      BY <3>1, <2>1, <2>2, <1>2 DEF RunKept
    <3>2. CASE b \in Published
      BY <3>2, <2>1, <1>2 DEF IInv, FollowsRun, RunKept, Published
    <3> QED
      BY <2>1, <2>3, <3>1, <3>2
  <2> QED
    BY <1>1, <1>3, <2>1, <2>3 DEF IInv, FollowsRun
<1> QED
  BY <1>4, <1>5

\* The current baseline is the published one and there is no other, whatever
\* requests and workers do meanwhile (publishWithMode in regulatory-watch.service.ts).
THEOREM RegisterUnique == Spec => []OneRegister
<1>1. IInv => OneRegister
  BY DEF IInv
<1> QED
  BY <1>1, InitInv, InvStep, PTL DEF Spec

\* The baselines of a watch are one chain that ends in the current one, numbered
\* without gap or repetition: the claim of publishWithMode compares the base.
THEOREM RegisterChained == Spec => []RegisterChain
<1>1. IInv => RegisterChain
  BY DEF IInv
<1> QED
  BY <1>1, InitInv, InvStep, PTL DEF Spec

\* No step changes what a baseline says or what it follows: a publication, the only
\* writer of baselines, updates the status of the former one.
THEOREM PublishedKept == Spec => PublishedImmutable
<1>1. ASSUME IInv, [Next]_vars, NEW b \in Published
      PROVE  /\ b \in Published'
             /\ baseline'[b].entries = baseline[b].entries
             /\ baseline'[b].previous = baseline[b].previous
             /\ baseline'[b].sequence = baseline[b].sequence
  <2>1. CASE \E q \in Requests : PublishCommit(q)
    BY <1>1, <2>1, PublishStep
  <2>2. CASE ~ \E q \in Requests : PublishCommit(q)
    <3>1. baseline' = baseline
      BY <1>1, <2>2, RegisterKept DEF IInv
    <3> QED
      BY <3>1 DEF Published
  <2> QED
    BY <2>1, <2>2
<1>2. IInv /\ [Next]_vars =>
        [\A b \in Published : /\ b \in Published'
                              /\ baseline'[b].entries = baseline[b].entries
                              /\ baseline'[b].previous = baseline[b].previous
                              /\ baseline'[b].sequence = baseline[b].sequence]_vars
  BY <1>1
<1> QED
  BY <1>2, InitInv, InvStep, PTL DEF Spec, PublishedImmutable

-----------------------------------------------------------------------------
(* The watch implements the register.                                      *)

\* The refinement mapping, by name.
Visible == [b \in Runs |->
  IF b \in Published THEN [previous |-> baseline[b].previous,
                          number   |-> baseline[b].sequence,
                          laws     |-> baseline[b].entries]
  ELSE None]

LEMMA RegisterInit == Init => Register!Init
<1> SUFFICES ASSUME Init PROVE Register!Init
  OBVIOUS
<1>1. CASE FreshWatch
  <2>1. Published = {}
    BY <1>1 DEF FreshWatch, NoBaseline, Published
  <2>2. watch.current = None
    BY <1>1 DEF FreshWatch
  <2> QED
    BY <2>1, <2>2 DEF Register!Init
<1>2. CASE PlatformWatch
  <2>1. 1 \in Runs /\ watch.current = 1
    BY <1>2 DEF PlatformWatch
  <2>2. Published = {1}
    BY <1>2, <2>1 DEF PlatformWatch, NoBaseline, Published
  <2>3. baseline[1].previous = None /\ baseline[1].sequence = 1 /\ baseline[1].entries = {}
    BY <1>2, <2>1 DEF PlatformWatch, NoBaseline
  <2> QED
    BY <2>1, <2>2, <2>3 DEF Register!Init
<1> QED
  BY <1>1, <1>2 DEF Init

LEMMA RegisterStep ==
    IInv /\ [Next]_vars => Register!Next \/ (Visible' = Visible /\ watch'.current = watch.current)
<1> SUFFICES ASSUME IInv, [Next]_vars
             PROVE  Register!Next \/ (Visible' = Visible /\ watch'.current = watch.current)
  OBVIOUS
<1>1. CASE ~ \E q \in Requests : PublishCommit(q)
  <2>1. baseline' = baseline /\ watch'.current = watch.current
    BY <1>1, RegisterKept DEF IInv
  <2> QED
    BY <2>1 DEF Visible, Published
<1>2. ASSUME NEW q \in Requests, PublishCommit(q) PROVE Register!Next
  <2> DEFINE r == request[q].run
             n == Cardinality(Published)
             new == [previous |-> watch.current, number |-> n + 1, laws |-> request[q].found]
  <2>1. /\ \A b \in Published : /\ baseline'[b].entries = baseline[b].entries
                                /\ baseline'[b].previous = baseline[b].previous
                                /\ baseline'[b].sequence = baseline[b].sequence
        /\ Published' = Published \cup {r}
        /\ r \in Runs \ Published
        /\ watch'.current = r
        /\ baseline'[r] = [status |-> "PUBLISHED", previous |-> watch.current,
                           sequence |-> n + 1, entries |-> request[q].found, platform |-> FALSE]
    BY <1>2, PublishStep
  <2>2. request[q].found \in (SUBSET Laws) \ {{}}
    <3>1. request[q].found # {}
      BY <1>2 DEF IInv, FollowsRun, PublishCommit
    <3>2. request[q] \in RequestRecords
      BY DEF IInv, TypeOK
    <3>3. request[q].found \in SUBSET Laws
      BY <3>2 DEF RequestRecords
    <3> QED
      BY <3>1, <3>3
  <2>3. IF watch.current = None THEN n = 0
        ELSE watch.current \in Published /\ baseline[watch.current].sequence = n
    <3>1. CASE watch.current = None
      BY <3>1, FS_EmptySet DEF IInv, RegisterChain
    <3>2. CASE watch.current # None
      BY <3>2 DEF IInv, TypeOK, WatchRecords, OneRegister, RegisterChain, Published
    <3> QED
      BY <3>1, <3>2
  <2>4. Visible[r] = None
    BY <2>1 DEF Visible
  <2>5. Visible' = [Visible EXCEPT ![r] = new]
    <3>1. Visible'[r] = new
      BY <2>1 DEF Visible
    <3>2. ASSUME NEW b \in Runs \ {r} PROVE Visible'[b] = Visible[b]
      BY <2>1 DEF Visible
    <3> QED
      BY <3>1, <3>2 DEF Visible
  <2>6. n = IF watch.current = None THEN 0 ELSE Visible[watch.current].number
    BY <2>3 DEF Visible, Published
  <2>7. PICK p \in Runs, laws \in (SUBSET Laws) \ {{}} : p = r /\ laws = request[q].found
    BY <2>1, <2>2
  <2>8. Register!Publish(p, laws)
    BY <2>1, <2>4, <2>5, <2>6, <2>7 DEF Register!Publish, Register!Number, Visible
  <2> QED
    BY <2>8 DEF Register!Next
<1> QED
  BY <1>1, <1>2

\* The watch implements the abstract register: with any number of requests, workers
\* and events, the register changes only by the publication of a run that has not
\* published, in succession to the register in force (publishWithMode).
THEOREM RegisterImplemented == Spec => RegisterAppendOnly
<1>1. IInv /\ [Next]_vars => [Register!Next]_<<Visible, watch.current>>
  BY RegisterStep
<1> QED
  BY <1>1, RegisterInit, InitInv, InvStep, PTL DEF Spec, RegisterAppendOnly, Register!Spec, Visible

-----------------------------------------------------------------------------
(* Analyses, their jobs and their slots.                                   *)

\* A slot at work has been given the job of its run and holds it, unless a slot has
\* lost the lock of that job.
Held ==
    \A w \in Workers : worker[w].pc # "idle" =>
      /\ worker[w].run \in Runs
      /\ job[worker[w].run].status # "none"
      /\ worker[w].run \notin overtaken =>
           job[worker[w].run].status = "active" /\ job[worker[w].run].holder = w

\* A run that was created and whose job is not added yet belongs to one request, or to
\* the event that triggered it; a run under review has a job.
Launching ==
    /\ \A q \in Requests : request[q].pc = "enqueue" =>
         /\ request[q].run \in Runs
         /\ job[request[q].run].status = "none"
         /\ run[request[q].run].status \in {"QUEUED", "SUPERSEDED"}
         /\ run[request[q].run].trigger = None
    /\ \A q, p \in Requests :
         request[q].pc = "enqueue" /\ request[p].pc = "enqueue" /\ request[q].run = request[p].run
           => q = p
    /\ \A q \in Requests : request[q].pc = "publish" =>
         request[q].run \in Runs /\ job[request[q].run].status # "none"
    /\ \A e \in Events : impact[e].pc = "enqueue" =>
         impact[e].run \in Runs /\ run[impact[e].run].trigger = e
    /\ \A r \in Runs : run[r].trigger # None /\ job[r].status = "none" => run[r].status # "FAILED"
    /\ \A r \in Runs : run[r].status = "none" => job[r].status = "none" /\ run[r].trigger = None
    /\ \A r \in Runs : run[r].status \in Reviewable => job[r].status # "none"

\* The slot w goes on with its run.
Moves(w) ==
    \/ LoadRun(w) \/ MarkRunning(w) \/ Discover(w) \/ CoverageGap(w) \/ ClearCandidates(w)
    \/ PersistCandidates(w) \/ CheckCurrent(w) \/ Finish(w) \/ Report(w) \/ Catch(w)
    \/ FailRun(w) \/ Throw(w)

\* The slot w leaves its run.
Leaves(w) == EndJob(w) \/ FailAttempt(w) \/ Crash(w)

\* The steps that touch neither slots nor jobs.
Elsewhere ==
    \/ \E q \in Requests :
         \/ StartRead(q) \/ StartCommit(q) \/ EnqueueFails(q) \/ FailWatch(q) \/ DecideRead(q)
         \/ DecideCommit(q) \/ PublishRead(q) \/ PublishCommit(q) \/ ClaimFails(q) \/ RequestDies(q)
    \/ \E r \in Runs : ReviewAnalysis(r)
    \/ \E next \in {"COMPLETE", "STALE"} : EditProfile(next)
    \/ CompleteProfile
    \/ \E e \in Events :
         \/ ImpactIgnored(e) \/ ImpactDeferred(e) \/ ImpactRead(e) \/ ImpactCreate(e)
         \/ ImpactFound(e) \/ ImpactFails(e)
    \/ UNCHANGED vars

\* The steps that add a job.
Adds ==
    (\E q \in Requests : Enqueue(q)) \/ (\E e \in Events : ImpactEnqueue(e))

LEMMA StepKinds ==
    ASSUME [Next]_vars
    PROVE  \/ Elsewhere \/ Adds
           \/ \E w \in Workers : (\E r \in Runs : TakeJob(w, r)) \/ Moves(w) \/ Leaves(w)
           \/ \E r \in Runs : StallJob(r)
BY DEF Next, RequestStep, ImpactStep, Proceed, Elsewhere, Adds, Moves, Leaves

LEMMA ElsewhereKeeps ==
    ASSUME Elsewhere PROVE worker' = worker /\ job' = job /\ overtaken' = overtaken
BY DEF Elsewhere, StartRead, StartCommit, EnqueueFails, FailWatch, DecideRead, DecideCommit,
       PublishRead, PublishCommit, ClaimFails, RequestDies, ReviewAnalysis, EditProfile,
       CompleteProfile, ImpactIgnored, ImpactDeferred, ImpactRead, ImpactCreate, ImpactFound,
       ImpactFails, vars

LEMMA MovesKeep ==
    ASSUME TypeOK, NEW w \in Workers, Moves(w)
    PROVE  /\ worker[w].pc # "idle" /\ worker'[w].run = worker[w].run
           /\ \A v \in Workers : v # w => worker'[v] = worker[v]
           /\ UNCHANGED <<job, request, impact, baseline, overtaken>>
<1>a. worker \in [Workers -> SlotRecords]
  BY DEF TypeOK
<1>1. ASSUME NEW pc, Goto(w, pc)
      PROVE  /\ worker'[w].run = worker[w].run
             /\ \A v \in Workers : v # w => worker'[v] = worker[v]
  BY <1>1, <1>a DEF Goto, SlotRecords
<1>2. CASE Discover(w)
  BY <1>2, <1>1, <1>a DEF Discover, SlotRecords
<1>3. CASE Finish(w)
  BY <1>3, <1>a DEF Finish, SlotRecords
<1>4. CASE LoadRun(w) \/ MarkRunning(w) \/ CoverageGap(w) \/ ClearCandidates(w)
           \/ PersistCandidates(w) \/ CheckCurrent(w)
  BY <1>4, <1>1 DEF LoadRun, MarkRunning, CoverageGap, ClearCandidates, PersistCandidates,
                    CheckCurrent
<1>5. CASE Report(w) \/ Catch(w) \/ FailRun(w) \/ Throw(w)
  BY <1>5, <1>1 DEF Report, Catch, FailRun, Throw
<1> QED
  BY <1>2, <1>3, <1>4, <1>5 DEF Moves

LEMMA LeavesKeep ==
    ASSUME TypeOK, NEW w \in Workers, Leaves(w)
    PROVE  /\ worker[w].pc # "idle" /\ worker'[w] = Idle
           /\ \A v \in Workers : v # w => worker'[v] = worker[v]
           /\ \A r \in Runs : r # worker[w].run => job'[r] = job[r]
           /\ \A r \in Runs : job[r].status # "none" => job'[r].status # "none"
           /\ UNCHANGED <<watch, run, candidate, baseline, request, impact, overtaken>>
<1>a. worker \in [Workers -> SlotRecords] /\ job \in [Runs -> JobRecords]
  BY DEF TypeOK
<1>1. PICK x : /\ job' = job \/ job' = [job EXCEPT ![worker[w].run] = x]
               /\ worker[w].run \in Runs /\ job[worker[w].run].status # "none" => x.status # "none"
  <2>1. CASE EndJob(w)
    <3> DEFINE x == Queue!Completed(job[worker[w].run], w)
    <3>1. job' = [job EXCEPT ![worker[w].run] = x]
      BY <2>1 DEF EndJob, Queue!Complete
    <3>2. worker[w].run \in Runs /\ job[worker[w].run].status # "none" => x.status # "none"
      BY <1>a DEF Queue!Completed, JobRecords
    <3> HIDE DEF x
    <3> QED
      BY <3>1, <3>2
  <2>2. CASE Crash(w)
    BY <2>2 DEF Crash
  <2>3. CASE FailAttempt(w)
    <3> DEFINE r == worker[w].run
               status == IF job[r].made + 1 < Attempts THEN "waiting" ELSE "failed"
    <3>1. job' = [job EXCEPT ![r] = IF job[r].holder # w THEN job[r]
                    ELSE [job[r] EXCEPT !.made = job[r].made + 1, !.holder = None,
                                        !.status = status]]
      BY <2>3 DEF FailAttempt, Queue!Throw, Queue!Thrown
    <3>2. status \in {"waiting", "failed"}
      OBVIOUS
    <3> HIDE DEF status
    <3>3. r \in Runs =>
            [job[r] EXCEPT !.made = job[r].made + 1, !.holder = None, !.status = status].status = status
      BY <1>a DEF JobRecords
    <3> QED
      BY <3>1, <3>2, <3>3
  <2> QED
    BY <2>1, <2>2, <2>3 DEF Leaves
<1>2. /\ \A r \in Runs : r # worker[w].run => job'[r] = job[r]
      /\ \A r \in Runs : job[r].status # "none" => job'[r].status # "none"
  BY <1>1, <1>a
<1>3. /\ worker[w].pc # "idle" /\ worker' = [worker EXCEPT ![w] = Idle]
      /\ UNCHANGED <<watch, run, candidate, baseline, request, impact, overtaken>>
  BY DEF Leaves, EndJob, Crash, FailAttempt
<1> QED
  BY <1>a, <1>2, <1>3

LEMMA AddsKeep ==
    ASSUME TypeOK, Launching, Adds
    PROVE  /\ UNCHANGED <<watch, run, candidate, baseline, worker, overtaken>>
           /\ \A r \in Runs : job[r].status # "none" => job'[r] = job[r]
           /\ \A r \in Runs : job'[r].status \in {job[r].status, "waiting"}
<1>a. job \in [Runs -> JobRecords]
  BY DEF TypeOK
<1>1. ASSUME NEW s, Queue!Add(s)
      PROVE  /\ \A r \in Runs : job[r].status # "none" => job'[r] = job[r]
             /\ \A r \in Runs : job'[r].status \in {job[r].status, "waiting"}
  BY <1>1, <1>a DEF Queue!Add, Queue!Added, JobRecords
<1> QED
  BY <1>1 DEF Adds, Enqueue, ImpactEnqueue

\* What a job and the mark of a lost lock become at a delivery and at a stall.
LEMMA TakesKeep ==
    ASSUME TypeOK, NEW w \in Workers, NEW r \in Runs, TakeJob(w, r)
    PROVE  /\ worker'[w].run = r /\ worker'[w].pc = "load"
           /\ job[r].status = "waiting" /\ job'[r].status = "active" /\ job'[r].holder = w
           /\ \A v \in Workers : v # w => worker'[v] = worker[v]
           /\ \A s \in Runs : s # r => job'[s] = job[s]
           /\ UNCHANGED <<watch, run, candidate, baseline, request, impact, overtaken>>
<1>a. worker \in [Workers -> SlotRecords] /\ job \in [Runs -> JobRecords]
  BY DEF TypeOK
<1> QED
  BY <1>a DEF TakeJob, Queue!Take, Queue!Taken, Idle, JobRecords

LEMMA StallKeeps ==
    ASSUME TypeOK, NEW r \in Runs, StallJob(r)
    PROVE  /\ job[r].status = "active" /\ job'[r].status \in {"waiting", "failed"}
           /\ \A s \in Runs : s # r => job'[s] = job[s]
           /\ overtaken \subseteq overtaken' /\ \A s \in overtaken' : s = r \/ s \in overtaken
           /\ r \notin overtaken' =>
                \A w \in Workers : worker[w].run = r => job[r].holder # w
           /\ UNCHANGED <<watch, run, candidate, baseline, request, worker, impact>>
<1>1. job \in [Runs -> JobRecords]
  BY DEF TypeOK
<1>2. /\ job[r].status = "active" /\ job'[r].status \in {"waiting", "failed"}
      /\ \A s \in Runs : s # r => job'[s] = job[s]
  BY <1>1 DEF StallJob, Queue!Stall, Queue!Recovered, JobRecords
<1> QED
  BY <1>2 DEF StallJob

LEMMA OvertakenStays ==
    ASSUME TypeOK, Launching, [Next]_vars
    PROVE  overtaken \subseteq overtaken'
BY StepKinds, ElsewhereKeeps, AddsKeep, TakesKeep, MovesKeep, LeavesKeep, StallKeeps

LEMMA HeldStep ==
    ASSUME TypeOK, Held, Launching, [Next]_vars
    PROVE  Held'
<1>1. CASE Elsewhere
  BY <1>1, ElsewhereKeeps DEF Held
<1>2. CASE Adds
  BY <1>2, AddsKeep DEF Held
<1>3. ASSUME NEW w \in Workers, NEW r \in Runs, TakeJob(w, r) PROVE Held'
  <2> SUFFICES ASSUME NEW v \in Workers, worker'[v].pc # "idle"
               PROVE  /\ worker'[v].run \in Runs
                      /\ job'[worker'[v].run].status # "none"
                      /\ worker'[v].run \notin overtaken' =>
                           job'[worker'[v].run].status = "active" /\ job'[worker'[v].run].holder = v
    BY DEF Held
  <2>1. CASE v = w
    BY <1>3, <2>1, TakesKeep
  <2>2. CASE v # w
    <3>1. worker'[v] = worker[v] /\ overtaken' = overtaken /\ job'[r].status = "active"
          /\ job[r].status = "waiting"
      BY <1>3, <2>2, TakesKeep
    <3>2. worker[v].run # r => job'[worker[v].run] = job[worker[v].run]
      BY <1>3, <3>1, TakesKeep DEF Held
    <3> QED
      BY <3>1, <3>2 DEF Held
  <2> QED
    BY <2>1, <2>2
<1>4. ASSUME NEW w \in Workers, Moves(w) PROVE Held'
  BY <1>4, MovesKeep DEF Held
<1>5. ASSUME NEW w \in Workers, Leaves(w) PROVE Held'
  <2> SUFFICES ASSUME NEW v \in Workers, worker'[v].pc # "idle"
               PROVE  /\ worker'[v].run \in Runs
                      /\ job'[worker'[v].run].status # "none"
                      /\ worker'[v].run \notin overtaken' =>
                           job'[worker'[v].run].status = "active" /\ job'[worker'[v].run].holder = v
    BY DEF Held
  <2>1. v # w /\ worker'[v] = worker[v] /\ worker[w].pc # "idle" /\ overtaken' = overtaken
    BY <1>5, LeavesKeep DEF Idle
  <2>2. worker[v].run \in Runs /\ job[worker[v].run].status # "none"
    BY <2>1 DEF Held
  <2>3. worker[v].run \notin overtaken => worker[v].run # worker[w].run
    BY <2>1 DEF Held
  <2> QED
    BY <1>5, <2>1, <2>2, <2>3, LeavesKeep DEF Held
<1>6. ASSUME NEW r \in Runs, StallJob(r) PROVE Held'
  <2> SUFFICES ASSUME NEW v \in Workers, worker'[v].pc # "idle"
               PROVE  /\ worker'[v].run \in Runs
                      /\ job'[worker'[v].run].status # "none"
                      /\ worker'[v].run \notin overtaken' =>
                           job'[worker'[v].run].status = "active" /\ job'[worker'[v].run].holder = v
    BY DEF Held
  <2>1. worker'[v] = worker[v] /\ overtaken \subseteq overtaken'
    BY <1>6, StallKeeps
  <2>2. CASE worker[v].run = r
    BY <1>6, <2>1, <2>2, StallKeeps DEF Held
  <2>3. CASE worker[v].run # r
    <3>1. worker[v].run \in Runs
      BY <2>1 DEF Held
    <3> QED
      BY <1>6, <2>1, <2>3, <3>1, StallKeeps DEF Held
  <2> QED
    BY <2>2, <2>3
<1> QED
  BY <1>1, <1>2, <1>3, <1>4, <1>5, <1>6, StepKinds

\* How the status of a run moves, and who moves it.
RunStarts(r) == run[r].status = "none" /\ run'[r].status = "QUEUED"
RunStays(r)  == run'[r].status = run[r].status /\ run'[r].trigger = run[r].trigger
RunBecomes(r, statuses) == run'[r].status \in statuses /\ run'[r].trigger = run[r].trigger

LEMMA StatusMoves ==
    ASSUME TypeOK, NEW s, NEW status, run' = [run EXCEPT ![s].status = status], NEW r \in Runs
    PROVE  RunStays(r) \/ (r = s /\ RunBecomes(r, {status}))
BY DEF TypeOK, RunRecords, RunStays, RunBecomes

LEMMA RunMoves ==
    ASSUME TypeOK, [Next]_vars, NEW r \in Runs
    PROVE  \/ RunStays(r)
           \/ (\E q \in Requests : StartCommit(q)) /\ RunStarts(r) /\ run'[r].trigger = None
           \/ \E e \in Events : ImpactCreate(e) /\ RunStarts(r) /\ run'[r].trigger = e
           \/ /\ (\E q \in Requests : StartCommit(q)) \/ (\E e \in Events : ImpactCreate(e))
              /\ RunBecomes(r, {"SUPERSEDED"})
           \/ \E q \in Requests : EnqueueFails(q) /\ request[q].run = r /\ RunBecomes(r, {"FAILED"})
           \/ \E q \in Requests : PublishCommit(q) /\ request[q].run = r /\ RunBecomes(r, {"COMPLETED"})
           \/ \E w \in Workers : /\ Moves(w) /\ worker[w].run = r
                                 /\ RunBecomes(r, {"RUNNING", "READY_FOR_REVIEW", "COMPLETED", "FAILED"})
<1>a. run \in [Runs -> RunRecords]
  BY DEF TypeOK
<1>1. ASSUME NEW q \in Requests, StartCommit(q)
      PROVE  RunStays(r) \/ (RunStarts(r) /\ run'[r].trigger = None) \/ RunBecomes(r, {"SUPERSEDED"})
  BY <1>1, <1>a DEF StartCommit, RunStays, RunStarts, RunBecomes, IsNext, RunRecords, NoRun
<1>2. ASSUME NEW e \in Events, ImpactCreate(e)
      PROVE  RunStays(r) \/ (RunStarts(r) /\ run'[r].trigger = e) \/ RunBecomes(r, {"SUPERSEDED"})
  BY <1>2, <1>a DEF ImpactCreate, RunStays, RunStarts, RunBecomes, IsNext, RunRecords
<1>3. ASSUME NEW q \in Requests, EnqueueFails(q)
      PROVE  RunStays(r) \/ (request[q].run = r /\ RunBecomes(r, {"FAILED"}))
  BY <1>3, StatusMoves DEF EnqueueFails
<1>4. ASSUME NEW q \in Requests, PublishCommit(q)
      PROVE  RunStays(r) \/ (request[q].run = r /\ RunBecomes(r, {"COMPLETED"}))
  BY <1>4, StatusMoves DEF PublishCommit
<1>5. ASSUME NEW w \in Workers, MarkRunning(w) \/ CoverageGap(w) \/ FailRun(w) \/ Finish(w)
      PROVE  RunStays(r) \/ /\ worker[w].run = r
                            /\ RunBecomes(r, {"RUNNING", "READY_FOR_REVIEW", "COMPLETED", "FAILED"})
  <2>1. PICK status \in {"RUNNING", "READY_FOR_REVIEW", "COMPLETED", "FAILED"} :
          run' = [run EXCEPT ![worker[w].run].status = status]
    BY <1>5 DEF MarkRunning, CoverageGap, FailRun, Finish
  <2> QED
    BY <2>1, StatusMoves DEF RunBecomes
<1>6. ASSUME NEW s \in Runs, ReviewAnalysis(s) PROVE RunStays(r)
  BY <1>6, <1>a DEF ReviewAnalysis, RunStays, RunRecords
<1>7. ASSUME run' = run PROVE RunStays(r)
  BY <1>7 DEF RunStays
<1>8. ASSUME \/ \E q \in Requests :
                  \/ StartRead(q) \/ Enqueue(q) \/ FailWatch(q) \/ DecideRead(q) \/ DecideCommit(q)
                  \/ PublishRead(q) \/ ClaimFails(q) \/ RequestDies(q)
             \/ \E e \in Events :
                  \/ ImpactIgnored(e) \/ ImpactDeferred(e) \/ ImpactRead(e) \/ ImpactFound(e)
                  \/ ImpactEnqueue(e) \/ ImpactFails(e)
             \/ \E s \in Runs : StallJob(s)
             \/ \E next \in {"COMPLETE", "STALE"} : EditProfile(next)
             \/ CompleteProfile \/ UNCHANGED vars
      PROVE  run' = run
  BY <1>8 DEF StartRead, Enqueue, FailWatch, DecideRead, DecideCommit, PublishRead, ClaimFails,
              RequestDies, ImpactIgnored, ImpactDeferred, ImpactRead, ImpactFound, ImpactEnqueue,
              ImpactFails, StallJob, EditProfile, CompleteProfile, vars
<1>9. ASSUME NEW w \in Workers,
             \/ \E s \in Runs : TakeJob(w, s)
             \/ LoadRun(w) \/ Discover(w) \/ ClearCandidates(w) \/ PersistCandidates(w)
             \/ CheckCurrent(w) \/ Report(w) \/ EndJob(w) \/ Throw(w) \/ Catch(w)
             \/ FailAttempt(w) \/ Crash(w)
      PROVE  run' = run
  BY <1>9 DEF TakeJob, LoadRun, Discover, ClearCandidates, PersistCandidates, CheckCurrent,
              Report, EndJob, Throw, Catch, FailAttempt, Crash
<1> QED
  BY <1>1, <1>2, <1>3, <1>4, <1>5, <1>6, <1>7, <1>8, <1>9
     DEF Next, RequestStep, ImpactStep, Proceed, Moves

LEMMA JobsMove ==
    ASSUME TypeOK, Held, Launching, [Next]_vars, NEW r \in Runs
    PROVE  /\ job[r].status # "none" => job'[r].status # "none"
           /\ job[r].status = "none" =>
                \/ job'[r] = job[r]
                \/ \E q \in Requests : Enqueue(q) /\ request[q].run = r
                \/ \E e \in Events : ImpactEnqueue(e) /\ impact[e].run = r
<1>a. job \in [Runs -> JobRecords]
  BY DEF TypeOK
<1>1. CASE Elsewhere
  BY <1>1, ElsewhereKeeps
<1>2. CASE Adds
  <2>1. ASSUME NEW q \in Requests, Enqueue(q), request[q].run # r PROVE job'[r] = job[r]
    BY <2>1, <1>a DEF Enqueue, Queue!Add
  <2>2. ASSUME NEW e \in Events, ImpactEnqueue(e), impact[e].run # r PROVE job'[r] = job[r]
    BY <2>2, <1>a DEF ImpactEnqueue, Queue!Add
  <2> QED
    BY <1>2, <2>1, <2>2, AddsKeep DEF Adds
<1>3. ASSUME NEW w \in Workers, NEW s \in Runs, TakeJob(w, s)
      PROVE  /\ job[r].status # "none" => job'[r].status # "none"
             /\ job[r].status = "none" => job'[r] = job[r]
  BY <1>3, TakesKeep
<1>4. ASSUME NEW w \in Workers, Moves(w) PROVE job' = job
  BY <1>4, MovesKeep
<1>5. ASSUME NEW w \in Workers, Leaves(w)
      PROVE  /\ job[r].status # "none" => job'[r].status # "none"
             /\ job[r].status = "none" => job'[r] = job[r]
  BY <1>5, LeavesKeep DEF Held
<1>6. ASSUME NEW s \in Runs, StallJob(s)
      PROVE  /\ job[r].status # "none" => job'[r].status # "none"
             /\ job[r].status = "none" => job'[r] = job[r]
  BY <1>6, StallKeeps
<1> QED
  BY <1>1, <1>2, <1>3, <1>4, <1>5, <1>6, StepKinds

\* How a request moves.
LEMMA RequestMoves ==
    ASSUME TypeOK, [Next]_vars, NEW q \in Requests
    PROVE  \/ request'[q] = request[q]
           \/ request'[q].pc \in {"idle", "failWatch"}
           \/ StartRead(q) /\ request'[q].pc = "start" /\ request'[q].base = watch.current
           \/ /\ StartCommit(q) /\ request'[q].pc = "enqueue"
              /\ request'[q].run \in Runs /\ RunStarts(request'[q].run)
              /\ run'[request'[q].run].trigger = None
              /\ \A p \in Requests : p # q => request'[p] = request[p]
           \/ /\ DecideRead(q) /\ request'[q].pc = "decide" /\ request'[q].run \in Runs
              /\ run[request'[q].run].status \in Reviewable
              /\ request'[q].revision = watch.revision
           \/ /\ PublishRead(q) /\ request'[q].pc = "publish" /\ request'[q].run \in Runs
              /\ run[request'[q].run].status \in Reviewable
              /\ request'[q].revision = watch.revision
<1>a. request \in [Requests -> RequestRecords] /\ run \in [Runs -> RunRecords]
  BY DEF TypeOK
<1>1. ASSUME NEW p \in Requests, RequestStep(p), p # q PROVE request'[q] = request[q]
  BY <1>1, <1>a DEF RequestStep, StartRead, StartCommit, Enqueue, EnqueueFails, FailWatch,
       DecideRead, DecideCommit, PublishRead, PublishCommit, ClaimFails, RequestDies
<1>2. CASE StartRead(q)
  <2>1. PICK r \in Runs \cup {None} : request' = [request EXCEPT ![q] =
               [Free EXCEPT !.pc = "start", !.base = watch.current,
                  !.run = IF r # None /\ run[r].status \in Reviewable THEN r ELSE None]]
    BY <1>2 DEF StartRead
  <2> DEFINE s == IF r # None /\ run[r].status \in Reviewable THEN r ELSE None
             x == [Free EXCEPT !.pc = "start", !.base = watch.current, !.run = s]
  <2>2. request' = [request EXCEPT ![q] = x]
    BY <2>1
  <2> HIDE DEF s
  <2>3. x.pc = "start" /\ x.base = watch.current
    BY DEF Free
  <2> HIDE DEF x
  <2> QED
    BY <1>2, <1>a, <2>2, <2>3
<1>3. CASE StartCommit(q)
  <2>1. PICK r \in Runs :
          /\ IsNext(r)
          /\ run' = [s \in Runs |->
               IF s = r THEN [NoRun EXCEPT !.status = "QUEUED", !.base = request[q].base]
               ELSE IF s = request[q].run THEN [run[s] EXCEPT !.status = "SUPERSEDED"]
               ELSE run[s]]
          /\ request' = [request EXCEPT ![q] = [Free EXCEPT !.pc = "enqueue", !.run = r]]
    BY <1>3 DEF StartCommit
  <2>2. request'[q].pc = "enqueue" /\ request'[q].run = r
        /\ \A p \in Requests : p # q => request'[p] = request[p]
    BY <2>1, <1>a DEF Free
  <2>3. RunStarts(r) /\ run'[r].trigger = None
    BY <2>1 DEF RunStarts, IsNext, NoRun
  <2> QED
    BY <1>3, <2>2, <2>3
<1>4. CASE EnqueueFails(q)
  BY <1>4, <1>a DEF EnqueueFails, RequestRecords
<1>5. CASE DecideRead(q)
  <2>1. PICK r \in Runs : \E rows \in SUBSET Keys :
          /\ run[r].status \in Reviewable
          /\ request' = [request EXCEPT ![q] = [Free EXCEPT !.pc = "decide", !.run = r,
                                                 !.rows = rows, !.revision = watch.revision]]
    BY <1>5 DEF DecideRead
  <2> QED
    BY <1>5, <1>a, <2>1 DEF Free
<1>6. CASE PublishRead(q)
  <2>1. PICK r \in Runs, auto \in BOOLEAN :
          /\ run[r].status \in Reviewable
          /\ request' = [request EXCEPT ![q] =
               [pc |-> "publish", run |-> r, base |-> run[r].base, auto |-> auto,
                found |-> Applicable(r, auto), revision |-> watch.revision,
                rows |-> {c \in Keys : auto /\ candidate[r][c] # None
                                            /\ candidate[r][c].source # "HUMAN"}]]
    BY <1>6 DEF PublishRead
  <2> QED
    BY <1>6, <1>a, <2>1
<1>7. CASE Enqueue(q) \/ FailWatch(q) \/ DecideCommit(q) \/ PublishCommit(q) \/ ClaimFails(q)
           \/ RequestDies(q)
  <2>1. request' = [request EXCEPT ![q] = Free]
    BY <1>7 DEF Enqueue, FailWatch, DecideCommit, PublishCommit, ClaimFails, RequestDies
  <2>2. Free.pc = "idle"
    BY DEF Free
  <2> QED
    BY <1>a, <2>1, <2>2
<1>8. ASSUME \/ \E e \in Events : ImpactStep(e)
             \/ \E w \in Workers : (\E r \in Runs : TakeJob(w, r)) \/ Proceed(w) \/ Throw(w) \/ Crash(w)
             \/ \E r \in Runs : ReviewAnalysis(r) \/ StallJob(r)
             \/ \E next \in {"COMPLETE", "STALE"} : EditProfile(next)
             \/ CompleteProfile \/ UNCHANGED vars
      PROVE  request' = request
  BY <1>8 DEF ImpactStep, ImpactIgnored, ImpactDeferred, ImpactRead, ImpactCreate, ImpactFound,
       ImpactEnqueue, ImpactFails, Proceed, TakeJob, LoadRun, MarkRunning, Discover, CoverageGap,
       ClearCandidates, PersistCandidates, CheckCurrent, Finish, Report, EndJob, Catch, FailRun,
       FailAttempt, Throw, Crash, ReviewAnalysis, StallJob, EditProfile, CompleteProfile, vars
<1> QED
  BY <1>1, <1>2, <1>3, <1>4, <1>5, <1>6, <1>7, <1>8 DEF Next, RequestStep

\* How the impact worker's handling of an event moves.
LEMMA ImpactMoves ==
    ASSUME TypeOK, [Next]_vars, NEW e \in Events
    PROVE  \/ impact'[e] = impact[e]
           \/ impact'[e].pc \in {"pending", "done", "failed"}
           \/ ImpactRead(e) /\ impact'[e].pc = "create" /\ impact'[e].base = watch.current
           \/ /\ ImpactCreate(e) \/ ImpactFound(e)
              /\ impact'[e].run \in Runs /\ run'[impact'[e].run].trigger = e
<1>a. impact \in [Events -> EventRecords] /\ run \in [Runs -> RunRecords]
  BY DEF TypeOK
<1>1. ASSUME NEW f \in Events, ImpactStep(f), f # e PROVE impact'[e] = impact[e]
  BY <1>1, <1>a DEF ImpactStep, ImpactIgnored, ImpactDeferred, ImpactRead, ImpactCreate,
       ImpactFound, ImpactEnqueue, ImpactFails
<1>2. CASE ImpactCreate(e)
  <2>1. PICK r \in Runs :
          /\ run' = [s \in Runs |->
               IF s = r THEN [status |-> "QUEUED", base |-> impact[e].base,
                              trigger |-> e, reviewed |-> FALSE]
               ELSE IF run[s].status \in Active \cup Reviewable
                    THEN [run[s] EXCEPT !.status = "SUPERSEDED"] ELSE run[s]]
          /\ impact' = [impact EXCEPT ![e].pc = "enqueue", ![e].run = r]
    BY <1>2 DEF ImpactCreate
  <2>2. impact'[e].run = r
    BY <2>1, <1>a DEF EventRecords
  <2>3. run'[r].trigger = e
    BY <2>1
  <2> QED
    BY <1>2, <2>2, <2>3
<1>3. CASE ImpactFound(e)
  <2>1. PICK r \in Runs :
          /\ run[r].trigger = e
          /\ impact' = [impact EXCEPT ![e].run = r,
               ![e].pc = IF run[r].status = "COMPLETED" THEN "done" ELSE "enqueue"]
    BY <1>3 DEF ImpactFound
  <2>2. impact'[e].run = r
    BY <2>1, <1>a DEF EventRecords
  <2> QED
    BY <1>3, <2>1, <2>2 DEF ImpactFound
<1>4. CASE ImpactRead(e)
  BY <1>4, <1>a DEF ImpactRead, Pending
<1>5. CASE ImpactIgnored(e) \/ ImpactDeferred(e) \/ ImpactEnqueue(e) \/ ImpactFails(e)
  BY <1>5, <1>a DEF ImpactIgnored, ImpactDeferred, ImpactEnqueue, ImpactFails, Pending, EventRecords
<1>6. ASSUME \/ \E q \in Requests : RequestStep(q)
             \/ \E w \in Workers : (\E r \in Runs : TakeJob(w, r)) \/ Proceed(w) \/ Throw(w) \/ Crash(w)
             \/ \E r \in Runs : ReviewAnalysis(r) \/ StallJob(r)
             \/ \E next \in {"COMPLETE", "STALE"} : EditProfile(next)
             \/ CompleteProfile \/ UNCHANGED vars
      PROVE  impact' = impact
  BY <1>6 DEF RequestStep, StartRead, StartCommit, Enqueue, EnqueueFails, FailWatch,
       DecideRead, DecideCommit, PublishRead, PublishCommit, ClaimFails, RequestDies,
       Proceed, TakeJob, LoadRun, MarkRunning, Discover, CoverageGap,
       ClearCandidates, PersistCandidates, CheckCurrent, Finish, Report, EndJob, Catch, FailRun,
       FailAttempt, Throw, Crash, ReviewAnalysis, StallJob, EditProfile, CompleteProfile, vars
<1> QED
  BY <1>1, <1>2, <1>3, <1>4, <1>5, <1>6 DEF Next, ImpactStep

LEMMA LaunchingStep ==
    ASSUME TypeOK, Held, Launching, [Next]_vars
    PROVE  Launching'
<1>r. \A r \in Runs : RunStays(r) \/ RunStarts(r) \/ RunBecomes(r, {"SUPERSEDED", "RUNNING",
                        "READY_FOR_REVIEW", "COMPLETED", "FAILED"})
  BY RunMoves DEF RunBecomes
<1>t. ASSUME NEW r \in Runs, run[r].status # "none" PROVE run'[r].trigger = run[r].trigger
  BY <1>t, <1>r DEF RunStays, RunStarts, RunBecomes
<1>j. \A r \in Runs : job[r].status # "none" => job'[r].status # "none"
  BY JobsMove
<1>1. ASSUME NEW q \in Requests, request'[q].pc = "enqueue"
      PROVE  /\ request'[q].run \in Runs
             /\ job'[request'[q].run].status = "none"
             /\ run'[request'[q].run].status \in {"QUEUED", "SUPERSEDED"}
             /\ run'[request'[q].run].trigger = None
  <2>1. CASE request'[q] = request[q]
    <3> DEFINE r == request[q].run
    <3>1. /\ r \in Runs /\ job[r].status = "none" /\ run[r].status \in {"QUEUED", "SUPERSEDED"}
          /\ run[r].trigger = None /\ request[q].pc = "enqueue"
      BY <1>1, <2>1 DEF Launching
    <3>2. ASSUME NEW p \in Requests, Enqueue(p) \/ EnqueueFails(p) PROVE request[p].run # r
      <4>1. request \in [Requests -> RequestRecords] /\ request[p].pc = "enqueue" /\ request'[p].pc # "enqueue"
        BY <3>2 DEF TypeOK, RequestRecords, Enqueue, EnqueueFails, Free
      <4>2. p # q
        BY <1>1, <4>1
      <4> QED
        BY <3>1, <4>1, <4>2 DEF Launching
    <3>3. ASSUME NEW e \in Events, ImpactEnqueue(e) PROVE impact[e].run # r
      BY <3>1, <3>3, NoneAssumption DEF Launching, ImpactEnqueue
    <3>4. job'[r] = job[r]
      BY <3>1, <3>2, <3>3, JobsMove
    <3>5. ASSUME NEW p \in Requests, PublishCommit(p) PROVE request[p].run # r
      BY <3>1, <3>5 DEF Launching, PublishCommit
    <3>6. ASSUME NEW w \in Workers, Moves(w) PROVE worker[w].run # r
      BY <3>1, <3>6, MovesKeep DEF Held
    <3>7. RunStays(r) \/ RunBecomes(r, {"SUPERSEDED"})
      BY <3>1, <3>2, <3>5, <3>6, RunMoves DEF RunStarts
    <3> QED
      BY <2>1, <3>1, <3>4, <3>7 DEF RunStays, RunBecomes
  <2>2. CASE /\ StartCommit(q) /\ request'[q].run \in Runs /\ RunStarts(request'[q].run)
             /\ run'[request'[q].run].trigger = None
    <3>1. job' = job
      BY <2>2 DEF StartCommit
    <3> QED
      BY <2>2, <3>1 DEF RunStarts, Launching
  <2> QED
    BY <1>1, <2>1, <2>2, RequestMoves
<1>2. ASSUME NEW q \in Requests, NEW p \in Requests, request'[q].pc = "enqueue",
             request'[p].pc = "enqueue", request'[q].run = request'[p].run
      PROVE  q = p
  <2>1. ASSUME NEW x \in Requests, NEW y \in Requests, x # y, request'[x].pc = "enqueue",
               request'[y].pc = "enqueue", request'[x].run = request'[y].run,
               request'[x] # request[x]
        PROVE  FALSE
    <3>1. /\ RunStarts(request'[x].run) /\ request'[y] = request[y]
      BY <2>1, RequestMoves
    <3> QED
      BY <2>1, <3>1 DEF Launching, RunStarts
  <2> QED
    BY <1>2, <2>1 DEF Launching
<1>3. ASSUME NEW q \in Requests, request'[q].pc = "publish"
      PROVE  request'[q].run \in Runs /\ job'[request'[q].run].status # "none"
  <2>1. CASE request'[q] = request[q]
    BY <1>3, <1>j, <2>1 DEF Launching
  <2>2. CASE request'[q].run \in Runs /\ run[request'[q].run].status \in Reviewable
    BY <2>2, <1>j DEF Launching
  <2> QED
    BY <1>3, <2>1, <2>2, RequestMoves
<1>4. ASSUME NEW e \in Events, impact'[e].pc = "enqueue"
      PROVE  impact'[e].run \in Runs /\ run'[impact'[e].run].trigger = e
  <2>1. CASE impact'[e] = impact[e]
    <3>1. impact[e].run \in Runs /\ run[impact[e].run].trigger = e
      BY <1>4, <2>1 DEF Launching
    <3>2. run[impact[e].run].status # "none"
      BY <3>1, NoneAssumption DEF Launching
    <3> QED
      BY <2>1, <3>1, <3>2, <1>t
  <2> QED
    BY <1>4, <2>1, ImpactMoves
<1>5. ASSUME NEW r \in Runs, run'[r].trigger # None, job'[r].status = "none"
      PROVE  run'[r].status # "FAILED"
  <2>1. job[r].status = "none"
    BY <1>5, <1>j
  <2>2. ASSUME NEW w \in Workers, Moves(w) PROVE worker[w].run # r
    BY <2>1, <2>2, MovesKeep DEF Held
  <2>3. ASSUME NEW q \in Requests, EnqueueFails(q), request[q].run = r PROVE run[r].trigger = None
    BY <2>3 DEF Launching, EnqueueFails
  <2>4. \/ RunStays(r) \/ RunStarts(r) \/ RunBecomes(r, {"SUPERSEDED", "COMPLETED"})
        \/ RunBecomes(r, {"FAILED"}) /\ run[r].trigger = None
    BY <2>2, <2>3, RunMoves DEF RunBecomes
  <2> QED
    BY <1>5, <2>1, <2>4 DEF RunStays, RunStarts, RunBecomes, Launching
<1>6. ASSUME NEW r \in Runs, run'[r].status = "none"
      PROVE  job'[r].status = "none" /\ run'[r].trigger = None
  <2>1. RunStays(r)
    BY <1>6, <1>r DEF RunStarts, RunBecomes
  <2>2. run[r].status = "none" /\ job[r].status = "none" /\ run[r].trigger = None
    BY <1>6, <2>1 DEF RunStays, Launching
  <2>3. job'[r] = job[r]
    <3>1. ASSUME NEW q \in Requests, Enqueue(q) PROVE request[q].run # r
      BY <2>2, <3>1 DEF Launching, Enqueue
    <3>2. ASSUME NEW e \in Events, ImpactEnqueue(e) PROVE impact[e].run # r
      BY <2>2, <3>2, NoneAssumption DEF Launching, ImpactEnqueue
    <3> QED
      BY <2>2, <3>1, <3>2, JobsMove
  <2> QED
    BY <2>1, <2>2, <2>3 DEF RunStays
<1>7. ASSUME NEW r \in Runs, run'[r].status \in Reviewable
      PROVE  job'[r].status # "none"
  <2>1. ASSUME NEW w \in Workers, Moves(w), worker[w].run = r PROVE job[r].status # "none"
    BY <2>1, MovesKeep DEF Held
  <2>2. RunStays(r) \/ job[r].status # "none"
    BY <1>7, <2>1, RunMoves DEF RunStarts, RunBecomes, Reviewable
  <2> QED
    BY <1>7, <2>2, <1>j DEF RunStays, Launching
<1> QED
  BY <1>1, <1>2, <1>3, <1>4, <1>5, <1>6, <1>7 DEF Launching

-----------------------------------------------------------------------------
(* Runs that have been analysed stay so.                                   *)

Working == {"mark", "discover", "gap", "clear", "persist", "check", "finish"}

\* The analysis of the run is over, and no slot will write its candidates again.
Settled(r) ==
    /\ run[r].status \notin Active \cup {"none"}
    /\ \A w \in Workers : worker[w].pc \in Working => worker[w].run # r

\* So it is for a run under review, decided, published or superseded after that, as
\* long as no slot loses the lock of its job.
Reviewed ==
    /\ \A r \in Runs \ overtaken : run[r].status \in Reviewable => Settled(r)
    /\ \A r \in Published \ overtaken : Settled(r) /\ run[r].status \notin Reviewable
    /\ \A q \in Requests : request[q].pc \in {"decide", "publish"} =>
         /\ request[q].run \in Runs
         /\ request[q].run \notin overtaken => Settled(request[q].run)

LEMMA MovesWork ==
    ASSUME TypeOK, NEW w \in Workers, Moves(w), worker[w].pc \notin Working
    PROVE  /\ candidate' = candidate
           /\ run' = run \/ FailRun(w)
           /\ worker'[w].pc \in Working => run[worker[w].run].status \in Active
<1>a. worker \in [Workers -> SlotRecords]
  BY DEF TypeOK
<1>1. CASE LoadRun(w)
  BY <1>1, <1>a DEF LoadRun, Goto, Working, SlotRecords
<1>2. CASE MarkRunning(w) \/ Discover(w) \/ CoverageGap(w) \/ ClearCandidates(w)
           \/ PersistCandidates(w) \/ CheckCurrent(w) \/ Finish(w)
  BY <1>2 DEF MarkRunning, Discover, CoverageGap, ClearCandidates, PersistCandidates,
              CheckCurrent, Finish, Working
<1>3. CASE Report(w) \/ Catch(w) \/ FailRun(w) \/ Throw(w)
  <2>1. PICK pc \in {"end", "failRun", "rethrow", "catch"} : Goto(w, pc)
    BY <1>3 DEF Report, Catch, FailRun, Throw
  <2> QED
    BY <1>3, <1>a, <2>1 DEF Report, Catch, FailRun, Throw, Goto, Working, SlotRecords
<1> QED
  BY <1>1, <1>2, <1>3 DEF Moves

\* Nothing but the slot that opens a run for review makes it one.
LEMMA MovesOpen ==
    ASSUME TypeOK, NEW w \in Workers, Moves(w), NEW r \in Runs,
           run'[r].status \in Reviewable, run[r].status \notin Reviewable
    PROVE  worker[w].pc \in Working /\ worker'[w].pc \notin Working
<1>a. worker \in [Workers -> SlotRecords] /\ run \in [Runs -> RunRecords]
  BY DEF TypeOK
<1>1. CASE CoverageGap(w)
  BY <1>1, <1>a DEF CoverageGap, Goto, Working, SlotRecords
<1>2. CASE Finish(w)
  BY <1>2, <1>a DEF Finish, Working, SlotRecords
<1>3. CASE MarkRunning(w) \/ FailRun(w)
  BY <1>3, <1>a DEF MarkRunning, FailRun, Reviewable, RunRecords
<1>4. CASE LoadRun(w) \/ Discover(w) \/ ClearCandidates(w) \/ PersistCandidates(w)
           \/ CheckCurrent(w) \/ Report(w) \/ Catch(w) \/ Throw(w)
  BY <1>4 DEF LoadRun, Discover, ClearCandidates, PersistCandidates, CheckCurrent, Report,
              Catch, Throw
<1> QED
  BY <1>1, <1>2, <1>3, <1>4 DEF Moves

LEMMA SlotsSettle ==
    ASSUME TypeOK, Launching, [Next]_vars, NEW r \in Runs, Settled(r), NEW v \in Workers,
           worker'[v].pc \in Working
    PROVE  worker'[v].run # r
<1>1. CASE worker'[v] = worker[v]
  BY <1>1 DEF Settled
<1>2. CASE Moves(v)
  <2>1. worker'[v].run = worker[v].run
    BY <1>2, MovesKeep
  <2> QED
    BY <1>2, <2>1, MovesWork DEF Settled
<1>3. ASSUME NEW w \in Workers, (\E s \in Runs : TakeJob(w, s)) \/ Leaves(w) PROVE worker'[v] = worker[v]
  <2>1. CASE w = v
    <3>1. worker'[v].pc = "idle" \/ worker'[v].pc = "load"
      BY <1>3, <2>1, TakesKeep, LeavesKeep DEF Idle
    <3> QED
      BY <3>1 DEF Working
  <2>2. CASE w # v
    BY <1>3, <2>2, LeavesKeep, TakesKeep
  <2> QED
    BY <2>1, <2>2
<1>4. CASE Elsewhere \/ Adds \/ \E s \in Runs : StallJob(s)
  BY <1>1, <1>4, ElsewhereKeeps, AddsKeep, StallKeeps
<1>5. ASSUME NEW w \in Workers, w # v, Moves(w) PROVE worker'[v] = worker[v]
  BY <1>5, MovesKeep
<1> QED
  BY <1>1, <1>2, <1>3, <1>4, <1>5, StepKinds

LEMMA SettledKept ==
    ASSUME TypeOK, Launching, [Next]_vars, NEW r \in Runs, Settled(r)
    PROVE  Settled(r)' /\ (run[r].status \notin Reviewable => run'[r].status \notin Reviewable)
<1>1. ASSUME NEW w \in Workers, Moves(w), worker[w].run = r
      PROVE  run' = run \/ run'[r].status = "FAILED"
  <2>1. run' = run \/ FailRun(w)
    BY <1>1, MovesWork DEF Settled
  <2> QED
    BY <1>1, <2>1 DEF FailRun, TypeOK, RunRecords
<1>2. RunStays(r) \/ RunBecomes(r, {"SUPERSEDED", "FAILED", "COMPLETED"})
  BY <1>1, RunMoves DEF Settled, RunStarts, RunBecomes, RunStays
<1>3. run'[r].status \notin Active \cup {"none"}
  BY <1>2 DEF Settled, RunStays, RunBecomes, Active
<1> QED
  BY <1>2, <1>3, SlotsSettle DEF Settled, RunStays, RunBecomes, Reviewable

LEMMA ReviewedStep ==
    ASSUME IInv, Held, Launching, Reviewed, [Next]_vars
    PROVE  Reviewed'
<1>a. TypeOK /\ overtaken \subseteq overtaken'
  BY OvertakenStays DEF IInv
<1>1. ASSUME NEW r \in Runs, r \notin overtaken', run'[r].status \in Reviewable PROVE Settled(r)'
  <2>1. CASE run[r].status \in Reviewable
    BY <1>a, <1>1, <2>1, SettledKept DEF Reviewed
  <2>2. CASE run[r].status \notin Reviewable
    <3>1. PICK w \in Workers : Moves(w) /\ worker[w].run = r
      BY <1>1, <1>a, <2>2, RunMoves DEF RunStays, RunStarts, RunBecomes, Reviewable
    <3>2. worker[w].pc \in Working /\ worker'[w].pc \notin Working
      BY <1>1, <1>a, <2>2, <3>1, MovesOpen
    <3>3. ASSUME NEW v \in Workers, worker'[v].pc \in Working PROVE worker'[v].run # r
      <4>1. v # w /\ worker'[v] = worker[v] /\ worker[w].pc # "idle"
        BY <1>a, <3>1, <3>2, <3>3, MovesKeep
      <4>2. worker[v].pc # "idle"
        BY <3>3, <4>1 DEF Working
      <4> QED
        BY <1>a, <1>1, <3>1, <4>1, <4>2 DEF Held
    <3> QED
      BY <1>1, <3>3 DEF Settled, Reviewable, Active
  <2> QED
    BY <2>1, <2>2
<1>2. ASSUME NEW r \in Published', r \notin overtaken'
      PROVE  Settled(r)' /\ run'[r].status \notin Reviewable
  <2>a. r \in Runs /\ r \notin overtaken
    BY <1>a, <1>2 DEF Published
  <2>1. CASE r \in Published
    BY <1>a, <2>a, <2>1, SettledKept DEF Reviewed
  <2>2. ASSUME NEW q \in Requests, PublishCommit(q), r = request[q].run
        PROVE  Settled(r)' /\ run'[r].status \notin Reviewable
    <3>1. Settled(r)
      BY <2>a, <2>2 DEF Reviewed, PublishCommit
    <3>2. run'[r].status = "COMPLETED"
      BY <1>a, <2>a, <2>2 DEF PublishCommit, TypeOK, RunRecords
    <3> QED
      BY <1>a, <2>a, <3>1, <3>2, SettledKept DEF Reviewable
  <2>3. CASE r \notin Published
    <3>1. PICK q \in Requests : PublishCommit(q)
      BY <1>2, <1>a, <2>3, RegisterKept DEF Published
    <3>2. r = request[q].run
      BY <1>2, <2>3, <3>1, PublishStep
    <3> QED
      BY <2>2, <3>1, <3>2
  <2> QED
    BY <2>1, <2>3
<1>3. ASSUME NEW q \in Requests, request'[q].pc \in {"decide", "publish"}
      PROVE  /\ request'[q].run \in Runs
             /\ request'[q].run \notin overtaken' => Settled(request[q].run)'
  <2>1. request'[q].run \in Runs
    BY <1>3, <1>a, RequestMoves DEF Reviewed
  <2>2. ASSUME request'[q].run \notin overtaken' PROVE Settled(request[q].run)'
    <3>1. PICK r \in Runs : r = request'[q].run /\ Settled(r)
      BY <1>3, <1>a, <2>1, <2>2, RequestMoves DEF Reviewed
    <3>2. Settled(r)'
      BY <1>a, <3>1, SettledKept
    <3> QED
      BY <3>1, <3>2 DEF Settled
  <2> QED
    BY <2>1, <2>2
<1> QED
  BY <1>1, <1>2, <1>3 DEF Reviewed

-----------------------------------------------------------------------------
(* The status of the watch.                                                *)

\* Until a register is published nothing was started from one.
Based ==
    watch.current = None =>
      /\ \A r \in Runs : run[r].base = None
      /\ \A q \in Requests : request[q].pc = "start" => request[q].base = None
      /\ \A e \in Events : impact[e].pc = "create" => impact[e].base = None

LEMMA BaseMoves ==
    ASSUME TypeOK, [Next]_vars, NEW r \in Runs
    PROVE  \/ run'[r].base = run[r].base
           \/ \E q \in Requests : request[q].pc = "start" /\ run'[r].base = request[q].base
           \/ \E e \in Events : impact[e].pc = "create" /\ run'[r].base = impact[e].base
<1>a. run \in [Runs -> RunRecords]
  BY DEF TypeOK
<1>1. ASSUME NEW s, NEW status, run' = [run EXCEPT ![s].status = status]
      PROVE  run'[r].base = run[r].base
  BY <1>1, <1>a DEF RunRecords
<1>2. ASSUME NEW q \in Requests, StartCommit(q)
      PROVE  request[q].pc = "start" /\ run'[r].base \in {run[r].base, request[q].base}
  BY <1>2, <1>a DEF StartCommit, RunRecords
<1>3. ASSUME NEW e \in Events, ImpactCreate(e)
      PROVE  impact[e].pc = "create" /\ run'[r].base \in {run[r].base, impact[e].base}
  BY <1>3, <1>a DEF ImpactCreate, RunRecords
<1>4. ASSUME NEW s \in Runs, ReviewAnalysis(s) PROVE run'[r].base = run[r].base
  BY <1>4, <1>a DEF ReviewAnalysis, RunRecords
<1>5. ASSUME NEW w \in Workers, Moves(w) PROVE run'[r].base = run[r].base
  <2>1. CASE run' = run
    BY <2>1
  <2>2. CASE run' # run
    <3>1. PICK status \in {"RUNNING", "READY_FOR_REVIEW", "COMPLETED", "FAILED"} :
            run' = [run EXCEPT ![worker[w].run].status = status]
      BY <1>5, <2>2 DEF Moves, LoadRun, MarkRunning, Discover, CoverageGap, ClearCandidates,
         PersistCandidates, CheckCurrent, Finish, Report, Catch, FailRun, Throw
    <3> QED
      BY <1>1, <3>1
  <2> QED
    BY <2>1, <2>2
<1>6. ASSUME NEW q \in Requests, EnqueueFails(q) \/ PublishCommit(q)
      PROVE  run'[r].base = run[r].base
  BY <1>6, <1>1 DEF EnqueueFails, PublishCommit
<1>7. CASE Elsewhere
  BY <1>2, <1>3, <1>4, <1>6, <1>7
     DEF Elsewhere, StartRead, FailWatch, DecideRead, DecideCommit, PublishRead, ClaimFails,
         RequestDies, ImpactIgnored, ImpactDeferred, ImpactRead, ImpactFound, ImpactFails,
         EditProfile, CompleteProfile, vars
<1>8. CASE Adds \/ \E s \in Runs : StallJob(s)
  BY <1>8 DEF Adds, Enqueue, ImpactEnqueue, StallJob
<1>9. ASSUME NEW w \in Workers, (\E s \in Runs : TakeJob(w, s)) \/ Leaves(w)
      PROVE  run'[r].base = run[r].base
  BY <1>9, LeavesKeep DEF TakeJob
<1> QED
  BY <1>5, <1>7, <1>8, <1>9, StepKinds

LEMMA BasedStep ==
    ASSUME IInv, Based, [Next]_vars
    PROVE  Based'
<1>a. TypeOK
  BY DEF IInv
<1> SUFFICES ASSUME watch'.current = None
             PROVE  /\ \A r \in Runs : run'[r].base = None
                    /\ \A q \in Requests : request'[q].pc = "start" => request'[q].base = None
                    /\ \A e \in Events : impact'[e].pc = "create" => impact'[e].base = None
  BY DEF Based
<1>1. watch.current = None
  <2>1. ASSUME NEW q \in Requests, PublishCommit(q) PROVE FALSE
    BY <2>1, PublishStep, NoneAssumption
  <2> QED
    BY <1>a, <2>1, RegisterKept
<1>2. \A r \in Runs : run'[r].base = None
  BY <1>a, <1>1, BaseMoves DEF Based
<1>3. ASSUME NEW q \in Requests, request'[q].pc = "start" PROVE request'[q].base = None
  BY <1>a, <1>1, <1>3, RequestMoves DEF Based
<1>4. ASSUME NEW e \in Events, impact'[e].pc = "create" PROVE impact'[e].base = None
  <2>a. impact \in [Events -> EventRecords]
    BY <1>a DEF TypeOK
  <2>1. ASSUME ImpactCreate(e) PROVE FALSE
    <3>1. PICK r \in Runs : impact' = [impact EXCEPT ![e].pc = "enqueue", ![e].run = r]
      BY <2>1 DEF ImpactCreate
    <3> QED
      BY <1>4, <2>a, <3>1 DEF EventRecords
  <2>2. ASSUME ImpactFound(e) PROVE FALSE
    <3>1. PICK r \in Runs : impact' = [impact EXCEPT ![e].run = r,
            ![e].pc = IF run[r].status = "COMPLETED" THEN "done" ELSE "enqueue"]
      BY <2>2 DEF ImpactFound
    <3>2. PICK pc \in {"done", "enqueue"} : impact' = [impact EXCEPT ![e].run = r, ![e].pc = pc]
      BY <3>1
    <3> QED
      BY <1>4, <2>a, <3>2 DEF EventRecords
  <2> QED
    BY <1>a, <1>1, <1>4, <2>1, <2>2, ImpactMoves DEF Based
<1> QED
  BY <1>2, <1>3, <1>4

\* How the status of the watch moves, and what stands behind the new one.
LEMMA WatchMoves ==
    ASSUME IInv, Held, Based, [Next]_vars
    PROVE  \/ /\ watch'.status = watch.status
              /\ ~ \E q \in Requests : StartCommit(q) \/ PublishCommit(q)
              /\ ~ \E e \in Events : ImpactCreate(e)
              /\ ~ \E w \in Workers : CoverageGap(w) \/ Finish(w) \/ FailRun(w)
           \/ watch'.status = "ANALYZING" /\ \E r \in Runs : run'[r].status = "QUEUED"
           \/ watch'.status = "ACTIVE" /\ watch'.current # None
           \/ watch'.status = "REVIEW_REQUIRED" /\ \E r \in Runs : run'[r].status \in Reviewable
           \/ watch'.status \in {"FAILED", "STALE"}
<1>a. watch \in WatchRecords /\ run \in [Runs -> RunRecords] /\ request \in [Requests -> RequestRecords]
  BY DEF IInv, TypeOK
<1>1. ASSUME NEW q \in Requests, StartCommit(q)
      PROVE  watch'.status = "ANALYZING" /\ \E r \in Runs : run'[r].status = "QUEUED"
  BY <1>1, <1>a DEF StartCommit, WatchRecords, NoRun
<1>2. ASSUME NEW e \in Events, ImpactCreate(e)
      PROVE  watch'.status = "ANALYZING" /\ \E r \in Runs : run'[r].status = "QUEUED"
  BY <1>2, <1>a DEF ImpactCreate, WatchRecords
<1>3. ASSUME NEW q \in Requests, PublishCommit(q)
      PROVE  watch'.status = "ACTIVE" /\ watch'.current # None
  BY <1>3, NoneAssumption DEF PublishCommit, IInv, FollowsRun
<1>4. ASSUME NEW w \in Workers, CoverageGap(w)
      PROVE  watch'.status = "REVIEW_REQUIRED" /\ \E r \in Runs : run'[r].status \in Reviewable
  <2>1. worker[w].run \in Runs
    BY <1>4 DEF CoverageGap, Held
  <2> QED
    BY <1>4, <1>a, <2>1 DEF CoverageGap, WatchRecords, Reviewable, RunRecords
<1>5. ASSUME NEW w \in Workers, Finish(w)
      PROVE  \/ watch'.status = "REVIEW_REQUIRED" /\ \E r \in Runs : run'[r].status \in Reviewable
             \/ watch'.status = "ACTIVE" /\ watch'.current # None
  <2>1. worker[w].run \in Runs
    BY <1>5 DEF Finish, Held
  <2>2. PICK review \in BOOLEAN :
          /\ review = FALSE => run[worker[w].run].base # None
          /\ run' = [run EXCEPT ![worker[w].run].status =
                       IF review THEN "READY_FOR_REVIEW" ELSE "COMPLETED"]
          /\ watch' = [watch EXCEPT !.status = IF review THEN "REVIEW_REQUIRED" ELSE "ACTIVE"]
    <3> DEFINE review == \/ run[worker[w].run].base = None
                         \/ \E l \in Laws : /\ worker[w].found[l] # None
                                            /\ worker[w].found[l].change # "UNCHANGED"
    <3>1. review \in BOOLEAN /\ (review = FALSE => run[worker[w].run].base # None)
      OBVIOUS
    <3>2. /\ run' = [run EXCEPT ![worker[w].run].status =
                       IF review THEN "READY_FOR_REVIEW" ELSE "COMPLETED"]
          /\ watch' = [watch EXCEPT !.status = IF review THEN "REVIEW_REQUIRED" ELSE "ACTIVE"]
      BY <1>5 DEF Finish
    <3> HIDE DEF review
    <3> QED
      BY <3>1, <3>2
  <2>3. CASE review
    BY <1>a, <2>1, <2>2, <2>3 DEF WatchRecords, RunRecords, Reviewable
  <2>4. CASE ~review
    BY <1>a, <2>1, <2>2, <2>4 DEF WatchRecords, Based
  <2> QED
    BY <2>3, <2>4
<1>6. ASSUME NEW w \in Workers, FailRun(w) PROVE watch'.status \in {"FAILED", "STALE"}
  BY <1>6, <1>a DEF FailRun, WatchRecords
<1>7. ASSUME NEW q \in Requests, FailWatch(q) PROVE watch'.status \in {"FAILED", "STALE"}
  BY <1>7, <1>a DEF FailWatch, WatchRecords
<1>8. ASSUME NEW q \in Requests, DecideCommit(q) PROVE watch'.status = watch.status
  BY <1>8, <1>a DEF DecideCommit, WatchRecords
<1>9. ASSUME (\E next \in {"COMPLETE", "STALE"} : EditProfile(next)) \/ \E e \in Events : ImpactDeferred(e)
      PROVE  watch'.status = watch.status \/ watch'.status \in {"FAILED", "STALE"}
  BY <1>9, <1>a DEF EditProfile, ImpactDeferred, WatchRecords
<1>10. ASSUME ~ \E q \in Requests : StartCommit(q) \/ PublishCommit(q),
              ~ \E e \in Events : ImpactCreate(e),
              ~ \E w \in Workers : CoverageGap(w) \/ Finish(w) \/ FailRun(w)
       PROVE  watch'.status = watch.status \/ watch'.status \in {"FAILED", "STALE"}
  <2>1. CASE Elsewhere
    BY <1>7, <1>8, <1>9, <1>10, <2>1
       DEF Elsewhere, StartRead, EnqueueFails, DecideRead, PublishRead, ClaimFails, RequestDies,
           ReviewAnalysis, CompleteProfile, ImpactIgnored, ImpactRead, ImpactFound, ImpactFails, vars
  <2>2. CASE Adds \/ \E r \in Runs : StallJob(r)
    BY <2>2 DEF Adds, Enqueue, ImpactEnqueue, StallJob
  <2>3. ASSUME NEW w \in Workers, (\E r \in Runs : TakeJob(w, r)) \/ Moves(w) \/ Leaves(w)
        PROVE  watch' = watch
    BY <1>10, <2>3 DEF TakeJob, Moves, LoadRun, MarkRunning, Discover, ClearCandidates,
       PersistCandidates, CheckCurrent, Report, Catch, Throw, Leaves, EndJob, FailAttempt, Crash
  <2> QED
    BY <2>1, <2>2, <2>3, StepKinds
<1> QED
  BY <1>1, <1>2, <1>3, <1>4, <1>5, <1>6, <1>10

LEMMA BackedStep ==
    ASSUME IInv, Held, Launching, Reviewed, Based, WatchStatusBacked, [Next]_vars
    PROVE  WatchStatusBacked'
<1>a. TypeOK
  BY DEF IInv
<1>1. ASSUME watch'.status = "ANALYZING"
      PROVE  \E r \in Runs : \/ run'[r].status \in Active
                             \/ run'[r].status = "FAILED" /\ job'[r].status = "none"
  <2>1. CASE \E r \in Runs : run'[r].status = "QUEUED"
    BY <2>1 DEF Active
  <2>2. CASE ~ \E r \in Runs : run'[r].status = "QUEUED"
    <3>1. /\ watch.status = "ANALYZING"
          /\ ~ \E q \in Requests : StartCommit(q) \/ PublishCommit(q)
          /\ ~ \E e \in Events : ImpactCreate(e)
          /\ ~ \E w \in Workers : CoverageGap(w) \/ Finish(w) \/ FailRun(w)
      BY <1>1, <2>2, WatchMoves
    <3>2. PICK r \in Runs : \/ run[r].status \in Active
                            \/ run[r].status = "FAILED" /\ job[r].status = "none"
      BY <3>1 DEF WatchStatusBacked
    <3>3. \/ RunStays(r)
          \/ \E q \in Requests : EnqueueFails(q) /\ request[q].run = r /\ RunBecomes(r, {"FAILED"})
          \/ \E w \in Workers : Moves(w) /\ worker[w].run = r /\ RunBecomes(r, {"RUNNING"})
      <4>1. ASSUME NEW w \in Workers, Moves(w) PROVE run' = run \/ MarkRunning(w)
        BY <3>1, <4>1 DEF Moves, LoadRun, Discover, ClearCandidates, PersistCandidates,
                          CheckCurrent, Report, Catch, Throw
      <4>2. ASSUME NEW w \in Workers, MarkRunning(w), worker[w].run = r PROVE run'[r].status = "RUNNING"
        BY <1>a, <4>2 DEF MarkRunning, TypeOK, RunRecords
      <4> QED
        BY <1>a, <3>1, <4>1, <4>2, RunMoves DEF RunStays, RunBecomes
    <3>4. CASE run[r].status \in Active
      <4>1. ASSUME NEW q \in Requests, EnqueueFails(q), request[q].run = r PROVE job'[r].status = "none"
        BY <4>1 DEF Launching, EnqueueFails
      <4> QED
        BY <3>3, <3>4, <4>1 DEF RunStays, RunBecomes, Active
    <3>5. CASE run[r].status = "FAILED" /\ job[r].status = "none"
      <4>1. ASSUME NEW q \in Requests, Enqueue(q) \/ EnqueueFails(q) PROVE request[q].run # r
        BY <3>5, <4>1 DEF Launching, Enqueue, EnqueueFails
      <4>2. ASSUME NEW e \in Events, ImpactEnqueue(e) PROVE impact[e].run # r
        BY <3>5, <4>2, NoneAssumption DEF Launching, ImpactEnqueue
      <4>3. ASSUME NEW w \in Workers, Moves(w) PROVE worker[w].run # r
        BY <1>a, <3>5, <4>3, MovesKeep DEF Held
      <4>4. job'[r] = job[r]
        BY <1>a, <3>5, <4>1, <4>2, JobsMove
      <4> QED
        BY <3>3, <3>5, <4>1, <4>3, <4>4 DEF RunStays
    <3> QED
      BY <3>2, <3>4, <3>5
  <2> QED
    BY <2>1, <2>2
<1>2. ASSUME watch'.status = "REVIEW_REQUIRED"
      PROVE  \E r \in Runs : \/ run'[r].status \in Reviewable
                             \/ run'[r].status = "RUNNING" /\ r \in overtaken'
  <2>a. overtaken \subseteq overtaken'
    BY <1>a, OvertakenStays
  <2>1. CASE ~ \E r \in Runs : run'[r].status \in Reviewable
    <3>1. /\ watch.status = "REVIEW_REQUIRED"
          /\ ~ \E q \in Requests : StartCommit(q) \/ PublishCommit(q)
          /\ ~ \E e \in Events : ImpactCreate(e)
          /\ ~ \E w \in Workers : CoverageGap(w) \/ Finish(w) \/ FailRun(w)
      BY <1>2, <2>1, WatchMoves
    <3>2. PICK r \in Runs : \/ run[r].status \in Reviewable
                            \/ run[r].status = "RUNNING" /\ r \in overtaken
      BY <3>1 DEF WatchStatusBacked
    <3>3. ASSUME NEW w \in Workers, Moves(w), worker[w].run = r
          PROVE  run' = run \/ (r \in overtaken /\ run'[r].status = "RUNNING")
      <4>1. r \notin overtaken => run' = run
        BY <1>a, <3>1, <3>2, <3>3, MovesWork DEF Reviewed, Settled
      <4>2. run' = run \/ MarkRunning(w)
        BY <3>1, <3>3 DEF Moves, LoadRun, Discover, ClearCandidates, PersistCandidates,
                          CheckCurrent, Report, Catch, Throw
      <4>3. MarkRunning(w) => run'[r].status = "RUNNING"
        BY <1>a, <3>3 DEF MarkRunning, TypeOK, RunRecords
      <4> QED
        BY <4>1, <4>2, <4>3
    <3>4. ASSUME NEW q \in Requests, EnqueueFails(q) PROVE request[q].run # r
      BY <3>2, <3>4 DEF Launching, EnqueueFails, Reviewable
    <3>5. RunStays(r) \/ (r \in overtaken /\ run'[r].status = "RUNNING")
      BY <1>a, <3>1, <3>2, <3>3, <3>4, RunMoves DEF RunStays, RunStarts, Reviewable
    <3> QED
      BY <2>a, <3>2, <3>5 DEF RunStays
  <2> QED
    BY <2>1
<1>3. ASSUME watch'.status = "ACTIVE" PROVE watch'.current # None
  <2>1. CASE watch'.status = watch.status /\ ~ \E q \in Requests : PublishCommit(q)
    BY <1>a, <1>3, <2>1, RegisterKept DEF WatchStatusBacked
  <2> QED
    BY <1>3, <2>1, WatchMoves
<1> QED
  BY <1>1, <1>2, <1>3 DEF WatchStatusBacked

\* What holds of the analyses in every reachable state.
AInv == IInv /\ Held /\ Launching /\ Reviewed /\ Based /\ WatchStatusBacked

LEMMA InitAnalyses == Init => AInv
<1> SUFFICES ASSUME Init PROVE AInv
  OBVIOUS
<1>1. /\ \A q \in Requests : request[q].pc = "idle"
      /\ \A w \in Workers : worker[w].pc = "idle"
      /\ \A e \in Events : impact[e].pc = "pending"
      /\ \A r \in Runs : job[r].status = "none"
  BY DEF Init, Queue!Init, Queue!NoJob, Free, Idle, Pending
<1>2. /\ \A r \in Runs : run[r].status \in {"none", "COMPLETED"} /\ run[r].trigger = None
                         /\ run[r].base = None
      /\ \A r \in Published : run[r].status = "COMPLETED"
      /\ watch.status = "NOT_STARTED" \/ (watch.status = "ACTIVE" /\ watch.current # None)
  <2>1. CASE FreshWatch
    BY <2>1 DEF FreshWatch, NoRun, NoBaseline, Published
  <2>2. CASE PlatformWatch
    <3>1. 1 # None
      BY <2>2, NoneAssumption DEF PlatformWatch
    <3> QED
      BY <2>2, <3>1 DEF PlatformWatch, NoRun, NoBaseline, Published
  <2> QED
    BY <2>1, <2>2 DEF Init
<1>3. Held /\ Launching
  BY <1>1, <1>2 DEF Held, Launching, Reviewable
<1>4. Reviewed
  BY <1>1, <1>2 DEF Reviewed, Settled, Working, Reviewable, Active, Published
<1>5. Based /\ WatchStatusBacked
  BY <1>1, <1>2 DEF Based, WatchStatusBacked
<1> QED
  BY <1>3, <1>4, <1>5, InitInv DEF AInv

LEMMA AnalysesStep == AInv /\ [Next]_vars => AInv'
<1> SUFFICES ASSUME AInv, [Next]_vars PROVE AInv'
  OBVIOUS
<1>1. TypeOK
  BY DEF AInv, IInv
<1> QED
  BY <1>1, InvStep, HeldStep, LaunchingStep, ReviewedStep, BasedStep, BackedStep DEF AInv

\* What the watch shows has a run behind it: an active analysis, one whose job could not
\* be added, one to review, or a register, in every order of requests, failures, impact
\* events and redelivered jobs (regulatory-watch.service.ts, regulatory-analysis.processor.ts).
THEOREM StatusesBacked == Spec => []WatchStatusBacked
<1>1. AInv => WatchStatusBacked
  BY DEF AInv
<1> QED
  BY <1>1, InitAnalyses, AnalysesStep, PTL DEF Spec

-----------------------------------------------------------------------------
(* An analysis that the queue has done with is over.                       *)

Over(r) == run[r].status \notin Active

\* A slot that is done with its run, and a completed job, leave the run over, as long as
\* no slot has lost the lock of that job.
AllOver ==
    /\ \A w \in Workers : worker[w].pc \in {"report", "end"} /\ worker[w].run \notin overtaken =>
         Over(worker[w].run)
    /\ \A r \in Runs \ overtaken : job[r].status = "completed" => Over(r)

LEMMA StaysOver ==
    ASSUME TypeOK, Launching, [Next]_vars, NEW r \in Runs, Over(r), job[r].status # "none"
    PROVE  Over(r)' \/ \E w \in Workers : MarkRunning(w) /\ worker[w].run = r
<1>1. run[r].status # "none"
  BY DEF Launching
<1>2. CASE RunStays(r)
  BY <1>2 DEF RunStays, Over
<1>3. ASSUME NEW w \in Workers, Moves(w), worker[w].run = r, ~MarkRunning(w)
      PROVE  Over(r)'
  <2>1. CASE CoverageGap(w) \/ Finish(w) \/ FailRun(w)
    BY <1>3, <2>1 DEF CoverageGap, Finish, FailRun, Over, Active, TypeOK, RunRecords
  <2>2. CASE run' = run
    BY <2>2 DEF Over
  <2> QED
    BY <1>3, <2>1, <2>2 DEF Moves, LoadRun, Discover, ClearCandidates, PersistCandidates,
       CheckCurrent, Report, Catch, Throw
<1>4. CASE RunBecomes(r, {"SUPERSEDED", "FAILED", "COMPLETED"})
  BY <1>4 DEF RunBecomes, Over, Active
<1> QED
  BY <1>1, <1>2, <1>3, <1>4, RunMoves DEF RunStarts, RunBecomes

\* A slot comes to its end only with a run that is over.
LEMMA MovesEnd ==
    ASSUME TypeOK, AllOver, NEW w \in Workers, Moves(w), worker'[w].pc \in {"report", "end"},
           worker[w].run \in Runs \ overtaken
    PROVE  run'[worker[w].run].status \notin Active
<1>a. worker \in [Workers -> SlotRecords] /\ run \in [Runs -> RunRecords]
  BY DEF TypeOK
<1>1. ASSUME NEW pc, Goto(w, pc)
      PROVE  worker'[w].pc = pc
  BY <1>1, <1>a DEF Goto, SlotRecords
<1>2. CASE LoadRun(w)
  BY <1>1, <1>2 DEF LoadRun, Over
<1>3. CASE Discover(w)
  <2>1. CASE StillCurrent(worker[w].run)
    <3>1. PICK found :
            worker' = [worker EXCEPT ![w].found = found,
              ![w].pc = IF \A l \in Laws : found[l] = None THEN "gap" ELSE "clear"]
      BY <1>3, <2>1 DEF Discover
    <3>2. worker'[w].pc \in {"gap", "clear"}
      BY <1>a, <3>1 DEF SlotRecords
    <3> QED
      BY <3>2
  <2>2. CASE ~StillCurrent(worker[w].run)
    BY <1>3, <2>2 DEF Discover, StillCurrent, Over
  <2> QED
    BY <2>1, <2>2
<1>4. CASE CoverageGap(w)
  BY <1>4, <1>a DEF CoverageGap, Over, Active, RunRecords
<1>5. CASE CheckCurrent(w)
  BY <1>1, <1>5 DEF CheckCurrent, StillCurrent, Over
<1>6. CASE Finish(w)
  BY <1>6, <1>a DEF Finish, Over, Active, RunRecords
<1>7. CASE Report(w)
  BY <1>7 DEF Report, AllOver, Over
<1>8. CASE Catch(w)
  BY <1>1, <1>8 DEF Catch, Over, Superseded, Active
<1>9. CASE \/ MarkRunning(w) \/ ClearCandidates(w) \/ PersistCandidates(w) \/ FailRun(w)
           \/ Throw(w)
  BY <1>1, <1>9 DEF MarkRunning, ClearCandidates, PersistCandidates, FailRun, Throw
<1> QED
  BY <1>2, <1>3, <1>4, <1>5, <1>6, <1>7, <1>8, <1>9 DEF Moves

\* Only EndJob completes a job.
LEMMA JobsCompleted ==
    ASSUME TypeOK, Launching, [Next]_vars, NEW r \in Runs, job'[r].status = "completed"
    PROVE  \/ job[r].status = "completed"
           \/ \E w \in Workers : EndJob(w) /\ worker[w].run = r
<1>a. job \in [Runs -> JobRecords]
  BY DEF TypeOK
<1>1. CASE Elsewhere
  BY <1>1, ElsewhereKeeps
<1>2. CASE Adds
  BY <1>2, AddsKeep
<1>3. ASSUME NEW w \in Workers, Moves(w) PROVE job' = job
  BY <1>3, MovesKeep
<1>4. ASSUME NEW w \in Workers, EndJob(w), worker[w].run # r PROVE job'[r] = job[r]
  BY <1>4, <1>a DEF EndJob, Queue!Complete
<1>5. ASSUME NEW w \in Workers, NEW s \in Runs, TakeJob(w, s) PROVE job[r].status = "completed"
  BY <1>5, TakesKeep
<1>6. ASSUME NEW w \in Workers, Crash(w) PROVE job' = job
  BY <1>6 DEF Crash
<1>7. ASSUME NEW w \in Workers, FailAttempt(w) PROVE job[r].status = "completed"
  <2> DEFINE s == worker[w].run
             status == IF job[s].made + 1 < Attempts THEN "waiting" ELSE "failed"
  <2>1. job' = [job EXCEPT ![s] = IF job[s].holder # w THEN job[s]
                  ELSE [job[s] EXCEPT !.made = job[s].made + 1, !.holder = None,
                                      !.status = status]]
    BY <1>7 DEF FailAttempt, Queue!Throw, Queue!Thrown
  <2>2. status # "completed"
    OBVIOUS
  <2> HIDE DEF status
  <2> QED
    BY <1>a, <2>1, <2>2 DEF JobRecords
<1>8. ASSUME NEW s \in Runs, StallJob(s) PROVE job[r].status = "completed"
  BY <1>8, StallKeeps
<1> QED
  BY <1>1, <1>2, <1>3, <1>4, <1>5, <1>6, <1>7, <1>8, StepKinds DEF Leaves

LEMMA OverStep ==
    ASSUME TypeOK, Held, Launching, AllOver, [Next]_vars
    PROVE  AllOver'
<1>a. overtaken \subseteq overtaken'
  BY OvertakenStays
<1>1. ASSUME NEW r \in Runs, Over(r), job[r].status # "none",
             \A w \in Workers : worker[w].pc = "mark" => worker[w].run # r
      PROVE  Over(r)'
  BY <1>1, StaysOver DEF MarkRunning
<1>2. ASSUME NEW w \in Workers, worker[w].pc \in {"report", "end"}, worker[w].run \notin overtaken
      PROVE  worker[w].run \in Runs /\ run'[worker[w].run].status \notin Active
  <2>1. /\ worker[w].run \in Runs /\ Over(worker[w].run)
        /\ job[worker[w].run].status # "none"
    BY <1>2 DEF Held, AllOver
  <2>2. \A v \in Workers : worker[v].pc = "mark" => worker[v].run # worker[w].run
    BY <1>2 DEF Held
  <2> QED
    BY <1>1, <2>1, <2>2 DEF Over
<1>3. ASSUME NEW v \in Workers, worker'[v].pc \in {"report", "end"}, worker'[v].run \notin overtaken'
      PROVE  run'[worker'[v].run].status \notin Active
  <2>1. CASE Moves(v)
    <3>1. worker'[v].run = worker[v].run /\ worker[v].run \in Runs
      BY <2>1, MovesKeep DEF Held
    <3> QED
      BY <1>a, <1>3, <2>1, <3>1, MovesEnd
  <2>2. CASE ~Moves(v)
    <3>1. worker'[v] = worker[v]
      <4>1. CASE Elsewhere \/ Adds \/ \E s \in Runs : StallJob(s)
        BY <4>1, ElsewhereKeeps, AddsKeep, StallKeeps
      <4>2. ASSUME NEW w \in Workers, Moves(w) PROVE worker'[v] = worker[v]
        BY <2>2, <4>2, MovesKeep
      <4>3. ASSUME NEW w \in Workers, Leaves(w) PROVE worker'[v] = worker[v]
        BY <1>3, <4>3, LeavesKeep DEF Idle
      <4>4. ASSUME NEW w \in Workers, NEW s \in Runs, TakeJob(w, s) PROVE worker'[v] = worker[v]
        BY <1>3, <4>4, TakesKeep
      <4> QED
        BY <4>1, <4>2, <4>3, <4>4, StepKinds
    <3> QED
      BY <1>a, <1>2, <1>3, <3>1
  <2> QED
    BY <2>1, <2>2
<1>4. ASSUME NEW r \in Runs, r \notin overtaken', job'[r].status = "completed"
      PROVE  Over(r)'
  <2>1. CASE job[r].status = "completed"
    <3>1. \A w \in Workers : worker[w].pc = "mark" => worker[w].run # r
      BY <1>a, <1>4, <2>1 DEF Held
    <3> QED
      BY <1>a, <1>1, <1>4, <2>1, <3>1 DEF AllOver
  <2>2. ASSUME NEW w \in Workers, EndJob(w), worker[w].run = r
        PROVE  Over(r)'
    BY <1>a, <1>2, <1>4, <2>2 DEF EndJob, Over
  <2> QED
    BY <1>4, <2>1, <2>2, JobsCompleted
<1> QED
  BY <1>3, <1>4 DEF AllOver, Over

\* An analysis whose job the queue has completed is over: the watch does not wait for it,
\* whatever attempts, crashes, supersessions and redeliveries came before, although the
\* slot's update that marks the run as running looks at nothing
\* (regulatory-analysis.processor.ts).  Only a slot that lost its lock can revive one.
THEOREM AnalysesEndWithTheirJobs == Spec => []AnalysisEndsWithItsJob
<1>1. Init => AllOver
  BY DEF Init, Queue!Init, Queue!NoJob, Idle, AllOver
<1>2. AInv /\ AllOver /\ [Next]_vars => AllOver'
  BY OverStep DEF AInv, IInv
<1>3. AllOver => AnalysisEndsWithItsJob
  BY DEF AllOver, Over, AnalysisEndsWithItsJob
<1> QED
  BY <1>1, <1>2, <1>3, InitAnalyses, AnalysesStep, PTL DEF Spec

-----------------------------------------------------------------------------
(* The jobs of the analyses are delivered as the abstract queue says.      *)

\* The jobs as JobDelivery sees them.
Progresses == [i \in Runs |-> Queue!Progress(job[i])]

\* A job is within its attempts and the stalls that are forgiven.
Within(j) ==
    /\ j.status = "none" => j.made = 0 /\ j.stalled = 0
    /\ j.holder # None => j.status = "active"
    /\ j.status \in {"waiting", "active"} => j.made < Attempts /\ j.stalled <= MaxStalled

AllWithin == \A r \in Runs : Within(job[r])

\* What a step can make of a job: its holder is gone, it is added, taken or completed, an
\* attempt is used, or a stall.
SameCounts(j, k) == k.made = j.made /\ k.stalled = j.stalled
Becomes(j, k) ==
    /\ k.holder # None => k.status = "active"
    /\ \/ k.status = j.status /\ SameCounts(j, k)
       \/ j.status = "none" /\ k.status = "waiting" /\ SameCounts(j, k)
       \/ j.status = "waiting" /\ k.status = "active" /\ SameCounts(j, k)
       \/ j.status = "active" /\ k.status = "completed" /\ SameCounts(j, k)
       \/ /\ j.status = "active" /\ k.made = j.made + 1 /\ k.stalled = j.stalled
          /\ k.status \in {"waiting", "failed"} /\ (k.status = "waiting" => k.made < Attempts)
       \/ /\ j.status = "active" /\ k.made = j.made /\ k.stalled = j.stalled + 1
          /\ k.status \in {"waiting", "failed"} /\ (k.status = "waiting" => k.stalled <= MaxStalled)

\* The steps of JobDelivery, or none, by the records that they leave.
Delivers(p, q) ==
    \/ q = p
    \/ p.status = "none" /\ q = [p EXCEPT !.status = "queued"]
    \/ p.status = "queued" /\ p.left > 0 /\ q = [p EXCEPT !.left = p.left - 1]
    \/ p.status = "queued" /\ q = [p EXCEPT !.status = "done"]
    \/ p.status = "queued" /\ p.left < Attempts + MaxStalled /\ q = [p EXCEPT !.status = "failed"]

\* The same, by the fields.
LEMMA RecordMoves ==
    ASSUME NEW p, NEW q, p = [status |-> p.status, left |-> p.left],
           q = [status |-> q.status, left |-> q.left],
           \/ p.status = "none" /\ q.status = "queued" /\ q.left = p.left
           \/ p.status = "queued" /\ q.status = "queued" /\ p.left > 0 /\ q.left = p.left - 1
           \/ p.status = "queued" /\ q.status \in {"queued", "done"} /\ q.left = p.left
           \/ /\ p.status = "queued" /\ q.status = "failed" /\ q.left = p.left
              /\ p.left < Attempts + MaxStalled
    PROVE  Delivers(p, q)
<1>1. PICK ps, pl, qs, ql : p = [status |-> ps, left |-> pl] /\ q = [status |-> qs, left |-> ql]
  OBVIOUS
<1>2. p.status = ps /\ p.left = pl /\ q.status = qs /\ q.left = ql
  BY <1>1
<1> QED
  BY <1>1, <1>2 DEF Delivers

\* Whatever becomes of a job is what the abstract queue allows.
LEMMA JobDelivers ==
    ASSUME NEW j \in JobRecords, NEW k \in JobRecords, Within(j), Becomes(j, k)
    PROVE  Within(k) /\ Delivers(Queue!Progress(j), Queue!Progress(k))
<1>a. /\ Attempts \in Nat /\ Attempts > 0 /\ MaxStalled \in Nat
      /\ j.made \in Nat /\ j.stalled \in Nat /\ k.made \in Nat /\ k.stalled \in Nat
      /\ j.status \in {"none", "waiting", "active", "completed", "failed"}
  BY DeliveryAssumption DEF JobRecords
<1>1. Within(k)
  BY <1>a DEF Within, Becomes, SameCounts
<1>2. PICK m \in Int : m = Attempts + MaxStalled - j.made - j.stalled
  BY <1>a
<1>3. PICK n \in Int : n = Attempts + MaxStalled - k.made - k.stalled
  BY <1>a
<1>4. /\ SameCounts(j, k) => n = m
      /\ k.made + k.stalled = j.made + j.stalled + 1 => n = m - 1
      /\ m - 1 < Attempts + MaxStalled
  <2>1. SameCounts(j, k) => n = m
    BY <1>2, <1>3 DEF SameCounts
  <2>2. k.made + k.stalled = j.made + j.stalled + 1 => n = m - 1
    BY <1>a, <1>2, <1>3
  <2>3. m - 1 < Attempts + MaxStalled
    BY <1>a, <1>2
  <2> QED
    BY <2>1, <2>2, <2>3
<1>b. j.status \in {"waiting", "active"} => m > 0
  BY <1>a, <1>2 DEF Within
<1>c. /\ j.status \in {"none", "waiting"} => Queue!Progress(j).left = m
      /\ j.status = "active" => Queue!Progress(j).left = m - 1
      /\ k.status \in {"failed", "waiting"} => Queue!Progress(k).left = n
      /\ k.status \in {"active", "completed"} => Queue!Progress(k).left = n - 1
  <2>1. /\ Queue!Progress(j).left =
              m - (IF j.status \in {"active", "completed"} THEN 1 ELSE 0)
        /\ Queue!Progress(k).left =
              n - (IF k.status \in {"active", "completed"} THEN 1 ELSE 0)
    BY <1>a, <1>2, <1>3 DEF Queue!Progress
  <2> QED
    BY <2>1, <1>2, <1>3
<1>d. /\ j.status = "none" => Queue!Progress(j).status = "none"
      /\ j.status \in {"waiting", "active"} => Queue!Progress(j).status = "queued"
      /\ k.status \in {"waiting", "active"} => Queue!Progress(k).status = "queued"
      /\ k.status = "completed" => Queue!Progress(k).status = "done"
      /\ k.status = "failed" => Queue!Progress(k).status = "failed"
  BY DEF Queue!Progress
<1>5. CASE k.status = j.status /\ SameCounts(j, k)
  <2>1. Queue!Progress(k) = Queue!Progress(j)
    BY <1>5 DEF SameCounts, Queue!Progress
  <2> QED
    BY <1>1, <2>1 DEF Delivers
<1> DEFINE p == Queue!Progress(j)
           q == Queue!Progress(k)
<1>e. /\ p = [status |-> p.status, left |-> p.left]
      /\ q = [status |-> q.status, left |-> q.left]
  BY DEF Queue!Progress
<1> HIDE DEF p, q
<1>6. CASE j.status = "none" /\ k.status = "waiting" /\ SameCounts(j, k)
  <2>1. p.status = "none" /\ q.status = "queued" /\ q.left = p.left
    BY <1>4, <1>c, <1>d, <1>6 DEF p, q
  <2>2. Delivers(p, q)
    BY <1>e, <2>1, RecordMoves
  <2> QED
    BY <1>1, <2>2 DEF p, q
<1>7. CASE j.status = "waiting" /\ k.status = "active" /\ SameCounts(j, k)
  <2>1. p.status = "queued" /\ q.status = "queued" /\ p.left > 0 /\ q.left = p.left - 1
    BY <1>4, <1>b, <1>c, <1>d, <1>7 DEF p, q
  <2>2. Delivers(p, q)
    BY <1>e, <2>1, RecordMoves
  <2> QED
    BY <1>1, <2>2 DEF p, q
<1>8. CASE j.status = "active" /\ k.status = "completed" /\ SameCounts(j, k)
  <2>1. p.status = "queued" /\ q.status = "done" /\ q.left = p.left
    BY <1>4, <1>c, <1>d, <1>8 DEF p, q
  <2>2. Delivers(p, q)
    BY <1>e, <2>1, RecordMoves
  <2> QED
    BY <1>1, <2>2 DEF p, q
<1>9. CASE /\ j.status = "active" /\ k.made + k.stalled = j.made + j.stalled + 1
           /\ k.status \in {"waiting", "failed"}
  <2>1. /\ p.status = "queued" /\ q.status \in {"queued", "failed"} /\ q.left = p.left
        /\ p.left < Attempts + MaxStalled
    BY <1>4, <1>c, <1>d, <1>9 DEF p, q
  <2>2. Delivers(p, q)
    BY <1>e, <2>1, RecordMoves
  <2> QED
    BY <1>1, <2>2 DEF p, q
<1>10. \/ k.made = j.made + 1 /\ k.stalled = j.stalled
       \/ k.made = j.made /\ k.stalled = j.stalled + 1
       => k.made + k.stalled = j.made + j.stalled + 1
  BY <1>a
<1> QED
  BY <1>1, <1>5, <1>6, <1>7, <1>8, <1>9, <1>10 DEF Becomes

LEMMA OneDelivery ==
    ASSUME NEW r \in Runs, NEW d, Progresses' = [Progresses EXCEPT ![r] = d],
           Delivers(Progresses[r], d)
    PROVE  [Queue!Delivery!Next]_Progresses
<1>1. CASE d = Progresses[r]
  BY <1>1 DEF Progresses
<1>2. CASE Progresses[r].status = "none" /\ d = [Progresses[r] EXCEPT !.status = "queued"]
  <2>1. Queue!Delivery!Add(r)
    BY <1>2 DEF Queue!Delivery!Add, Progresses
  <2> QED
    BY <2>1 DEF Queue!Delivery!Next
<1>3. CASE /\ Progresses[r].status = "queued" /\ Progresses[r].left > 0
           /\ d = [Progresses[r] EXCEPT !.left = Progresses[r].left - 1]
  <2>1. Queue!Delivery!Deliver(r)
    BY <1>3 DEF Queue!Delivery!Deliver, Progresses
  <2> QED
    BY <2>1 DEF Queue!Delivery!Next
<1>4. CASE Progresses[r].status = "queued" /\ d = [Progresses[r] EXCEPT !.status = "done"]
  <2>1. Queue!Delivery!Complete(r)
    BY <1>4 DEF Queue!Delivery!Complete, Progresses
  <2> QED
    BY <2>1 DEF Queue!Delivery!Next
<1>5. CASE /\ Progresses[r].status = "queued" /\ Progresses[r].left < Attempts + MaxStalled
           /\ d = [Progresses[r] EXCEPT !.status = "failed"]
  <2>1. Queue!Delivery!GiveUp(r)
    BY <1>5 DEF Queue!Delivery!GiveUp, Progresses
  <2> QED
    BY <2>1 DEF Queue!Delivery!Next
<1> QED
  BY <1>1, <1>2, <1>3, <1>4, <1>5 DEF Delivers

\* A step that replaces one job.
LEMMA OneJob ==
    ASSUME TypeOK, AllWithin, NEW r \in Runs, NEW k \in JobRecords, Becomes(job[r], k),
           job' = [job EXCEPT ![r] = k]
    PROVE  AllWithin' /\ [Queue!Delivery!Next]_Progresses
<1>1. job \in [Runs -> JobRecords]
  BY DEF TypeOK
<1>2. Within(k) /\ Delivers(Queue!Progress(job[r]), Queue!Progress(k))
  BY <1>1, JobDelivers DEF AllWithin
<1>3. \A s \in Runs : job'[s] = IF s = r THEN k ELSE job[s]
  BY <1>1
<1>4. AllWithin'
  BY <1>2, <1>3 DEF AllWithin, Within
<1>5. Progresses' = [Progresses EXCEPT ![r] = Queue!Progress(k)]
  <2>1. \A s \in Runs : Queue!Progress(job[s])' = IF s = r THEN Queue!Progress(k)
                                                  ELSE Queue!Progress(job[s])
    BY <1>3
  <2> QED
    BY <2>1 DEF Progresses
<1>6. Progresses[r] = Queue!Progress(job[r])
  BY DEF Progresses
<1> QED
  BY <1>2, <1>4, <1>5, <1>6, OneDelivery

\* What each operation of the queue makes of a job.
LEMMA QueueBecomes ==
    ASSUME TypeOK, AllWithin, NEW r \in Runs,
           \/ Queue!Add(r) \/ Queue!Stall(r)
           \/ \E w \in Workers : Queue!Take(r, w) \/ Queue!Complete(r, w) \/ Queue!Throw(r, w)
    PROVE  \E k \in JobRecords : Becomes(job[r], k) /\ job' = [job EXCEPT ![r] = k]
<1>a. job[r] \in JobRecords /\ (job[r].holder # None => job[r].status = "active")
  BY DEF TypeOK, AllWithin, Within
<1>1. CASE Queue!Add(r)
  <2>1. Becomes(job[r], Queue!Added(job[r]))
    BY <1>a DEF JobRecords, Queue!Added, Becomes, SameCounts
  <2> QED
    BY <1>1, <2>1, JobTyped DEF Queue!Add
<1>2. CASE Queue!Stall(r)
  <2> DEFINE k == Queue!Recovered(job[r])
             status == IF job[r].stalled < MaxStalled THEN "waiting" ELSE "failed"
  <2>1. /\ status \in {"waiting", "failed"}
        /\ status = "waiting" => job[r].stalled + 1 <= MaxStalled
    BY <1>a, DeliveryAssumption DEF JobRecords
  <2>2. k = [job[r] EXCEPT !.stalled = job[r].stalled + 1, !.holder = None, !.status = status]
    BY DEF Queue!Recovered
  <2>3. k \in JobRecords /\ job' = [job EXCEPT ![r] = k]
    BY <1>2, JobTyped DEF Queue!Stall
  <2> HIDE DEF k, status
  <2>4. /\ k.stalled = job[r].stalled + 1 /\ k.made = job[r].made /\ k.holder = None
        /\ k.status = status
    BY <1>a, <2>2 DEF JobRecords
  <2>5. Becomes(job[r], k)
    BY <1>2, <2>1, <2>4 DEF Becomes, Queue!Stall
  <2> QED
    BY <2>3, <2>5
<1>3. ASSUME NEW w \in Workers, Queue!Take(r, w)
      PROVE  Becomes(job[r], Queue!Taken(job[r], w))
  BY <1>3, <1>a DEF JobRecords, Queue!Take, Queue!Taken, Becomes, SameCounts
<1>4. ASSUME NEW w \in Workers
      PROVE  Becomes(job[r], Queue!Completed(job[r], w))
  BY <1>a, NoneAssumption DEF JobRecords, Queue!Completed, Becomes, SameCounts
<1>5. ASSUME NEW w \in Workers
      PROVE  Becomes(job[r], Queue!Thrown(job[r], w))
  <2>1. CASE job[r].holder # w
    BY <1>a, <2>1 DEF Queue!Thrown, Becomes, SameCounts
  <2>2. CASE job[r].holder = w
    <3> DEFINE k == Queue!Thrown(job[r], w)
               status == IF job[r].made + 1 < Attempts THEN "waiting" ELSE "failed"
    <3>1. /\ status \in {"waiting", "failed"}
          /\ status = "waiting" => job[r].made + 1 < Attempts
      OBVIOUS
    <3>2. k = [job[r] EXCEPT !.made = job[r].made + 1, !.holder = None, !.status = status]
      BY <2>2 DEF Queue!Thrown
    <3> HIDE DEF k, status
    <3>3. /\ k.stalled = job[r].stalled /\ k.made = job[r].made + 1 /\ k.holder = None
          /\ k.status = status
      BY <1>a, <3>2 DEF JobRecords
    <3>4. job[r].status = "active"
      BY <1>a, <2>2, NoneAssumption
    <3>5. Becomes(job[r], k)
      BY <3>1, <3>3, <3>4 DEF Becomes
    <3> QED
      BY <3>5 DEF k
  <2> QED
    BY <2>1, <2>2
<1> QED
  BY <1>1, <1>2, <1>3, <1>4, <1>5, JobTyped DEF Queue!Take, Queue!Complete, Queue!Throw

\* Every step is an operation of the queue on one job, or leaves the jobs alone.
LEMMA JobsBecome ==
    ASSUME TypeOK, AllWithin, [Next]_vars
    PROVE  \/ job' = job
           \/ \E r \in Runs : \E k \in JobRecords :
                Becomes(job[r], k) /\ job' = [job EXCEPT ![r] = k]
<1>1. ASSUME NEW r, \/ Queue!Add(r) \/ Queue!Stall(r)
                    \/ \E w \in Workers : \/ Queue!Take(r, w) \/ Queue!Complete(r, w)
                                          \/ Queue!Throw(r, w)
      PROVE  \/ job' = job
             \/ \E s \in Runs : \E k \in JobRecords :
                  Becomes(job[s], k) /\ job' = [job EXCEPT ![s] = k]
  <2>1. CASE r \in Runs
    BY <1>1, <2>1, QueueBecomes
  <2>2. CASE r \notin Runs
    BY <1>1, <2>2 DEF TypeOK, Queue!Add, Queue!Stall, Queue!Take, Queue!Complete, Queue!Throw
  <2> QED
    BY <2>1, <2>2
<1>2. ASSUME NEW w \in Workers, Moves(w) \/ Crash(w) PROVE job' = job
  BY <1>2, MovesKeep DEF Crash
<1>3. ASSUME Elsewhere PROVE job' = job
  BY <1>3, ElsewhereKeeps
<1> QED
  BY <1>1, <1>2, <1>3, StepKinds
     DEF Adds, Enqueue, ImpactEnqueue, TakeJob, Leaves, EndJob, FailAttempt, StallJob

LEMMA DeliveryStep ==
    ASSUME TypeOK, AllWithin, [Next]_vars
    PROVE  AllWithin' /\ [Queue!Delivery!Next]_Progresses
<1>1. CASE job' = job
  BY <1>1 DEF AllWithin, Progresses
<1> QED
  BY <1>1, JobsBecome, OneJob

\* The queue of the analyses implements JobDelivery: a run's job is added once, by the
\* request that created it or for its event, is delivered no more often than its attempts
\* and the forgiven stalls allow, and not at all once it has ended, through every order of
\* crashes, lost locks, failures of the catch block and retries (regulatory-watch.service.ts,
\* regulatory-impact.processor.ts, regulatory-analysis.processor.ts).
THEOREM JobsAreDelivered == Spec => DeliveryImplemented
<1>1. Init => AllWithin /\ Queue!Delivery!Init
  <2> SUFFICES ASSUME Init PROVE AllWithin /\ Queue!Delivery!Init
    OBVIOUS
  <2>1. AllWithin
    BY DEF Init, Queue!Init, Queue!NoJob, AllWithin, Within
  <2>2. Queue!Progress(Queue!NoJob) = [status |-> "none", left |-> Attempts + MaxStalled]
    BY DeliveryAssumption DEF Queue!Progress, Queue!NoJob
  <2> QED
    BY <2>1, <2>2 DEF Init, Queue!Init, Queue!Delivery!Init
<1>2. TypeOK /\ AllWithin /\ [Next]_vars => AllWithin' /\ [Queue!Delivery!Next]_Progresses
  BY DeliveryStep
<1>3. [Queue!Delivery!Next]_Progresses
        => [Queue!Delivery!Next]_([i \in Runs |-> Queue!Progress(job[i])])
  BY DEF Progresses
<1>4. Queue!Delivery!Spec => DeliveryImplemented
  BY DEF DeliveryImplemented, Queue!DeliveryImplemented
<1>5. Spec => Queue!Delivery!Spec
  BY <1>1, <1>2, <1>3, InitTyped, TypeStep, PTL DEF Spec, Queue!Delivery!Spec
<1> QED
  BY <1>4, <1>5, PTL

-----------------------------------------------------------------------------
(* The candidates: which delivery created a row.                           *)

\* The deliveries of a job so far.
Given(j) == j.made + j.stalled + (IF j.status \in {"active", "completed"} THEN 1 ELSE 0)

\* A slot that has not yet written the candidates of its delivery.
Before == {"load", "mark", "discover", "gap", "clear", "persist"}

\* Two slots at one run have different deliveries, and only those that a delivery has
\* written are there: none that is still to come, and none of a slot that has yet to.
Told ==
    /\ \A r \in Runs : \A row \in Keys : candidate[r][row] # None => row[1] <= Given(job[r])
    /\ \A w \in Workers : worker[w].pc # "idle" =>
         worker[w].delivery <= Given(job[worker[w].run])
    /\ \A v, w \in Workers :
         v # w /\ worker[v].pc # "idle" /\ worker[w].pc # "idle" /\ worker[v].run = worker[w].run
           => worker[v].delivery # worker[w].delivery
    /\ \A w \in Workers : worker[w].pc \in Before =>
         \A row \in Keys : row[1] = worker[w].delivery => candidate[worker[w].run][row] = None

LEMMA GivenGrows ==
    ASSUME TypeOK, AllWithin, [Next]_vars, NEW r \in Runs
    PROVE  /\ Given(job[r]) \in Nat /\ Given(job'[r]) \in Nat
           /\ Given(job[r]) <= Given(job'[r])
<1>a. job \in [Runs -> JobRecords]
  BY DEF TypeOK
<1>1. ASSUME NEW j \in JobRecords PROVE Given(j) \in Nat
  BY DEF JobRecords, Given
<1>2. ASSUME NEW j \in JobRecords, NEW k \in JobRecords, Becomes(j, k)
      PROVE  Given(j) <= Given(k)
  <2>1. /\ j.made \in Nat /\ j.stalled \in Nat /\ k.made \in Nat /\ k.stalled \in Nat
    BY DEF JobRecords
  <2>2. CASE SameCounts(j, k)
    BY <1>2, <2>1, <2>2 DEF Becomes, SameCounts, Given
  <2>3. CASE k.made + k.stalled = j.made + j.stalled + 1
    BY <2>1, <2>3 DEF Given
  <2> QED
    BY <1>2, <2>1, <2>2, <2>3 DEF Becomes, SameCounts
<1>3. CASE job' = job
  BY <1>1, <1>3, <1>a
<1>4. ASSUME NEW s \in Runs, NEW k \in JobRecords, Becomes(job[s], k), job' = [job EXCEPT ![s] = k]
      PROVE  Given(job[r]) <= Given(job'[r]) /\ Given(job'[r]) \in Nat
  <2>1. job'[r] = IF r = s THEN k ELSE job[r]
    BY <1>4, <1>a
  <2>2. Given(job[r]) \in Nat
    BY <1>1, <1>a
  <2> QED
    BY <1>1, <1>2, <1>4, <1>a, <2>1, <2>2
<1> QED
  BY <1>1, <1>3, <1>4, <1>a, JobsBecome

LEMMA MovesBefore ==
    ASSUME TypeOK, NEW w \in Workers, Moves(w)
    PROVE  /\ worker'[w].delivery = worker[w].delivery
           /\ worker'[w].pc \in Before => worker[w].pc \in Before /\ ~PersistCandidates(w)
<1>a. worker \in [Workers -> SlotRecords]
  BY DEF TypeOK
<1>1. ASSUME NEW pc, Goto(w, pc)
      PROVE  worker'[w].delivery = worker[w].delivery /\ worker'[w].pc = pc
  BY <1>1, <1>a DEF Goto, SlotRecords
<1>2. CASE Discover(w)
  BY <1>2, <1>1, <1>a DEF Discover, SlotRecords, Before, PersistCandidates
<1>3. CASE Finish(w)
  BY <1>3, <1>a DEF Finish, SlotRecords, Before
<1>4. CASE LoadRun(w) \/ MarkRunning(w) \/ ClearCandidates(w)
  BY <1>4, <1>1 DEF LoadRun, MarkRunning, ClearCandidates, Before, PersistCandidates
<1>5. CASE CoverageGap(w) \/ PersistCandidates(w) \/ CheckCurrent(w) \/ Report(w) \/ Catch(w)
           \/ FailRun(w) \/ Throw(w)
  <2>1. PICK pc \in {"end", "check", "finish", "failRun", "rethrow", "catch"} : Goto(w, pc)
    BY <1>5 DEF CoverageGap, PersistCandidates, CheckCurrent, Report, Catch, FailRun, Throw
  <2> QED
    BY <1>1, <2>1 DEF Before
<1> QED
  BY <1>2, <1>3, <1>4, <1>5 DEF Moves

LEMMA CandidateMoves ==
    ASSUME TypeOK, [Next]_vars, NEW r \in Runs
    PROVE  \/ candidate'[r] = candidate[r]
           \/ \E q \in Requests : (DecideCommit(q) \/ PublishCommit(q)) /\ request[q].run = r
           \/ \E w \in Workers :
                /\ Moves(w) /\ worker[w].pc \in Working /\ worker[w].run = r
                /\ \A row \in Keys :
                     \/ candidate'[r][row] \in {None, candidate[r][row]}
                     \/ /\ PersistCandidates(w) /\ row[1] = worker[w].delivery
                        /\ candidate'[r][row] = worker[w].found[Law(row)]
<1>a. candidate \in [Runs -> [Keys -> Candidates \cup {None}]]
  BY DEF TypeOK
<1>1. ASSUME NEW q \in Requests, DecideCommit(q) \/ PublishCommit(q), request[q].run # r
      PROVE  candidate'[r] = candidate[r]
  <2>1. CASE DecideCommit(q)
    BY <1>1, <1>a, <2>1 DEF DecideCommit
  <2>2. CASE PublishCommit(q)
    BY <1>1, <1>a, <2>2 DEF PublishCommit
  <2> QED
    BY <1>1, <2>1, <2>2
<1>2. ASSUME NEW w \in Workers, Moves(w), candidate'[r] # candidate[r]
      PROVE  /\ worker[w].pc \in Working /\ worker[w].run = r
             /\ \A row \in Keys :
                  \/ candidate'[r][row] \in {None, candidate[r][row]}
                  \/ /\ PersistCandidates(w) /\ row[1] = worker[w].delivery
                     /\ candidate'[r][row] = worker[w].found[Law(row)]
  <2>1. CASE ClearCandidates(w)
    BY <1>2, <1>a, <2>1 DEF ClearCandidates, Working
  <2>2. CASE PersistCandidates(w)
    <3>1. worker[w].run = r /\ worker[w].pc \in Working
      BY <1>2, <1>a, <2>2 DEF PersistCandidates, Working
    <3>2. \A row \in Keys : candidate'[r][row] =
            IF row[1] = worker[w].delivery THEN worker[w].found[Law(row)] ELSE candidate[r][row]
      BY <1>a, <2>2, <3>1 DEF PersistCandidates
    <3> QED
      BY <2>2, <3>1, <3>2
  <2>3. CASE ~ClearCandidates(w) /\ ~PersistCandidates(w)
    BY <1>2, <2>3 DEF Moves, LoadRun, MarkRunning, Discover, CoverageGap, CheckCurrent, Finish,
                      Report, Catch, FailRun, Throw
  <2> QED
    BY <2>1, <2>2, <2>3
<1>3. CASE Elsewhere
  BY <1>1, <1>3 DEF Elsewhere, StartRead, StartCommit, EnqueueFails, FailWatch, DecideRead,
       PublishRead, ClaimFails, RequestDies, ReviewAnalysis, EditProfile, CompleteProfile,
       ImpactIgnored, ImpactDeferred, ImpactRead, ImpactCreate, ImpactFound, ImpactFails, vars
<1>4. CASE Adds \/ \E s \in Runs : StallJob(s)
  BY <1>4 DEF Adds, Enqueue, ImpactEnqueue, StallJob
<1>5. ASSUME NEW w \in Workers, (\E s \in Runs : TakeJob(w, s)) \/ Leaves(w)
      PROVE  candidate' = candidate
  BY <1>5, LeavesKeep DEF TakeJob
<1> QED
  BY <1>2, <1>3, <1>4, <1>5, StepKinds

\* A candidate that a person has decided.
Human(c) == c # None /\ c.source = "HUMAN" /\ c.decision \in Decisions

\* What a person decides is recorded as theirs; what was not asked about stays.
LEMMA DecideCommitted ==
    ASSUME TypeOK, NEW q \in Requests, DecideCommit(q), NEW r \in Runs, request[q].run = r,
           NEW row \in Keys
    PROVE  \/ candidate'[r][row] = candidate[r][row]
           \/ candidate[r][row] # None /\ Human(candidate'[r][row])
<1>1. PICK decided \in [request[q].rows -> Decisions] :
        candidate' = [candidate EXCEPT ![r] = [c \in Keys |->
          IF c \in request[q].rows /\ @[c] # None
          THEN [@[c] EXCEPT !.decision = decided[c], !.source = "HUMAN"] ELSE @[c]]]
  BY DEF DecideCommit
<1>2. candidate'[r][row] = IF row \in request[q].rows /\ candidate[r][row] # None
        THEN [candidate[r][row] EXCEPT !.decision = decided[row], !.source = "HUMAN"]
        ELSE candidate[r][row]
  BY <1>1 DEF TypeOK
<1>3. ASSUME candidate[r][row] # None, row \in request[q].rows
      PROVE  Human([candidate[r][row] EXCEPT !.decision = decided[row], !.source = "HUMAN"])
  <2>1. candidate[r][row] \in Candidates /\ decided[row] \in Decisions
    BY <1>3 DEF TypeOK
  <2> DEFINE new == [candidate[r][row] EXCEPT !.decision = decided[row], !.source = "HUMAN"]
  <2>2. new \in Candidates
    BY <2>1, Zenon DEF Candidates
  <2>3. new.source = "HUMAN" /\ new.decision = decided[row]
    BY <2>1 DEF Candidates
  <2> HIDE DEF new
  <2>4. Human(new)
    BY <2>1, <2>2, <2>3, CandidateAssumption DEF Human
  <2> QED
    BY <2>4 DEF new
<1> QED
  BY <1>2, <1>3

\* An automatic publication decides the rows that it remembers, and no others.
LEMMA PublishCommitted ==
    ASSUME TypeOK, NEW q \in Requests, PublishCommit(q), NEW r \in Runs, request[q].run = r,
           NEW row \in Keys
    PROVE  IF row \in request[q].rows
           THEN /\ candidate[r][row] # None /\ candidate'[r][row] # None
                /\ candidate'[r][row].decision = "APPLICABLE"
                /\ candidate'[r][row].source = "SYSTEM"
           ELSE candidate'[r][row] = candidate[r][row]
<1>1. candidate'[r][row] = IF row \in request[q].rows
        THEN [candidate[r][row] EXCEPT !.decision = "APPLICABLE", !.source = "SYSTEM",
                                       !.review = FALSE]
        ELSE candidate[r][row]
  BY DEF PublishCommit, TypeOK
<1>2. row \in request[q].rows => candidate[r][row] # None
  BY DEF PublishCommit, RowsLeft
<1>3. ASSUME candidate[r][row] # None, NEW new,
             new = [candidate[r][row] EXCEPT !.decision = "APPLICABLE", !.source = "SYSTEM",
                                             !.review = FALSE]
      PROVE  new # None /\ new.decision = "APPLICABLE" /\ new.source = "SYSTEM"
  <2>1. candidate[r][row] \in Candidates
    BY <1>3 DEF TypeOK
  <2>2. [candidate[r][row] EXCEPT !.decision = "APPLICABLE", !.source = "SYSTEM", !.review = FALSE]
          \in Candidates
    BY <2>1, Zenon DEF Candidates, Decisions
  <2> QED
    BY <1>3, <2>1, <2>2, CandidateAssumption DEF Candidates
<1> QED
  BY <1>1, <1>2, <1>3

\* A row appears only when a slot writes those of its delivery.
LEMMA RowsAppear ==
    ASSUME TypeOK, [Next]_vars, NEW r \in Runs, NEW row \in Keys,
           candidate[r][row] = None, candidate'[r][row] # None
    PROVE  \E w \in Workers : /\ PersistCandidates(w) /\ Moves(w) /\ worker[w].run = r
                              /\ row[1] = worker[w].delivery
BY CandidateMoves, DecideCommitted, PublishCommitted

\* How the delivery of a slot moves.
LEMMA SlotMoves ==
    ASSUME TypeOK, Launching, [Next]_vars, NEW w \in Workers
    PROVE  \/ worker'[w].pc = "idle"
           \/ worker'[w] = worker[w]
           \/ Moves(w)
           \/ \E r \in Runs : /\ TakeJob(w, r) /\ worker'[w].run = r
                              /\ worker'[w].delivery = job[r].made + job[r].stalled + 1
<1>a. worker \in [Workers -> SlotRecords]
  BY DEF TypeOK
<1>1. ASSUME NEW r \in Runs, TakeJob(w, r)
      PROVE  /\ worker'[w].run = r
             /\ worker'[w].delivery = job[r].made + job[r].stalled + 1
  BY <1>1, <1>a DEF TakeJob, Idle
<1>2. CASE Leaves(w)
  BY <1>2, LeavesKeep DEF Idle
<1>3. CASE Elsewhere \/ Adds \/ \E r \in Runs : StallJob(r)
  BY <1>3, ElsewhereKeeps, AddsKeep, StallKeeps
<1>4. ASSUME NEW v \in Workers, v # w, (\E r \in Runs : TakeJob(v, r)) \/ Moves(v) \/ Leaves(v)
      PROVE  worker'[w] = worker[w]
  BY <1>4, TakesKeep, MovesKeep, LeavesKeep
<1> QED
  BY <1>1, <1>2, <1>3, <1>4, StepKinds

LEMMA ToldStep ==
    ASSUME TypeOK, Held, Launching, AllWithin, Told, [Next]_vars
    PROVE  Told'
<1>a. /\ \A r \in Runs : Given(job[r]) \in Nat /\ Given(job'[r]) \in Nat
      /\ \A r \in Runs : Given(job[r]) <= Given(job'[r])
  BY GivenGrows
<1>b. /\ \A row \in Keys : row[1] \in Nat
      /\ \A w \in Workers : worker[w].delivery \in Nat
      /\ \A w \in Workers : worker[w].pc # "idle" => worker[w].run \in Runs
  BY DeliveryAssumption DEF TypeOK, SlotRecords, Keys, Deliveries, Held
<1>c. ASSUME NEW w \in Workers, NEW r \in Runs, TakeJob(w, r), worker'[w].run = r,
             worker'[w].delivery = job[r].made + job[r].stalled + 1
      PROVE  /\ candidate' = candidate /\ \A v \in Workers : v # w => worker'[v] = worker[v]
             /\ worker'[w].delivery <= Given(job'[r])
             /\ worker'[w].delivery \in Nat /\ Given(job[r]) < worker'[w].delivery
  <2>1. /\ candidate' = candidate /\ \A v \in Workers : v # w => worker'[v] = worker[v]
        /\ job[r].status = "waiting"
    BY <1>c, TakesKeep
  <2>2. job'[r].status = "active" /\ job'[r].made = job[r].made /\ job'[r].stalled = job[r].stalled
    BY <1>c DEF TakeJob, Queue!Take, Queue!Taken, TypeOK, JobRecords
  <2>3. job[r].made \in Nat /\ job[r].stalled \in Nat
    BY DEF TypeOK, JobRecords
  <2> QED
    BY <1>c, <2>1, <2>2, <2>3 DEF Given
<1>1. ASSUME NEW r \in Runs, NEW row \in Keys, candidate'[r][row] # None
      PROVE  row[1] <= Given(job'[r])
  <2>1. row[1] <= Given(job[r])
    <3>1. CASE candidate[r][row] # None
      BY <3>1 DEF Told
    <3>2. CASE candidate[r][row] = None
      <4>1. PICK w \in Workers : /\ PersistCandidates(w) /\ worker[w].run = r
                                 /\ row[1] = worker[w].delivery
        BY <1>1, <3>2, RowsAppear
      <4> QED
        BY <4>1 DEF Told, PersistCandidates
    <3> QED
      BY <3>1, <3>2
  <2> QED
    BY <1>a, <1>b, <2>1
<1>2. ASSUME NEW w \in Workers, worker'[w].pc # "idle"
      PROVE  worker'[w].delivery <= Given(job'[worker'[w].run])
  <2>1. CASE worker'[w] = worker[w] \/ Moves(w)
    <3>1. /\ worker'[w].run = worker[w].run /\ worker'[w].delivery = worker[w].delivery
          /\ worker[w].pc # "idle"
      BY <1>2, <2>1, MovesKeep, MovesBefore
    <3>2. worker[w].delivery <= Given(job[worker[w].run]) /\ worker[w].run \in Runs
      BY <1>b, <3>1 DEF Told
    <3> QED
      BY <1>a, <1>b, <3>1, <3>2
  <2> QED
    BY <1>2, <1>c, <2>1, SlotMoves
<1>3. ASSUME NEW v \in Workers, NEW w \in Workers, v # w, worker'[v].pc # "idle",
             worker'[w].pc # "idle", worker'[v].run = worker'[w].run
      PROVE  worker'[v].delivery # worker'[w].delivery
  <2>1. ASSUME NEW x \in Workers, NEW y \in Workers, x # y, worker'[y].pc # "idle",
               worker'[x].run = worker'[y].run,
               NEW r \in Runs, TakeJob(x, r), worker'[x].run = r,
               worker'[x].delivery = job[r].made + job[r].stalled + 1
        PROVE  worker'[x].delivery # worker'[y].delivery
    <3>1. worker'[y] = worker[y] /\ Given(job[r]) < worker'[x].delivery /\ worker'[x].delivery \in Nat
      BY <1>c, <2>1
    <3>2. worker[y].delivery <= Given(job[r])
      BY <2>1, <3>1 DEF Told
    <3> QED
      BY <1>a, <1>b, <3>1, <3>2
  <2>2. CASE (worker'[v] = worker[v] \/ Moves(v)) /\ (worker'[w] = worker[w] \/ Moves(w))
    <3>1. /\ worker'[v].run = worker[v].run /\ worker'[v].delivery = worker[v].delivery
          /\ worker'[w].run = worker[w].run /\ worker'[w].delivery = worker[w].delivery
          /\ worker[v].pc # "idle" /\ worker[w].pc # "idle"
      BY <1>3, <2>2, MovesKeep, MovesBefore
    <3> QED
      BY <1>3, <3>1 DEF Told
  <2>3. CASE ~(worker'[v] = worker[v] \/ Moves(v))
    <3>1. PICK r \in Runs : /\ TakeJob(v, r) /\ worker'[v].run = r
                            /\ worker'[v].delivery = job[r].made + job[r].stalled + 1
      BY <1>3, <2>3, SlotMoves
    <3> QED
      BY <1>3, <2>1, <3>1
  <2>4. CASE ~(worker'[w] = worker[w] \/ Moves(w))
    <3>1. PICK r \in Runs : /\ TakeJob(w, r) /\ worker'[w].run = r
                            /\ worker'[w].delivery = job[r].made + job[r].stalled + 1
      BY <1>3, <2>4, SlotMoves
    <3> QED
      BY <1>3, <2>1, <3>1
  <2> QED
    BY <2>2, <2>3, <2>4
<1>4. ASSUME NEW w \in Workers, worker'[w].pc \in Before, NEW row \in Keys,
             row[1] = worker'[w].delivery
      PROVE  candidate'[worker'[w].run][row] = None
  <2>1. CASE worker'[w] = worker[w] \/ Moves(w)
    <3>1. /\ worker'[w].run = worker[w].run /\ worker'[w].delivery = worker[w].delivery
          /\ worker[w].pc \in Before /\ worker[w].pc # "idle"
          /\ ~ (PersistCandidates(w) /\ Moves(w))
      <4>1. CASE worker'[w] = worker[w]
        <5>1. PersistCandidates(w) => worker'[w].pc = "check"
          BY DEF PersistCandidates, Goto, TypeOK, SlotRecords
        <5> QED
          BY <1>4, <4>1, <5>1 DEF Before
      <4>2. CASE Moves(w)
        BY <1>4, <4>2, MovesKeep, MovesBefore
      <4> QED
        BY <2>1, <4>1, <4>2
    <3>2. worker[w].run \in Runs /\ candidate[worker[w].run][row] = None
      BY <1>4, <1>b, <3>1 DEF Told
    <3>3. ASSUME candidate'[worker[w].run][row] # None PROVE FALSE
      <4>1. PICK v \in Workers : /\ PersistCandidates(v) /\ Moves(v) /\ worker[v].run = worker[w].run
                                 /\ row[1] = worker[v].delivery
        BY <3>2, <3>3, RowsAppear
      <4>2. v # w /\ worker[v].pc # "idle"
        BY <3>1, <4>1 DEF PersistCandidates
      <4> QED
        BY <1>4, <3>1, <4>1, <4>2 DEF Told
    <3> QED
      BY <3>1, <3>3
  <2>2. CASE ~(worker'[w] = worker[w] \/ Moves(w))
    <3>1. PICK r \in Runs : /\ TakeJob(w, r) /\ worker'[w].run = r
                            /\ worker'[w].delivery = job[r].made + job[r].stalled + 1
      BY <1>4, <2>2, SlotMoves DEF Before
    <3>2. candidate' = candidate /\ Given(job[r]) < row[1]
      BY <1>4, <1>c, <3>1
    <3>3. candidate[r][row] # None => row[1] <= Given(job[r])
      BY DEF Told
    <3> QED
      BY <1>a, <1>b, <3>1, <3>2, <3>3
  <2> QED
    BY <2>1, <2>2
<1> QED
  BY <1>1, <1>2, <1>3, <1>4 DEF Told

-----------------------------------------------------------------------------
(* The decisions on the candidates.                                        *)

\* A candidate as discovery or an automatic publication leaves it.
Discovered(c) == c # None => c.source # "HUMAN" /\ c.decision \in {"APPLICABLE", None}

\* A person's decisions are those of runs whose analysis is over, unless a slot has lost
\* the lock of its job.
Decided ==
    /\ \A r \in Runs : \A row \in Keys :
         \/ Discovered(candidate[r][row])
         \/ Human(candidate[r][row]) /\ (r \notin overtaken => Settled(r))
    /\ \A w \in Workers : \A l \in Laws : Discovered(worker[w].found[l])

\* The rows that an automatic publication of run r decides.
Undecided(r, auto) ==
    {c \in Keys : auto /\ candidate[r][c] # None /\ candidate[r][c].source # "HUMAN"}

\* A publication that can still claim the watch would not decide a row that a person has,
\* and read what the candidates are now, unless a slot has lost the lock of the run's job.
UpToDate ==
    \A q \in Requests : request[q].pc \in {"decide", "publish"} =>
      /\ request[q].revision <= watch.revision
      /\ request[q].revision = watch.revision =>
           /\ request[q].pc = "publish" =>
                \A row \in request[q].rows : Discovered(candidate[request[q].run][row])
           /\ request[q].run \notin overtaken => request[q].run \notin Published
           /\ request[q].pc = "publish" /\ request[q].run \notin overtaken =>
                /\ request[q].found = Applicable(request[q].run, request[q].auto)
                /\ request[q].rows = Undecided(request[q].run, request[q].auto)

LEMMA DraftedDiscovered ==
    ASSUME NEW laws, NEW auto \in AutoModes, NEW found \in Discoveries(laws, auto), NEW l \in Laws
    PROVE  Discovered(found[l])
<1>1. ASSUME NEW change \in {"ADDED", "UNCHANGED", "MODIFIED"} PROVE Discovered(Drafted(change, auto))
  BY NoneAssumption DEF Drafted, Discovered
<1>2. found[l] \in {None} \cup {Drafted(change, auto) : change \in {"ADDED", "UNCHANGED", "MODIFIED"}}
  BY DEF Discoveries
<1> QED
  BY <1>1, <1>2 DEF Discovered

LEMMA FoundMoves ==
    ASSUME TypeOK, [Next]_vars, NEW w \in Workers, NEW l \in Laws, Discovered(worker[w].found[l])
    PROVE  Discovered(worker'[w].found[l])
<1>a. worker \in [Workers -> SlotRecords] /\ Discovered(Idle.found[l])
  BY DEF TypeOK, Idle, Discovered
<1>1. ASSUME NEW pc, Goto(w, pc) PROVE worker'[w].found = worker[w].found
  BY <1>1, <1>a DEF Goto, SlotRecords
<1>2. CASE Discover(w)
  <2>1. CASE Goto(w, "end")
    BY <1>1, <2>1
  <2>2. CASE ~Goto(w, "end")
    <3>1. PICK auto \in AutoModes : \E found \in Discoveries(BaseLaws(worker[w].run), auto) :
            worker' = [worker EXCEPT ![w].found = found,
              ![w].pc = IF \A k \in Laws : found[k] = None THEN "gap" ELSE "clear"]
      BY <1>2, <2>2 DEF Discover
    <3>3. PICK found \in Discoveries(BaseLaws(worker[w].run), auto), pc \in {"gap", "clear"} :
            worker' = [worker EXCEPT ![w].found = found, ![w].pc = pc]
      BY <3>1
    <3>2. worker'[w].found = found
      BY <1>a, <3>3 DEF SlotRecords
    <3> QED
      BY <3>2, DraftedDiscovered
  <2> QED
    BY <2>1, <2>2
<1>3. CASE Finish(w)
  <2>1. worker'[w].found = Idle.found
    BY <1>3, <1>a DEF Finish, SlotRecords
  <2> QED
    BY <1>a, <2>1
<1>4. CASE LoadRun(w) \/ MarkRunning(w) \/ CoverageGap(w) \/ ClearCandidates(w)
           \/ PersistCandidates(w) \/ CheckCurrent(w) \/ Report(w) \/ Catch(w) \/ FailRun(w) \/ Throw(w)
  BY <1>4, <1>1 DEF LoadRun, MarkRunning, CoverageGap, ClearCandidates, PersistCandidates,
                    CheckCurrent, Report, Catch, FailRun, Throw
<1>5. CASE Leaves(w)
  BY <1>5, <1>a, LeavesKeep
<1>6. ASSUME NEW r \in Runs, TakeJob(w, r) PROVE worker'[w].found = Idle.found
  BY <1>6, <1>a DEF TakeJob, Idle
<1>7. CASE Elsewhere \/ Adds \/ \E r \in Runs : StallJob(r)
  BY <1>7, ElsewhereKeeps DEF Adds, Enqueue, ImpactEnqueue, StallJob
<1>8. ASSUME NEW v \in Workers, v # w, (\E r \in Runs : TakeJob(v, r)) \/ Moves(v) \/ Leaves(v)
      PROVE  worker'[w] = worker[w]
  BY <1>8, <1>a, MovesKeep, LeavesKeep DEF TakeJob
<1> QED
  BY <1>2, <1>3, <1>4, <1>5, <1>6, <1>7, <1>8, <1>a, StepKinds DEF Moves

LEMMA DecidedStep ==
    ASSUME AInv, Decided, [Next]_vars
    PROVE  Decided'
<1>a. TypeOK /\ Launching /\ overtaken \subseteq overtaken'
  BY OvertakenStays DEF AInv, IInv
<1>1. ASSUME NEW r \in Runs, NEW row \in Keys
      PROVE  (\/ Discovered(candidate[r][row])
              \/ Human(candidate[r][row]) /\ (r \notin overtaken => Settled(r)))'
  <2>1. Settled(r) => Settled(r)'
    BY <1>a, SettledKept
  <2>2. CASE candidate'[r][row] = candidate[r][row]
    BY <1>a, <2>1, <2>2 DEF Decided, Discovered, Human
  <2>3. ASSUME NEW q \in Requests, DecideCommit(q), request[q].run = r
        PROVE  (\/ Discovered(candidate[r][row])
                \/ Human(candidate[r][row]) /\ (r \notin overtaken => Settled(r)))'
    <3>1. r \notin overtaken => Settled(r)
      BY <2>3 DEF AInv, Reviewed, DecideCommit
    <3>2. candidate'[r][row] = candidate[r][row] \/ Human(candidate'[r][row])
      BY <1>a, <2>3, DecideCommitted
    <3> QED
      BY <1>a, <2>1, <2>2, <3>1, <3>2 DEF Human
  <2>4. ASSUME NEW q \in Requests, PublishCommit(q), request[q].run = r
        PROVE  candidate'[r][row] = candidate[r][row] \/ Discovered(candidate[r][row])'
    BY <1>a, <2>4, PublishCommitted DEF Discovered
  <2>5. ASSUME NEW w \in Workers, candidate'[r][row] \in {None, worker[w].found[Law(row)]}
        PROVE  Discovered(candidate[r][row])'
    <3>1. Law(row) \in Laws
      BY DEF Keys, Law
    <3> QED
      BY <2>5, <3>1 DEF Decided, Discovered
  <2> QED
    BY <1>a, <2>2, <2>3, <2>4, <2>5, CandidateMoves
<1>2. ASSUME NEW w \in Workers, NEW l \in Laws PROVE Discovered(worker[w].found[l])'
  BY <1>a, FoundMoves DEF Decided, Discovered
<1> QED
  BY <1>1, <1>2 DEF Decided

LEMMA RevisionMoves ==
    ASSUME TypeOK, [Next]_vars
    PROVE  /\ watch.revision \in Nat /\ watch'.revision \in {watch.revision, watch.revision + 1}
           /\ \A q \in Requests : DecideCommit(q) \/ PublishCommit(q) =>
                watch'.revision = watch.revision + 1
<1>a. watch \in WatchRecords
  BY DEF TypeOK
<1>1. ASSUME NEW q \in Requests, DecideCommit(q) \/ PublishCommit(q)
      PROVE  watch'.revision = watch.revision + 1
  <2>1. CASE DecideCommit(q)
    <3>1. watch' = [watch EXCEPT !.revision = watch.revision + 1]
      BY <2>1 DEF DecideCommit
    <3> QED
      BY <3>1, <1>a DEF WatchRecords
  <2>2. CASE PublishCommit(q)
    BY <2>2 DEF PublishCommit
  <2> QED
    BY <1>1, <2>1, <2>2
<1>2. ASSUME NEW q \in Requests, RequestStep(q)
      PROVE  watch'.revision \in {watch.revision, watch.revision + 1}
  BY <1>1, <1>2, <1>a DEF RequestStep, WatchRecords, StartRead, StartCommit, Enqueue, EnqueueFails,
       FailWatch, DecideRead, PublishRead, ClaimFails, RequestDies
<1>3. ASSUME NEW e \in Events, ImpactStep(e)
      PROVE  watch'.revision \in {watch.revision, watch.revision + 1}
  BY <1>3, <1>a DEF ImpactStep, WatchRecords, ImpactIgnored, ImpactDeferred, ImpactRead,
       ImpactCreate, ImpactFound, ImpactEnqueue, ImpactFails
<1>4. ASSUME NEW w \in Workers, (\E r \in Runs : TakeJob(w, r)) \/ Moves(w) \/ Leaves(w)
      PROVE  watch'.revision = watch.revision
  BY <1>4, <1>a, LeavesKeep DEF TakeJob, Moves, WatchRecords, LoadRun, MarkRunning, Discover,
       CoverageGap, ClearCandidates, PersistCandidates, CheckCurrent, Finish, Report, Catch,
       FailRun, Throw
<1>5. ASSUME \/ \E r \in Runs : ReviewAnalysis(r) \/ StallJob(r)
             \/ \E next \in {"COMPLETE", "STALE"} : EditProfile(next)
             \/ CompleteProfile \/ UNCHANGED vars
      PROVE  watch'.revision \in {watch.revision, watch.revision + 1}
  BY <1>5, <1>a DEF ReviewAnalysis, StallJob, EditProfile, CompleteProfile, WatchRecords, vars
<1> QED
  BY <1>a, <1>1, <1>2, <1>3, <1>4, <1>5 DEF Next, Proceed, Moves, Leaves, WatchRecords

LEMMA RequestReads ==
    ASSUME TypeOK, [Next]_vars, NEW q \in Requests, request'[q].pc \in {"decide", "publish"}
    PROVE  \/ request'[q] = request[q]
           \/ /\ candidate' = candidate /\ watch' = watch /\ baseline' = baseline
              /\ overtaken' = overtaken
              /\ request'[q].run \in Runs /\ run[request'[q].run].status \in Reviewable
              /\ request'[q].revision = watch.revision
              /\ request'[q].pc = "publish" =>
                   \E auto \in BOOLEAN : \E r \in Runs :
                     /\ auto = request'[q].auto /\ r = request'[q].run
                     /\ request'[q].found = Applicable(r, auto)
                     /\ request'[q].rows = Undecided(r, auto)
<1>a. request \in [Requests -> RequestRecords]
  BY DEF TypeOK
<1>1. CASE PublishRead(q)
  <2>1. PICK r \in Runs, auto \in BOOLEAN :
          /\ run[r].status \in Reviewable
          /\ request' = [request EXCEPT ![q] =
               [pc |-> "publish", run |-> r, base |-> run[r].base, auto |-> auto,
                found |-> Applicable(r, auto), revision |-> watch.revision,
                rows |-> Undecided(r, auto)]]
    BY <1>1 DEF PublishRead, Undecided
  <2> QED
    BY <1>1, <1>a, <2>1 DEF PublishRead
<1>2. CASE DecideRead(q) /\ request'[q].pc = "decide"
  BY <1>2, RequestMoves DEF DecideRead
<1> QED
  BY <1>1, <1>2, RequestMoves

\* What a publication would read depends on the candidates of its run only.
LEMMA ReadsKept ==
    ASSUME NEW r \in Runs, NEW auto \in BOOLEAN, candidate'[r] = candidate[r]
    PROVE  Applicable(r, auto)' = Applicable(r, auto) /\ Undecided(r, auto)' = Undecided(r, auto)
BY DEF Applicable, Undecided

LEMMA UndecidedDiscovered ==
    ASSUME Decided, NEW r \in Runs, NEW auto \in BOOLEAN, NEW row \in Undecided(r, auto)
    PROVE  Discovered(candidate[r][row])
BY DEF Decided, Undecided, Human

LEMMA UpToDateStep ==
    ASSUME AInv, Decided, UpToDate, [Next]_vars
    PROVE  UpToDate'
<1>a. TypeOK /\ overtaken \subseteq overtaken'
  BY OvertakenStays DEF AInv, IInv
<1>b. /\ watch.revision \in Nat
      /\ \A q \in Requests : /\ request[q].revision \in Nat /\ request[q].auto \in BOOLEAN
                             /\ request[q].rows \in SUBSET Keys
  BY <1>a DEF TypeOK, WatchRecords, RequestRecords
<1> SUFFICES ASSUME NEW q \in Requests, request'[q].pc \in {"decide", "publish"}
             PROVE  (/\ request[q].revision <= watch.revision
                     /\ request[q].revision = watch.revision =>
                          /\ request[q].pc = "publish" =>
                               \A row \in request[q].rows : Discovered(candidate[request[q].run][row])
                          /\ request[q].run \notin overtaken => request[q].run \notin Published
                          /\ request[q].pc = "publish" /\ request[q].run \notin overtaken =>
                               /\ request[q].found = Applicable(request[q].run, request[q].auto)
                               /\ request[q].rows = Undecided(request[q].run, request[q].auto))'
  BY DEF UpToDate
<1>1. CASE request'[q] = request[q]
  <2>a. PICK r \in Runs : r = request[q].run /\ (r \notin overtaken => Settled(r))
    BY <1>1 DEF AInv, Reviewed
  <2>b. PICK auto \in BOOLEAN : auto = request[q].auto
    BY <1>b
  <2>1. request[q].revision <= watch.revision
    BY <1>1 DEF UpToDate
  <2>2. request'[q].revision <= watch'.revision
    BY <1>1, <1>a, <1>b, <2>1, RevisionMoves
  <2>3. ASSUME request'[q].revision = watch'.revision
        PROVE  /\ watch.revision = request[q].revision
               /\ ~ \E p \in Requests : DecideCommit(p) \/ PublishCommit(p)
    <3>1. watch'.revision = watch.revision /\ watch.revision = request[q].revision
      BY <1>1, <1>a, <1>b, <2>1, <2>3, RevisionMoves
    <3> QED
      BY <1>a, <3>1, RevisionMoves
  <2>4. ASSUME request'[q].revision = watch'.revision, request[q].pc = "publish",
               NEW row \in request[q].rows
        PROVE  Discovered(candidate'[r][row])
    <3>1. row \in Keys /\ Law(row) \in Laws
      BY <1>b DEF Keys, Law
    <3>2. Discovered(candidate[r][row])
      BY <2>a, <2>3, <2>4 DEF UpToDate
    <3>3. \/ candidate'[r] = candidate[r]
          \/ candidate'[r][row] \in {None, candidate[r][row]}
          \/ \E w \in Workers : candidate'[r][row] = worker[w].found[Law(row)]
      BY <1>a, <2>3, <2>4, <3>1, CandidateMoves
    <3> QED
      BY <3>1, <3>2, <3>3 DEF Decided, Discovered
  <2>5. ASSUME request'[q].revision = watch'.revision, r \notin overtaken'
        PROVE  r \notin Published' /\ candidate'[r] = candidate[r]
    <3>1. candidate'[r] = candidate[r]
      BY <1>a, <2>a, <2>3, <2>5, CandidateMoves DEF Settled
    <3>2. r \notin Published
      BY <1>1, <1>a, <2>a, <2>3, <2>5 DEF UpToDate
    <3>3. baseline' = baseline
      BY <1>a, <2>3, <2>5, RegisterKept
    <3> QED
      BY <3>1, <3>2, <3>3 DEF Published
  <2>6. ASSUME request'[q].revision = watch'.revision, request'[q].pc = "publish", r \notin overtaken'
        PROVE  (/\ request[q].found = Applicable(request[q].run, request[q].auto)
                /\ request[q].rows = Undecided(request[q].run, request[q].auto))'
    <3>1. request[q].found = Applicable(r, auto) /\ request[q].rows = Undecided(r, auto)
      BY <1>1, <1>a, <2>a, <2>b, <2>3, <2>6 DEF UpToDate
    <3>2. (Applicable(r, auto))' = Applicable(r, auto) /\ (Undecided(r, auto))' = Undecided(r, auto)
      BY <2>5, <2>6, ReadsKept
    <3> QED
      BY <1>1, <2>a, <2>b, <3>1, <3>2
  <2> QED
    BY <1>1, <2>a, <2>2, <2>4, <2>5, <2>6
<1>2. CASE request'[q] # request[q]
  <2>1. /\ candidate' = candidate /\ watch' = watch /\ baseline' = baseline
        /\ overtaken' = overtaken
        /\ request'[q].run \in Runs /\ run[request'[q].run].status \in Reviewable
        /\ request'[q].revision = watch.revision
        /\ request'[q].pc = "publish" =>
             \E auto \in BOOLEAN : \E r \in Runs :
               /\ auto = request'[q].auto /\ r = request'[q].run
               /\ request'[q].found = Applicable(r, auto)
               /\ request'[q].rows = Undecided(r, auto)
    BY <1>a, <1>2, RequestReads
  <2>2. request'[q].run \notin overtaken => request'[q].run \notin Published'
    BY <2>1 DEF AInv, Reviewed, Published
  <2>3. ASSUME request'[q].pc = "publish"
        PROVE  (/\ \A row \in request[q].rows : Discovered(candidate[request[q].run][row])
                /\ request[q].found = Applicable(request[q].run, request[q].auto)
                /\ request[q].rows = Undecided(request[q].run, request[q].auto))'
    <3>1. PICK auto \in BOOLEAN, r \in Runs :
            /\ auto = request'[q].auto /\ r = request'[q].run
            /\ request'[q].found = Applicable(r, auto)
            /\ request'[q].rows = Undecided(r, auto)
      BY <2>1, <2>3
    <3>2. (Applicable(r, auto))' = Applicable(r, auto) /\ (Undecided(r, auto))' = Undecided(r, auto)
      BY <2>1, ReadsKept
    <3>3. \A row \in request'[q].rows : Discovered(candidate'[r][row])
      BY <2>1, <3>1, UndecidedDiscovered
    <3>4. \A row \in request'[q].rows : Discovered(candidate[request[q].run][row])'
      BY <3>1, <3>3 DEF Discovered
    <3> QED
      BY <3>1, <3>2, <3>4
  <2> QED
    BY <1>b, <2>1, <2>2, <2>3
<1> QED
  BY <1>1, <1>2

\* At its commit a publication has read what its run then records as applicable.
LEMMA PublishRecords ==
    ASSUME AInv, Decided, UpToDate, NEW q \in Requests, PublishCommit(q), NEW r \in Runs,
           r = request[q].run, r \notin overtaken
    PROVE  request[q].found = Applicable(r, FALSE)'
<1>a. TypeOK
  BY DEF AInv, IInv
<1>1. PICK auto \in BOOLEAN : auto = request[q].auto
  BY <1>a DEF TypeOK, RequestRecords
<1>2. request[q].found = Applicable(r, auto) /\ request[q].rows = Undecided(r, auto)
  BY <1>1 DEF UpToDate, PublishCommit, PublicationClaimed, RevisionClaimed
<1>3. ASSUME NEW row \in Keys
      PROVE  (/\ candidate[r][row] # None
              /\ "APPLICABLE" = IF auto THEN AutomaticDecision(candidate[r][row])
                                ELSE candidate[r][row].decision)
             <=> candidate'[r][row] # None /\ candidate'[r][row].decision = "APPLICABLE"
  <2>1. CASE row \in Undecided(r, auto)
    <3>1. Discovered(candidate[r][row]) /\ candidate[r][row] # None /\ auto
      BY <2>1 DEF Decided, Undecided, Human
    <3>2. AutomaticDecision(candidate[r][row]) = "APPLICABLE"
      BY <3>1 DEF AutomaticDecision, Discovered
    <3> QED
      BY <1>a, <1>2, <2>1, <3>1, <3>2, PublishCommitted
  <2>2. CASE row \notin Undecided(r, auto)
    <3>1. candidate'[r][row] = candidate[r][row]
      BY <1>a, <1>2, <2>2, PublishCommitted
    <3>2. auto /\ candidate[r][row] # None => Human(candidate[r][row])
      BY <2>2 DEF Undecided, Decided, Discovered
    <3>3. auto /\ candidate[r][row] # None => candidate[r][row].decision # None
      BY <3>2, CandidateAssumption DEF Human
    <3> QED
      BY <3>1, <3>3 DEF AutomaticDecision
  <2> QED
    BY <2>1, <2>2
<1> QED
  BY <1>2, <1>3 DEF Applicable

LEMMA AsDecidedStep ==
    ASSUME AInv, Decided, UpToDate, RegisterAsDecided, [Next]_vars
    PROVE  RegisterAsDecided'
<1>a. TypeOK /\ overtaken \subseteq overtaken'
  BY OvertakenStays DEF AInv, IInv
<1>1. ASSUME NEW q \in Requests, DecideCommit(q) \/ PublishCommit(q),
             request[q].run \notin overtaken
      PROVE  request[q].run \notin Published
  BY <1>1 DEF UpToDate, DecideCommit, PublishCommit, PublicationClaimed, RevisionClaimed
<1>2. ASSUME NEW b \in Published, b \notin overtaken PROVE candidate'[b] = candidate[b]
  BY <1>1, <1>2, <1>a, CandidateMoves DEF AInv, Reviewed, Settled, Published
<1>3. ASSUME NEW b \in Published, b \notin overtaken
      PROVE  Applicable(b, FALSE)' = Applicable(b, FALSE)
  BY <1>2, <1>3, ReadsKept DEF Published
<1>4. CASE ~ \E q \in Requests : PublishCommit(q)
  <2>1. baseline' = baseline
    BY <1>a, <1>4, RegisterKept
  <2> QED
    BY <1>a, <1>3, <2>1 DEF RegisterAsDecided, Published
<1>5. ASSUME NEW q \in Requests, PublishCommit(q) PROVE RegisterAsDecided'
  <2>1. PICK r \in Runs : r = request[q].run
    BY <1>5 DEF AInv, Reviewed, PublishCommit
  <2>2. /\ Published' = Published \cup {r}
        /\ baseline'[r] = [status |-> "PUBLISHED", previous |-> watch.current,
                           sequence |-> Cardinality(Published) + 1,
                           entries |-> request[q].found, platform |-> FALSE]
        /\ \A b \in Published : baseline'[b].entries = baseline[b].entries
    BY <1>5, <2>1, PublishStep DEF AInv
  <2>3. r \notin overtaken => r \notin Published
    BY <1>1, <1>5, <2>1
  <2>4. \A b \in Published : b # r => baseline'[b].platform = baseline[b].platform
    BY <1>5, <1>a, <2>1 DEF PublishCommit, Retired, Published, TypeOK, BaselineRecords
  <2>5. ASSUME r \notin overtaken PROVE baseline'[r].entries = Applicable(r, FALSE)'
    <3>1. baseline'[r].entries = request[q].found
      BY <2>2
    <3>2. request[q].found = Applicable(r, FALSE)'
      BY <1>5, <2>1, <2>5, PublishRecords
    <3> QED
      BY <3>1, <3>2
  <2>6. ASSUME NEW b \in Published, b # r, b \notin overtaken, ~baseline'[b].platform
        PROVE  baseline'[b].entries = Applicable(b, FALSE)'
    BY <1>3, <2>2, <2>4, <2>6 DEF RegisterAsDecided
  <2> QED
    BY <1>a, <2>2, <2>5, <2>6 DEF RegisterAsDecided
<1> QED
  BY <1>4, <1>5

\* What holds of the decisions in every reachable state.
DInv == AInv /\ AllWithin /\ Told /\ Decided /\ UpToDate /\ RegisterAsDecided

LEMMA InitDecisions == Init => DInv
<1> SUFFICES ASSUME Init PROVE DInv
  OBVIOUS
<1>a. /\ \A r \in Runs : \A row \in Keys : candidate[r][row] = None
      /\ \A w \in Workers : worker[w].pc = "idle" /\ worker[w].found = Idle.found
  BY DEF Init, Idle
<1>1. Decided /\ Told
  BY <1>a DEF Decided, Told, Before, Discovered, Idle
<1>b. AllWithin
  BY DEF Init, Queue!Init, Queue!NoJob, AllWithin, Within
<1>2. UpToDate
  BY DEF Init, UpToDate, Free
<1>3. RegisterAsDecided
  <2>1. CASE FreshWatch
    BY <2>1 DEF FreshWatch, RegisterAsDecided, Published, NoBaseline
  <2>2. CASE PlatformWatch
    BY <2>2 DEF PlatformWatch, RegisterAsDecided, Published, NoBaseline
  <2> QED
    BY <2>1, <2>2 DEF Init
<1> QED
  BY <1>1, <1>b, <1>2, <1>3, InitAnalyses DEF DInv

LEMMA DecisionsStep == DInv /\ [Next]_vars => DInv'
<1> SUFFICES ASSUME DInv, [Next]_vars PROVE DInv'
  OBVIOUS
<1>1. TypeOK /\ Held /\ Launching
  BY DEF DInv, AInv, IInv
<1> QED
  BY <1>1, AnalysesStep, DeliveryStep, ToldStep, DecidedStep, UpToDateStep, AsDecidedStep DEF DInv

\* A register says what was decided: its entries are the laws its run records as applicable,
\* at the publication and ever after, although they are read before the claim, and analyses,
\* decisions and redelivered jobs go on meanwhile (publishWithMode), as long as no live slot
\* loses the lock of the run's job.
THEOREM DecisionsRegistered == Spec => []RegisterAsDecided
<1>1. DInv => RegisterAsDecided
  BY DEF DInv
<1> QED
  BY <1>1, InitDecisions, DecisionsStep, PTL DEF Spec

\* A person's decision is neither deleted by a redelivered analysis nor replaced by the
\* system on publication; only a person who claims a new revision decides otherwise.  What
\* a slot that has lost its lock may do is to delete it: it never writes another one there.
THEOREM PeopleDecide == Spec => HumanDecisionKept
<1> DEFINE Kept == \A r \in Runs : \A row \in Keys :
         (candidate[r][row] # None /\ candidate[r][row].source = "HUMAN") =>
           IF candidate'[r][row] = None THEN r \in overtaken
           ELSE /\ candidate'[r][row].source = "HUMAN"
                /\ candidate'[r][row] # candidate[r][row] => watch'.revision > watch.revision
<1>1. ASSUME DInv, [Next]_vars PROVE Kept
  <2>a. TypeOK
    BY <1>1 DEF DInv, AInv, IInv
  <2> SUFFICES ASSUME NEW r \in Runs, NEW row \in Keys, candidate[r][row] # None,
                      candidate[r][row].source = "HUMAN"
               PROVE  IF candidate'[r][row] = None THEN r \in overtaken
                      ELSE /\ candidate'[r][row].source = "HUMAN"
                           /\ candidate'[r][row] # candidate[r][row] =>
                                watch'.revision > watch.revision
    OBVIOUS
  <2>1. ~Discovered(candidate[r][row]) /\ (r \notin overtaken => Settled(r))
    BY <1>1 DEF DInv, Decided, Discovered
  <2>2. CASE candidate'[r][row] = candidate[r][row]
    BY <2>2
  <2>3. ASSUME NEW q \in Requests, DecideCommit(q), request[q].run = r
        PROVE  \/ candidate'[r][row] = candidate[r][row]
               \/ /\ candidate'[r][row] # None /\ candidate'[r][row].source = "HUMAN"
                  /\ watch'.revision > watch.revision
    <3>1. candidate'[r][row] = candidate[r][row] \/ Human(candidate'[r][row])
      BY <2>a, <2>3, DecideCommitted
    <3> QED
      BY <1>1, <2>a, <2>3, <3>1, RevisionMoves DEF Human
  <2>4. ASSUME NEW q \in Requests, PublishCommit(q), request[q].run = r
        PROVE  candidate'[r][row] = candidate[r][row]
    <3>1. row \notin request[q].rows
      BY <1>1, <2>1, <2>4 DEF DInv, UpToDate, PublishCommit, PublicationClaimed, RevisionClaimed
    <3> QED
      BY <2>a, <2>4, <3>1, PublishCommitted
  <2>5. ASSUME NEW w \in Workers, worker[w].pc \in Working, worker[w].run = r
        PROVE  /\ r \in overtaken
               /\ ~ (PersistCandidates(w) /\ row[1] = worker[w].delivery)
    BY <1>1, <2>1, <2>5 DEF DInv, Settled, Told, Before, PersistCandidates
  <2> QED
    BY <1>1, <2>a, <2>2, <2>3, <2>4, <2>5, CandidateMoves
<1>2. Spec => []DInv
  BY InitDecisions, DecisionsStep, PTL DEF Spec
<1>3. DInv /\ [Next]_vars => [Kept]_vars
  BY <1>1
<1>4. HumanDecisionKept <=> [][Kept]_vars
  BY DEF HumanDecisionKept
<1> QED
  BY <1>2, <1>3, <1>4, PTL DEF Spec

=============================================================================
