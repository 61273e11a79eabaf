---------------------------- MODULE AnalysisRun ----------------------------
(***************************************************************************)
(* What the analyses of the SMQ modules have in common: a run row that a   *)
(* request creates as DRAFT under the lock of the project, the job that is *)
(* added after that transaction, and the slots of a worker that take the   *)
(* job, mark the run, generate and write a result.                         *)
(*                                                                         *)
(* The modules of the analyses instantiate this one, state what a launch   *)
(* requires and what a result does, and say which of the variants below    *)
(* their processor is.  run[r], request[q] and slot[w] are records that    *)
(* each module may extend.                                                 *)
(***************************************************************************)
EXTENDS Integers

CONSTANTS
    Runs,        \* runs, numbered in the order of their creation
    Requests,    \* API requests in progress at a time
    Slots,       \* slots of the worker
    Attempts,    \* attempts of a job
    MaxStalled,  \* stalls of a job that are forgiven
    None         \* no value

VARIABLES
    run,      \* the rows of the runs
    job,      \* the job of each run, as WorkQueue has it
    request,  \* what an API request has read or created
    slot      \* what a slot of the worker is at

Queue == INSTANCE WorkQueue WITH Jobs <- Runs

Active == {"DRAFT", "RUNNING"}
Ended == {"COMPLETED", "FAILED"}

Free == [pc |-> "idle", run |-> None, read |-> None]
Idle == [pc |-> "idle", run |-> None, made |-> 0, found |-> None]

Init ==
    /\ Queue!Init
    /\ request = [q \in Requests |-> Free]
    /\ slot = [w \in Slots |-> Idle]

\* The partial unique index of active runs.
NoOtherActive(r) == \A s \in Runs : s = r \/ run[s].status \notin Active
NoActiveRun == \A s \in Runs : run[s].status \notin Active

IsNext(r) == run[r].status = "none" /\ \A s \in Runs : s < r => run[s].status # "none"

-----------------------------------------------------------------------------
(* The request.                                                            *)

Read(q, what) ==
    /\ request[q].pc = "idle"
    /\ request' = [request EXCEPT ![q] = [Free EXCEPT !.pc = "read", !.read = what]]
    /\ UNCHANGED <<run, job, slot>>

Done(q) == request' = [request EXCEPT ![q] = Free]

\* The run is created by the transaction of a launch.
Create(q, row) ==
    \E r \in Runs :
      /\ IsNext(r)
      /\ run' = [run EXCEPT ![r] = row]
      /\ request' = [request EXCEPT ![q] = [Free EXCEPT !.pc = "enqueue", !.run = r]]

Enqueue(q) ==
    /\ request[q].pc = "enqueue"
    /\ Queue!Add(request[q].run)
    /\ Done(q)
    /\ UNCHANGED <<run, slot>>

EnqueueFails(q) ==
    /\ request[q].pc = "enqueue"
    /\ run' = [run EXCEPT ![request[q].run].status = "FAILED"]
    /\ Done(q)
    /\ UNCHANGED <<job, slot>>

\* The request is refused, or its process dies.
RequestEnds(q) ==
    /\ request[q].pc # "idle"
    /\ Done(q)
    /\ UNCHANGED <<run, job, slot>>

-----------------------------------------------------------------------------
(* The worker.                                                             *)

Goto(w, pc) == slot' = [slot EXCEPT ![w].pc = pc]

\* The first query of the processor: a run that has ended is left alone.
TakeJob(w, r) ==
    /\ slot[w].pc = "idle"
    /\ Queue!Take(r, w)
    /\ slot' = [slot EXCEPT ![w] =
         [Idle EXCEPT !.pc = IF run[r].status \in Ended THEN "end" ELSE "mark",
                      !.run = r, !.made = job[r].made]]
    /\ UNCHANGED <<run, request>>

\* attemptsMade of the job that the slot was given, though it may have lost it since.
MoreAttempts(w) == slot[w].made + 1 < Attempts

\* An update outside the try block, that only the index of active runs can refuse.
MarkRunning(w) ==
    LET r == slot[w].run IN
    /\ slot[w].pc = "mark"
    /\ IF NoOtherActive(r)
       THEN Goto(w, "generate") /\ run' = [run EXCEPT ![r].status = "RUNNING"]
       ELSE Goto(w, "throw") /\ UNCHANGED run
    /\ UNCHANGED <<job, request>>

\* The variant that claims the run: an ended one is no longer touched.
ClaimRun(w) ==
    LET r == slot[w].run IN
    /\ slot[w].pc = "mark"
    /\ IF run[r].status \in Active
       THEN Goto(w, "generate") /\ run' = [run EXCEPT ![r].status = "RUNNING"]
       ELSE Goto(w, "end") /\ UNCHANGED run
    /\ UNCHANGED <<job, request>>

\* Another slot was faster: the transaction of the result does nothing.
AlreadyPersisted(w, statuses) ==
    /\ slot[w].pc = "persist"
    /\ run[slot[w].run].status \in statuses
    /\ Goto(w, "end")
    /\ UNCHANGED <<run, job, request>>

\* The input has changed, or the transaction failed: nothing of it stays.
PersistFails(w) ==
    /\ slot[w].pc = "persist"
    /\ Goto(w, "fail")
    /\ UNCHANGED <<run, job, request>>

\* The end of the catch block looks at nothing.
FailRun(w) ==
    /\ slot[w].pc = "fail"
    /\ run' = [run EXCEPT ![slot[w].run].status = "FAILED"]
    /\ Goto(w, "end")
    /\ UNCHANGED <<job, request>>

\* The variant that spares a completed run.
FailUnlessCompleted(w) ==
    /\ slot[w].pc = "fail"
    /\ run' = [run EXCEPT ![slot[w].run].status = IF @ = "COMPLETED" THEN @ ELSE "FAILED"]
    /\ Goto(w, "end")
    /\ UNCHANGED <<job, request>>

\* Mutant of EndJob: the error of an attempt is swallowed.
EndJobAlways(w) ==
    /\ slot[w].pc \in {"end", "throw"}
    /\ Queue!Complete(slot[w].run, w)
    /\ slot' = [slot EXCEPT ![w] = Idle]
    /\ UNCHANGED <<run, request>>

\* The processor returns, or throws and leaves the job to its next attempt.
EndJob(w) ==
    /\ slot[w].pc \in {"end", "throw"}
    /\ IF slot[w].pc = "end" THEN Queue!Complete(slot[w].run, w) ELSE Queue!Throw(slot[w].run, w)
    /\ slot' = [slot EXCEPT ![w] = Idle]
    /\ UNCHANGED <<run, request>>

\* The worker process dies at any step; the lock of its job expires later.
Crash(w) ==
    /\ slot[w].pc # "idle"
    /\ slot' = [slot EXCEPT ![w] = Idle]
    /\ UNCHANGED <<run, job, request>>

\* A lock expires: that of a dead slot, or that of one which goes on.
Stall(r) == Queue!Stall(r) /\ UNCHANGED <<run, request, slot>>

Abandoned(r) == \A w \in Slots : slot[w].run # r

-----------------------------------------------------------------------------
RequestTypes(reads) ==
    [pc : {"idle", "read", "enqueue"}, run : Runs \cup {None}, read : reads \cup {None}]
SlotTypes(founds) ==
    [pc : {"idle", "mark", "generate", "persist", "fail", "throw", "end"},
     run : Runs \cup {None}, made : 0..Attempts, found : founds \cup {None}]

\* Nobody will be given run r any more: its request died before the enqueue, or the
\* queue has given up its job.
Lost(r) ==
    \/ job[r].status = "none" /\ \A q \in Requests : request[q].run # r
    \/ job[r].status = "failed"

\* Its job was completed by a second slot, while the first, whose lock was lost, had
\* yet to mark the run, and died after it did.
Overtaken(r) == job[r].status = "completed" /\ job[r].stalled > 0

\* What RunEnds rests on: a job is completed by a slot that is done with the run, and no
\* other slot takes the run up again, unless the job was delivered again meanwhile.
RunEndsWithItsJob ==
    \A r \in Runs :
      job[r].status = "completed" /\ job[r].stalled = 0 => run[r].status \in Ended

\* Every run ends, through errors, crashes and lost locks, or is one of these orphans,
\* which keep the project from being analysed again.
RunEnds ==
    \A r \in Runs :
      run[r].status \in Active ~> (run[r].status \notin Active \/ Lost(r) \/ Overtaken(r))
=============================================================================
