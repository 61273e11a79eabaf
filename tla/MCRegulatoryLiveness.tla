------------------------ MODULE MCRegulatoryLiveness ------------------------
(* Liveness of the passes and of the analyses in one instance for TLC.  A   *)
(* behaviour is one of the evaluation or one of the watch; the other stays   *)
(* as it starts, where no fair action of it is enabled.  Of the watch: one   *)
(* analysis on which two slots may work, or the analysis that a request      *)
(* started and the one of a new document version that supersedes it.         *)
EXTENDS RegulatoryEvaluation

CONSTANTS
    MaxRuns, Laws, Requests, Events, AutoModes,  \* as RegulatoryWatch has them
    WatchWorkers, WatchAttempts, WatchMaxStalled, WatchMaxRevision

VARIABLES watch, run, candidate, baseline, profile, watchJob, request, slot, impact, overtaken

Watch == INSTANCE RegulatoryWatch WITH
    Workers <- WatchWorkers, Attempts <- WatchAttempts,
    MaxStalled <- WatchMaxStalled, MaxRevision <- WatchMaxRevision,
    job <- watchJob, worker <- slot

watchVars == <<watch, run, candidate, baseline, profile, watchJob, request, slot, impact,
  overtaken>>
mcVars == <<vars, watchVars>>

\* Nobody decides or publishes: both need an analysis that has ended.
Undecided ==
    /\ profile = "COMPLETE"
    /\ \A q \in Requests : request[q].pc \notin {"decide", "publish"}
    /\ \A r \in Watch!Runs : ~run[r].reviewed

OneAnalysis ==
    /\ Watch!Created \subseteq {1} /\ Undecided
    /\ \A e \in Events : impact[e].pc = "pending"

OneSlot == CHOOSE w \in WatchWorkers : TRUE

\* Only the first delivery of the first job may end with an error or a crash.
OneFault ==
    \A r \in Watch!Runs :
      \/ r = 2 /\ watchJob[r].made + watchJob[r].stalled = 0
      \/ /\ watchJob[r].status = "active" => ~Watch!Abandoned(r)
         /\ \A w \in WatchWorkers : slot[w].run = r => slot[w].pc \notin {"catch", "failRun"}

Superseding ==
    /\ 1 \in Watch!Published /\ Undecided /\ OneFault
    /\ \A w \in WatchWorkers : w # OneSlot => slot[w].pc = "idle"

WatchPart == OneAnalysis \/ Superseding

MCInit == Init /\ Watch!Init

MCNext ==
    \/ Watch!Init /\ Watch!FreshWatch /\ Next /\ UNCHANGED watchVars
    \/ Init /\ Watch!Next /\ WatchPart' /\ UNCHANGED vars

\* The fairness of RegulatoryWatch.
WatchFairness ==
    /\ \A w \in WatchWorkers : WF_watchVars(Watch!Proceed(w))
    /\ \A r \in Watch!Runs :
         /\ WF_watchVars(\E w \in WatchWorkers : Watch!TakeJob(w, r))
         /\ WF_watchVars(Watch!Abandoned(r) /\ Watch!StallJob(r))
    /\ \A q \in Requests :
         /\ WF_watchVars(Watch!Enqueue(q) \/ Watch!EnqueueFails(q))
         /\ WF_watchVars(Watch!FailWatch(q))
    /\ \A e \in Events : WF_watchVars(Watch!ImpactEnqueue(e))

MCSpec == MCInit /\ [][MCNext]_mcVars /\ Fairness /\ WatchFairness

-----------------------------------------------------------------------------
\* Every analysis ends, as RegulatoryWatch states it.
AnalysisEnds == Watch!AnalysisEnds
=============================================================================
