---------------------------- MODULE MCNormative ----------------------------
(* NormativeDocument for TLC.  Its safety is checked of four parts of its   *)
(* behaviour: one version that is processed again after failures and lost   *)
(* locks, two jobs that work on one version, a job that lost its lock and   *)
(* goes on beside its redelivery, and two versions.  That processing ends   *)
(* is checked of an instance of one version and one slot; while the one     *)
(* moves, the other stays as it starts.                                     *)
EXTENDS NormativeDocument

TheSlot == CHOOSE w \in Slots : TRUE

VARIABLES
    part,  \* what is followed
    theDocument, theVersion, theStage, theJob, theRequest, theSlot, theWrites

Followed == INSTANCE NormativeDocument WITH
    Versions <- {1}, Slots <- {TheSlot}, FirstStages <- {3}, MaxGenerations <- 2,
    document <- theDocument, version <- theVersion, stage <- theStage, job <- theJob,
    request <- theRequest, slot <- theSlot, writes <- theWrites

theVars == <<theDocument, theVersion, theStage, theJob, theRequest, theSlot, theWrites>>
mcVars == <<vars, theVars, part>>

-----------------------------------------------------------------------------
Pending == {id \in DOMAIN job : job[id].status \in {"waiting", "active"}}

\* The pipelines that wait, or are about to, begin with this stage.
Begin(first) ==
    /\ \A id \in Pending \cap PipelineIds : Head(job[id].stages) = first
    /\ \A q \in Requests : request[q].pc = "enqueue" /\ request[q].id \in PipelineIds =>
         Head(request[q].stages) = first

OneVersion == \A v \in Versions : version[v].status # "none" => v = 1
OneSlot == \A w \in Slots : slot[w].pc # "idle" => w = TheSlot
TwoGenerations == \A v \in Versions : Unused(v, 3)
OneAttempt == \A id \in DOMAIN job : job[id].status = "active" => job[id].made = 0
NoneStalled == \A id \in DOMAIN job : job[id].status = "active" => job[id].stalled = 0

\* What the states of each of the parts are.
Part(p) ==
    \/ p = "again" /\ OneVersion /\ OneSlot /\ TwoGenerations /\ Begin(3)
    \/ p = "overlap" /\ OneVersion /\ OneAttempt /\ NoneStalled /\ Begin(3)
    \/ p = "stalled" /\ OneVersion /\ OneAttempt /\ TwoGenerations /\ writes <= 1
    \/ p = "versions" /\ OneSlot /\ OneAttempt /\ NoneStalled /\ TwoGenerations /\ Begin(1)

-----------------------------------------------------------------------------
Starts == Init /\ NothingDone
FollowedStarts == Followed!Init /\ Followed!NothingDone

MCInit ==
    \/ Init /\ FollowedStarts /\ part \in {"again", "overlap", "stalled", "versions"} /\ Part(part)
    \/ Starts /\ Followed!Init /\ part = "followed"

MCNext ==
    /\ UNCHANGED part
    /\ \/ Next /\ Part(part)' /\ UNCHANGED theVars
       \/ part = "followed" /\ Followed!Next /\ UNCHANGED vars

MCSpec == MCInit /\ [][MCNext]_mcVars /\ Followed!Fairness

\* The processing of the single version ends.
FollowedEnds == Followed!ProcessingEnds
=============================================================================
