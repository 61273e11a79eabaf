---------------------------- MODULE MCDocuments ----------------------------
(* Instances for TLC of the documents of the SMQ.  A behaviour is one of a  *)
(* planning document, of the scope statement, or of a process sheet; the    *)
(* other two stay as they start.                                            *)
EXTENDS PlanningDocument

CONSTANTS
    Facts, Declarations, Coherent, ScopeWrites,  \* as ScopeStatement has them
    SheetSources, MapCurrent, SheetWrites, SheetSlots  \* as ProcessSheet has them

VARIABLES
    scFacts, scState, scVerification, scStatement, scRun, scJob, scRequest, scSlot,
    shSources, shSheet, shVersion, shRun, shJob, shRequest, shSlot

Scope == INSTANCE ScopeStatement WITH
    MaxWrites <- ScopeWrites,
    facts <- scFacts, state <- scState, verification <- scVerification,
    statement <- scStatement, run <- scRun, job <- scJob, request <- scRequest, slot <- scSlot

Sheet == INSTANCE ProcessSheet WITH
    Sources <- SheetSources, MaxWrites <- SheetWrites, Slots <- SheetSlots,
    sources <- shSources, sheet <- shSheet, version <- shVersion,
    run <- shRun, job <- shJob, request <- shRequest, slot <- shSlot

\* No sheet is none of the sheets there may be.
ASSUME DocumentsAssumption ==
    /\ Coherent \subseteq Declarations /\ MapCurrent \subseteq SheetSources
    /\ ScopeWrites \in Nat /\ SheetWrites \in Nat
    /\ None \notin SheetSlots
    /\ None \notin [revision : Nat, fingerprint : SheetSources, content : Sheet!Contents]

scVars == <<scFacts, scState, scVerification, scStatement, scRun, scJob, scRequest, scSlot>>
shVars == <<shSources, shSheet, shVersion, shRun, shJob, shRequest, shSlot>>
mcVars == <<vars, scVars, shVars>>

PlanningStarts ==
    /\ module = "policy" /\ state.fingerprint = None /\ sources = CHOOSE s \in ScopeDone : TRUE
    /\ Init
ScopeStarts ==
    /\ scFacts = CHOOSE f \in Facts : TRUE
    /\ scState.declaration = CHOOSE d \in Declarations : d \notin Coherent
    /\ Scope!Init
SheetStarts ==
    /\ shSources = CHOOSE s \in MapCurrent : TRUE
    /\ shSheet = None
    /\ Sheet!Init

MCInit ==
    \/ Init /\ Scope!Init /\ ScopeStarts /\ Sheet!Init /\ SheetStarts
    \/ Init /\ PlanningStarts /\ Scope!Init /\ Sheet!Init /\ SheetStarts
    \/ Init /\ PlanningStarts /\ Scope!Init /\ ScopeStarts /\ Sheet!Init

\* A document moves while the others are at their start.
MCNext ==
    \/ ScopeStarts /\ SheetStarts /\ Next /\ UNCHANGED <<scVars, shVars>>
    \/ PlanningStarts /\ SheetStarts /\ Scope!Next /\ UNCHANGED <<vars, shVars>>
    \/ PlanningStarts /\ ScopeStarts /\ Sheet!Next /\ UNCHANGED <<vars, scVars>>

SheetFairness ==
    /\ \A q \in Requests : WF_shVars(Sheet!Enqueue(q) \/ Sheet!EnqueueFails(q))
    /\ \A w \in SheetSlots : WF_shVars(Sheet!Proceed(w))
    /\ \A r \in Runs : WF_shVars(\E w \in SheetSlots : Sheet!TakeJob(w, r))
    /\ \A r \in Runs : WF_shVars(Sheet!Analysis!Abandoned(r) /\ Sheet!Stall(r))

MCSpec == MCInit /\ [][MCNext]_mcVars /\ SheetFairness

-----------------------------------------------------------------------------
\* The properties of the other modules.
VersionsFollowVerifications == Scope!TypeOK /\ Scope!VersionsFollowVerifications
SheetDecisionsOnSources == Sheet!TypeOK /\ Sheet!DecisionsOnSources
ProposalKept ==
    Sheet!ProposalKept /\ Sheet!AppliedToItsSheet /\ Scope!AppliedToItsDeclaration
SheetRunEnds == Sheet!RunEnds
DeliveryImplemented ==
    /\ Analysis!Queue!DeliveryImplemented
    /\ Scope!Analysis!Queue!DeliveryImplemented
    /\ Sheet!Analysis!Queue!DeliveryImplemented
=============================================================================
