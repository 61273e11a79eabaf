------------------------------- MODULE MCSmq -------------------------------
(* Instances for TLC of the two registers of the SMQ.  A behaviour is one   *)
(* of the interested parties or one of the risks and opportunities; the     *)
(* other register stays as it starts.                                       *)
EXTENDS PipRegister

CONSTANTS
    Items, Sources, Levels, MaxEvidence,  \* as RoRegister has them
    RoSlots, RoAttempts, RoMaxWrites

VARIABLES roEvidence, roState, roItem, roAction, roRun, roJob, roRequest, roSlot

Ro == INSTANCE RoRegister WITH
    Slots <- RoSlots, Attempts <- RoAttempts, MaxWrites <- RoMaxWrites,
    SourceOf <- [i \in Items |-> CHOOSE s \in Sources : TRUE],
    BranchOf <- [s \in Sources |-> "context_issue"],
    evidence <- roEvidence, state <- roState, item <- roItem, action <- roAction,
    run <- roRun, job <- roJob, request <- roRequest, slot <- roSlot

\* As PipRegister assumes of its constants.
ASSUME RoAssumption ==
    /\ MaxEvidence \in Nat /\ RoMaxWrites \in Nat /\ RoAttempts \in Nat \ {0}
    /\ Items # {} /\ Sources # {} /\ Levels # {}
    /\ None \notin Levels \cup Sources \cup RoSlots
    /\ None \notin Ro!ItemRows \cup Ro!ActionRows

roVars == <<roEvidence, roState, roItem, roAction, roRun, roJob, roRequest, roSlot>>
mcVars == <<vars, roVars>>

RoStarts == Ro!Init /\ roState.revision = 0
PipStarts == Init /\ state.revision = 0

MCInit == (Init /\ RoStarts) \/ (PipStarts /\ Ro!Init)

\* A register moves while the other is at its start.
MCNext ==
    \/ RoStarts /\ Next /\ UNCHANGED roVars
    \/ PipStarts /\ Ro!Next /\ UNCHANGED vars

\* The fairness is that of PipRegister.
MCSpec == MCInit /\ [][MCNext]_mcVars /\ Fairness

-----------------------------------------------------------------------------
\* The properties of RoRegister.
RisksTreated == Ro!TypeOK /\ Ro!ActionUpToDate /\ Ro!ValidatedComplete
AppliedToTheItems == Ro!AppliedToItsRegister
=============================================================================
