----------------------- MODULE MCRegulatoryEvaluation -----------------------
(* Two parts of the behaviour of RegulatoryEvaluation for TLC: people who   *)
(* save one row while a pass is delivered again, and two passes that        *)
(* overlap over two rows and one budget.                                    *)
EXTENDS RegulatoryEvaluation, TLC

\* One pass; the other rows are no gaps and nobody touches them.
DeliveredAgain ==
    /\ row[1].result # "CONFORMING" /\ row[1].result # "NOT_ASSESSED"
    /\ \A r \in Rows \ {1} : row[r].result = "CONFORMING" /\ row[r].revision = 1
    /\ \A u \in Users : edit[u].row \in {None, 1}
    /\ \A j, k \in Jobs : job[j].status # "none" /\ job[k].status # "none" => j = k

\* All passes.  Either nobody saves, or the passes keep their locks and one person
\* saves each row once.
OverlappingPasses ==
    /\ \A r \in Rows : row[r].result \in {"PARTIAL", "NOT_ASSESSED"} /\ row[r].revision <= 2
    /\ \A u, v \in Users : edit[u].pc # "idle" /\ edit[v].pc # "idle" => u = v
    /\ \/ \A j \in Jobs : job[j].stalled = 0
       \/ /\ \A r \in Rows : row[r].revision = 1
          /\ \A u \in Users : edit[u].pc = "idle"

Part == DeliveredAgain \/ OverlappingPasses

MCInit == Init /\ Part
MCNext == Next /\ Part'
MCSpec == MCInit /\ [][MCNext]_vars

\* Jobs, slots, requests and calls are interchangeable; rows are ordered.
Symmetry ==
    Permutations(Jobs) \cup Permutations(Workers) \cup Permutations(Users)
      \cup Permutations(Calls)
=============================================================================
