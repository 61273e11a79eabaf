-------------------------- MODULE MCRegulatoryWatch --------------------------
(* Three parts of the behaviour of RegulatoryWatch for TLC: two analyses     *)
(* that are published against each other, one of two laws that is decided    *)
(* and published in both modes while its job is delivered again, and one of  *)
(* a single law on which two slots work at a time.                           *)
EXTENDS RegulatoryWatch, TLC

Proposed ==
    {Law(row) : row \in {c \in Keys : \E r \in Runs : candidate[r][c] # None}}
      \cup {l \in Laws : \E w \in Workers : worker[w].found[l] # None}

ToReview ==
    \/ \E r \in Runs, row \in Keys : candidate[r][row] # None /\ candidate[r][row].review
    \/ \E w \in Workers, l \in Laws : worker[w].found[l] # None /\ worker[w].found[l].review

OneSlot == Cardinality({w \in Workers : worker[w].pc # "idle"}) <= 1
OneRequest == Cardinality({q \in Requests : request[q].pc # "idle"}) <= 1
OneRun == \A r \in Runs : run[r].status # "none" => r = 1
OneLaw == Cardinality(Proposed) <= 1

\* People decide up to the third claim.  No slot dies and no job is delivered again.
TwoAnalyses ==
    /\ OneSlot /\ OneLaw
    /\ ToReview => watch.revision <= 4
    /\ \A r \in Runs : job[r].stalled = 0 /\ (job[r].status = "active" => ~Abandoned(r))

OneAnalysis == OneRun /\ overtaken = {} /\ profile = "COMPLETE" /\ watch.revision <= 5

Overlap == OneRun /\ OneLaw /\ OneRequest /\ profile = "COMPLETE" /\ watch.revision <= 4

Part == TwoAnalyses \/ OneAnalysis \/ Overlap

MCInit == Init /\ Part
MCNext == Next /\ Part'
MCSpec == MCInit /\ [][MCNext]_vars

\* Requests, laws and slots are interchangeable; runs are numbered.
Symmetry == Permutations(Requests) \cup Permutations(Laws) \cup Permutations(Workers)
=============================================================================
