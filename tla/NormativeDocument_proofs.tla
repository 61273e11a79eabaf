---------------------- MODULE NormativeDocument_proofs ----------------------
(***************************************************************************)
(* What holds of NormativeDocument for all versions, generations, requests *)
(* and slots.                                                              *)
(*                                                                         *)
(* No request and no slot looks again before it writes, so the invariant   *)
(* says of each what it carries: the version of a publication has been     *)
(* validated, what a slot has read are provisions of some structure, and   *)
(* the provisions that a structure detection makes are new to all slots.   *)
(***************************************************************************)
EXTENDS NormativeDocument, FiniteSetTheorems, TLAPS

DocumentRows ==
    [status : (Statuses \ {"none"}) \cup {"DRAFT", "ARCHIVED"}, current : Versions \cup {None}]

VersionRows ==
    [status : Statuses, file : BOOLEAN, validated : BOOLEAN, expired : BOOLEAN,
     provisions : Structures \cup {None}, chunks : Structures \cup {None, Unlinked},
     replaced : Versions \cup {None}, extraction : Generations \cup {None}]

StageRows == [Versions -> [Generations -> [Stages -> StageStatuses]]]

RequestRows ==
    [pc : {"idle", "start", "retry", "enqueue", "validate", "publish", "switch", "archive"},
     v : Versions \cup {None}, id : JobIds \cup {None}, stages : Seq(Int),
     current : Versions \cup {None}]

SlotRows ==
    [pc : {"idle", "next", "run", "detect", "chunk", "write", "done", "fail", "failed", "end",
           "throw"},
     job : JobIds \cup {None}, at : Nat, read : Structures \cup {None}, missed : BOOLEAN]

\* The chunks of a version are those of its structure or have lost it, and what is published or ready for
\* it has been validated.
RowOK(row) ==
    /\ row.chunks \in {None, Unlinked, row.provisions}
    /\ row.status \in {"VALIDATED", "PUBLISHED"} => row.validated
    /\ row.status = "none" => ~row.validated

VersionsOK == version \in [Versions -> VersionRows] /\ \A v \in Versions : RowOK(version[v])

\* A document is published as long as it has a current version.
DocumentOK ==
    /\ document \in DocumentRows
    /\ document.current # None <=> document.status = "PUBLISHED"
    /\ document.current # None => version[document.current].validated

RequestOK(q) ==
    /\ request[q] \in RequestRows
    /\ request[q].pc \in {"start", "validate", "publish", "switch"} => request[q].v \in Versions
    /\ request[q].pc \in {"retry", "enqueue"} => request[q].id \in JobIds
    /\ request[q].pc \in {"publish", "switch"} => version[request[q].v].validated

RequestsOK == DOMAIN request = Requests /\ \A q \in Requests : RequestOK(q)

SlotOK(w) ==
    /\ slot[w] \in SlotRows
    /\ slot[w].pc # "idle" \/ slot[w].job # None => slot[w].job \in DOMAIN job
    /\ slot[w].read # None => slot[w].pc \in {"chunk", "write"}

SlotsOK == DOMAIN slot = Slots /\ \A w \in Slots : SlotOK(w)

JobsOK == DOMAIN job \subseteq JobIds

IInv ==
    /\ VersionsOK /\ DocumentOK /\ RequestsOK /\ SlotsOK /\ JobsOK
    /\ stage \in StageRows /\ writes \in 0..MaxWrites

-----------------------------------------------------------------------------
(* The constants.                                                          *)

LEMMA StagesAreFour == Stages = 1..4
BY DEF Stages, Pipeline

LEMMA StagesFinite == IsFiniteSet(Stages)
<1>1. 1 \in Int /\ 4 \in Int
  OBVIOUS
<1>2. IsFiniteSet(1..4)
  BY <1>1, FS_Interval
<1> QED
  BY <1>2, StagesAreFour

LEMMA SlotsCounted == Cardinality(Slots) \in Nat
BY NormativeAssumption, FS_CardinalityType

LEMMA NoVersionOK == NoVersion \in VersionRows /\ RowOK(NoVersion)
BY DEF NoVersion, VersionRows, RowOK, Statuses

LEMMA FreeOK == Free \in RequestRows /\ Free.pc = "idle"
BY DEF Free, RequestRows

LEMMA IdleOK == Idle \in SlotRows /\ Idle.job = None /\ Idle.read = None /\ Idle.pc = "idle"
BY DEF Idle, SlotRows

-----------------------------------------------------------------------------
(* What a step may do to each of the variables.                            *)

\* Versions stay as they should be, and none loses its validation.
VersionsMove ==
    /\ VersionsOK'
    /\ \A v \in Versions : version[v].validated => version'[v].validated

DocumentMoves == DocumentOK'

RequestsMove == RequestsOK'

JobsGrow == DOMAIN job \subseteq DOMAIN job' /\ JobsOK'

StagesMove == stage' \in StageRows

WritesMove == writes' \in 0..MaxWrites

LEMMA VersionsStay ==
    ASSUME IInv, UNCHANGED version
    PROVE  VersionsMove
BY DEF IInv, VersionsMove, VersionsOK, RowOK

LEMMA OneVersion ==
    ASSUME IInv, NEW v, NEW row, version' = [version EXCEPT ![v] = row],
           v \in Versions =>
             row \in VersionRows /\ RowOK(row) /\ (version[v].validated => row.validated)
    PROVE  VersionsMove
<1>1. version' \in [Versions -> VersionRows]
  BY DEF IInv, VersionsOK
<1>2. ASSUME NEW u \in Versions
      PROVE  RowOK(version'[u]) /\ (version[u].validated => version'[u].validated)
  <2>1. CASE u = v
    <3>1. version'[u] = row
      BY <2>1 DEF IInv, VersionsOK
    <3> QED
      BY <2>1, <3>1
  <2>2. CASE u # v
    <3>1. version'[u] = version[u]
      BY <2>2 DEF IInv, VersionsOK
    <3> QED
      BY <3>1 DEF IInv, VersionsOK
  <2> QED
    BY <2>1, <2>2
<1>3. \A u \in Versions : RowOK(version'[u])
  BY <1>2
<1>4. VersionsOK'
  BY <1>1, <1>3 DEF VersionsOK, RowOK
<1> QED
  BY <1>2, <1>4 DEF VersionsMove

\* Another status, but none that asks for a validation.
LEMMA OtherStatus ==
    ASSUME IInv, NEW v,
           NEW s \in {"UPLOADED", "PROCESSING", "PROCESSING_FAILED", "REVIEW_REQUIRED"},
           version' = [version EXCEPT ![v].status = s]
    PROVE  VersionsMove
<1> DEFINE row == [version[v] EXCEPT !.status = s]
<1>1. version' = [version EXCEPT ![v] = row]
  OBVIOUS
<1>2. ASSUME v \in Versions
      PROVE  row \in VersionRows /\ RowOK(row) /\ (version[v].validated => row.validated)
  <2>1. version[v] \in VersionRows /\ RowOK(version[v])
    BY <1>2 DEF IInv, VersionsOK
  <2>2. row \in VersionRows /\ row.status = s /\ row.validated = version[v].validated
        /\ row.chunks = version[v].chunks /\ row.provisions = version[v].provisions
    BY <2>1 DEF VersionRows, Statuses
  <2> QED
    BY <2>1, <2>2 DEF RowOK
<1> HIDE DEF row
<1> QED
  BY <1>1, <1>2, OneVersion

LEMMA DocumentStays ==
    ASSUME IInv, VersionsMove, UNCHANGED document
    PROVE  DocumentMoves
BY DEF IInv, VersionsMove, DocumentMoves, DocumentOK, DocumentRows

LEMMA StatusMoves ==
    ASSUME IInv, VersionsMove,
           NEW s \in (Statuses \ {"none", "PUBLISHED"}) \cup {"DRAFT", "ARCHIVED"},
           StatusUnlessPublished(s)
    PROVE  DocumentMoves
<1>1. document \in DocumentRows /\ (document.current # None <=> document.status = "PUBLISHED")
      /\ (document.current # None => version[document.current].validated)
  BY DEF IInv, DocumentOK
<1>2. document' = [document EXCEPT !.status = IF document.current = None THEN s ELSE @]
  BY DEF StatusUnlessPublished
<1>3. CASE document.current = None
  <2>1. document' \in DocumentRows /\ document'.current = None /\ document'.status = s
    BY <1>1, <1>2, <1>3 DEF DocumentRows
  <2> QED
    BY <2>1 DEF DocumentMoves, DocumentOK
<1>4. CASE document.current # None
  <2>1. document' \in DocumentRows /\ document'.current = document.current
        /\ document'.status = document.status
    BY <1>1, <1>2, <1>4 DEF DocumentRows
  <2>2. document.current \in Versions
    BY <1>1, <1>4 DEF DocumentRows
  <2> QED
    BY <1>1, <1>4, <2>1, <2>2 DEF DocumentMoves, DocumentOK, VersionsMove
<1> QED
  BY <1>3, <1>4

LEMMA RequestsStay ==
    ASSUME IInv, VersionsMove, UNCHANGED request
    PROVE  RequestsMove
<1>1. ASSUME NEW q \in Requests
      PROVE  RequestOK(q)'
  <2>1. RequestOK(q) /\ request'[q] = request[q]
    BY DEF IInv, RequestsOK
  <2> QED
    BY <2>1 DEF RequestOK, VersionsMove
<1> QED
  BY <1>1 DEF IInv, RequestsOK, RequestsMove

LEMMA OneRequest ==
    ASSUME IInv, VersionsMove, NEW q \in Requests, NEW new \in RequestRows,
           request' = [request EXCEPT ![q] = new],
           new.pc \in {"start", "validate", "publish", "switch"} => new.v \in Versions,
           new.pc \in {"retry", "enqueue"} => new.id \in JobIds,
           new.pc \in {"publish", "switch"} => version[new.v].validated
    PROVE  RequestsMove
<1>1. ASSUME NEW r \in Requests
      PROVE  RequestOK(r)'
  <2>1. CASE r = q
    <3>1. request'[r] = new
      BY <2>1 DEF IInv, RequestsOK
    <3> QED
      BY <3>1 DEF RequestOK, VersionsMove
  <2>2. CASE r # q
    <3>1. RequestOK(r) /\ request'[r] = request[r]
      BY <2>2 DEF IInv, RequestsOK
    <3> QED
      BY <3>1 DEF RequestOK, VersionsMove
  <2> QED
    BY <2>1, <2>2
<1> QED
  BY <1>1 DEF IInv, RequestsOK, RequestsMove

LEMMA FreedRequest ==
    ASSUME IInv, VersionsMove, NEW q \in Requests, request' = [request EXCEPT ![q] = Free]
    PROVE  RequestsMove
BY FreeOK, OneRequest

LEMMA JobsStay ==
    ASSUME IInv, DOMAIN job' = DOMAIN job
    PROVE  JobsGrow
BY DEF IInv, JobsGrow, JobsOK

LEMMA SlotsStay ==
    ASSUME IInv, JobsGrow, UNCHANGED slot
    PROVE  SlotsOK'
<1>1. ASSUME NEW w \in Slots
      PROVE  SlotOK(w)'
  <2>1. SlotOK(w) /\ slot'[w] = slot[w]
    BY DEF IInv, SlotsOK
  <2> QED
    BY <2>1 DEF SlotOK, JobsGrow
<1> QED
  BY <1>1 DEF IInv, SlotsOK

LEMMA OneSlot ==
    ASSUME IInv, JobsGrow, NEW w \in Slots, NEW new \in SlotRows,
           slot' = [slot EXCEPT ![w] = new],
           new.pc # "idle" \/ new.job # None => new.job \in DOMAIN job,
           new.read # None => new.pc \in {"chunk", "write"}
    PROVE  SlotsOK'
<1>1. ASSUME NEW u \in Slots
      PROVE  SlotOK(u)'
  <2>1. CASE u = w
    <3>1. slot'[u] = new
      BY <2>1 DEF IInv, SlotsOK
    <3> QED
      BY <3>1 DEF SlotOK, JobsGrow
  <2>2. CASE u # w
    <3>1. SlotOK(u) /\ slot'[u] = slot[u]
      BY <2>2 DEF IInv, SlotsOK
    <3> QED
      BY <3>1 DEF SlotOK, JobsGrow
  <2> QED
    BY <2>1, <2>2
<1> QED
  BY <1>1 DEF IInv, SlotsOK

LEMMA StagesStay ==
    ASSUME IInv, UNCHANGED stage
    PROVE  StagesMove
BY DEF IInv, StagesMove

LEMMA OneStage ==
    ASSUME IInv, NEW v, NEW g, NEW t, NEW s \in StageStatuses,
           stage' = [stage EXCEPT ![v][g][t] = s]
    PROVE  StagesMove
BY DEF IInv, StagesMove, StageRows

LEMMA Written ==
    ASSUME IInv, Write
    PROVE  WritesMove
BY NormativeAssumption DEF IInv, Write, WritesMove

LEMMA NotWritten ==
    ASSUME IInv, UNCHANGED writes
    PROVE  WritesMove
BY DEF IInv, WritesMove

LEMMA Together ==
    ASSUME VersionsMove, DocumentMoves, RequestsMove, SlotsOK', JobsGrow, StagesMove, WritesMove
    PROVE  IInv'
BY DEF VersionsMove, DocumentMoves, RequestsMove, JobsGrow, StagesMove, WritesMove, IInv
-----------------------------------------------------------------------------
(* The requests.                                                           *)

LEMMA RequestTyped ==
    ASSUME IInv, NEW q \in Requests
    PROVE  RequestOK(q) /\ request[q] \in RequestRows
BY DEF IInv, RequestsOK, RequestOK

\* Nothing but a request has moved.
LEMMA OnlyRequest ==
    ASSUME IInv, RequestsMove, UNCHANGED <<document, version, stage, job, slot, writes>>
    PROVE  IInv'
<1>1. VersionsMove /\ StagesMove /\ WritesMove /\ JobsGrow
  BY VersionsStay, StagesStay, NotWritten, JobsStay
<1>2. DocumentMoves /\ SlotsOK'
  BY <1>1, DocumentStays, SlotsStay
<1> QED
  BY <1>1, <1>2, Together

LEMMA CreateVersionKeeps ==
    ASSUME IInv, NEW v \in Versions, CreateVersion(v)
    PROVE  IInv'
<1> DEFINE row == [NoVersion EXCEPT !.status = "UPLOADED"]
<1>1. version' = [version EXCEPT ![v] = row]
  BY DEF CreateVersion
<1>2. row \in VersionRows /\ RowOK(row)
  BY DEF NoVersion, VersionRows, RowOK, Statuses
<1>3. ~version[v].validated
  BY DEF CreateVersion, IInv, VersionsOK, RowOK
<1> HIDE DEF row
<1>4. VersionsMove
  BY <1>1, <1>2, <1>3, OneVersion
<1>5. DocumentMoves
  BY <1>4, StatusMoves DEF CreateVersion, Statuses
<1>6. JobsGrow /\ StagesMove /\ WritesMove
  BY JobsStay, StagesStay, NotWritten DEF CreateVersion
<1>7. RequestsMove /\ SlotsOK'
  BY <1>4, <1>6, RequestsStay, SlotsStay DEF CreateVersion
<1> QED
  BY <1>4, <1>5, <1>6, <1>7, Together

LEMMA ConfirmUploadKeeps ==
    ASSUME IInv, NEW v \in Versions, ConfirmUpload(v)
    PROVE  IInv'
<1> DEFINE row == [version[v] EXCEPT !.file = TRUE]
<1>1. version' = [version EXCEPT ![v] = row]
  BY DEF ConfirmUpload
<1>2. version[v] \in VersionRows /\ RowOK(version[v])
  BY DEF IInv, VersionsOK
<1>3. row \in VersionRows /\ RowOK(row) /\ row.validated = version[v].validated
  BY <1>2 DEF VersionRows, RowOK
<1> HIDE DEF row
<1>4. VersionsMove
  BY <1>1, <1>3, OneVersion
<1>5. DocumentMoves
  BY <1>4, DocumentStays DEF ConfirmUpload
<1>6. JobsGrow /\ StagesMove /\ WritesMove
  BY JobsStay, StagesStay, NotWritten DEF ConfirmUpload
<1>7. RequestsMove /\ SlotsOK'
  BY <1>4, <1>6, RequestsStay, SlotsStay DEF ConfirmUpload
<1> QED
  BY <1>4, <1>5, <1>6, <1>7, Together

\* The requests that only read.
LEMMA ReadKeeps ==
    ASSUME IInv, NEW q \in Requests, NEW new \in RequestRows, ReadFor(q, new),
           new.pc \in {"start", "validate", "publish", "switch"} => new.v \in Versions,
           new.pc \in {"retry", "enqueue"} => new.id \in JobIds,
           new.pc \in {"publish", "switch"} => version[new.v].validated
    PROVE  IInv'
<1>1. VersionsMove
  BY VersionsStay DEF ReadFor
<1>2. RequestsMove
  BY <1>1, OneRequest DEF ReadFor
<1> QED
  BY <1>2, OnlyRequest DEF ReadFor

LEMMA StartReadKeeps ==
    ASSUME IInv, NEW q \in Requests, NEW v \in Versions, StartRead(q, v)
    PROVE  IInv'
<1> DEFINE new == [Free EXCEPT !.pc = "start", !.v = v]
<1>1. new \in RequestRows /\ new.pc = "start" /\ new.v = v
  BY FreeOK DEF RequestRows
<1>2. ReadFor(q, new)
  BY DEF StartRead
<1> HIDE DEF new
<1> QED
  BY <1>1, <1>2, ReadKeeps

LEMMA ValidateReadKeeps ==
    ASSUME IInv, NEW q \in Requests, NEW v \in Versions, ValidateRead(q, v)
    PROVE  IInv'
<1> DEFINE new == [Free EXCEPT !.pc = "validate", !.v = v]
<1>1. new \in RequestRows /\ new.pc = "validate" /\ new.v = v
  BY FreeOK DEF RequestRows
<1>2. ReadFor(q, new)
  BY DEF ValidateRead
<1> HIDE DEF new
<1> QED
  BY <1>1, <1>2, ReadKeeps

LEMMA PublishReadKeeps ==
    ASSUME IInv, NEW q \in Requests, NEW v \in Versions, PublishRead(q, v)
    PROVE  IInv'
<1> DEFINE new == [Free EXCEPT !.pc = "publish", !.v = v]
<1>1. new \in RequestRows /\ new.pc = "publish" /\ new.v = v
  BY FreeOK DEF RequestRows
<1>2. ReadFor(q, new)
  BY DEF PublishRead
<1>3. version[v].validated
  BY DEF PublishRead, IInv, VersionsOK, RowOK
<1> HIDE DEF new
<1> QED
  BY <1>1, <1>2, <1>3, ReadKeeps

LEMMA RetryReadKeeps ==
    ASSUME IInv, NEW q \in Requests, NEW v \in Versions, NEW g \in Generations, NEW t \in Stages,
           RetryRead(q, v, g, t)
    PROVE  IInv'
<1> DEFINE new == [Free EXCEPT !.pc = "retry", !.v = v, !.stages = <<t>>, !.id = <<v, g, t>>]
<1>1. <<t>> \in Seq(Int)
  BY StagesAreFour
<1>2. <<v, g, t>> \in JobIds
  BY DEF JobIds, RetryIds
<1>3. new \in RequestRows /\ new.pc = "retry" /\ new.id = <<v, g, t>>
  <2> DEFINE list == <<t>>
             id == <<v, g, t>>
  <2>1. list \in Seq(Int) /\ id \in JobIds
    BY <1>1, <1>2
  <2>2. new = [Free EXCEPT !.pc = "retry", !.v = v, !.stages = list, !.id = id]
    OBVIOUS
  <2> HIDE DEF list, id
  <2>3. new \in RequestRows /\ new.pc = "retry" /\ new.id = id
    BY <2>1, <2>2, FreeOK DEF RequestRows
  <2> QED
    BY <2>3 DEF id
<1>4. ReadFor(q, new)
  BY DEF RetryRead
<1> HIDE DEF new
<1> QED
  BY <1>2, <1>3, <1>4, ReadKeeps

LEMMA ArchiveReadKeeps ==
    ASSUME IInv, NEW q \in Requests, ArchiveRead(q)
    PROVE  IInv'
<1> DEFINE new == [Free EXCEPT !.pc = "archive"]
<1>1. new \in RequestRows /\ new.pc = "archive"
  BY FreeOK DEF RequestRows
<1>2. ReadFor(q, new)
  BY DEF ArchiveRead
<1> HIDE DEF new
<1> QED
  BY <1>1, <1>2, ReadKeeps

LEMMA RequestEndsKeeps ==
    ASSUME IInv, NEW q \in Requests, RequestEnds(q)
    PROVE  IInv'
<1>1. VersionsMove
  BY VersionsStay DEF RequestEnds
<1>2. RequestsMove
  BY <1>1, FreedRequest DEF RequestEnds
<1> QED
  BY <1>2, OnlyRequest DEF RequestEnds

LEMMA PublishBeginKeeps ==
    ASSUME IInv, NEW q \in Requests, PublishBegin(q)
    PROVE  IInv'
<1> DEFINE new == [request[q] EXCEPT !.pc = "switch", !.current = document.current]
<1>1. RequestOK(q) /\ request[q] \in RequestRows
  BY RequestTyped
<1>2. document.current \in Versions \cup {None}
  BY DEF IInv, DocumentOK, DocumentRows
<1>3. new \in RequestRows /\ new.pc = "switch" /\ new.v = request[q].v
  BY <1>1, <1>2 DEF RequestRows
<1>4. request[q].v \in Versions /\ version[request[q].v].validated
  BY <1>1 DEF PublishBegin, RequestOK
<1>5. request' = [request EXCEPT ![q] = new]
  BY DEF PublishBegin
<1> HIDE DEF new
<1>6. VersionsMove
  BY VersionsStay DEF PublishBegin
<1>7. RequestsMove
  BY <1>3, <1>4, <1>5, <1>6, OneRequest
<1> QED
  BY <1>7, OnlyRequest DEF PublishBegin

LEMMA RetryCommitKeeps ==
    ASSUME IInv, NEW q \in Requests, RetryCommit(q)
    PROVE  IInv'
<1> DEFINE new == [request[q] EXCEPT !.pc = "enqueue"]
<1>1. RequestOK(q) /\ request[q] \in RequestRows
  BY RequestTyped
<1>2. new \in RequestRows /\ new.pc = "enqueue" /\ new.id = request[q].id
  BY <1>1 DEF RequestRows
<1>3. request[q].id \in JobIds
  BY <1>1 DEF RetryCommit, RequestOK
<1>4. request' = [request EXCEPT ![q] = new]
  BY DEF RetryCommit
<1> HIDE DEF new
<1>5. VersionsMove /\ WritesMove /\ JobsGrow
  BY VersionsStay, Written, JobsStay DEF RetryCommit
<1>6. RequestsMove
  BY <1>2, <1>3, <1>4, <1>5, OneRequest
<1>7. "PENDING" \in StageStatuses
  BY DEF StageStatuses
<1>8. StagesMove
  BY <1>7, OneStage DEF RetryCommit
<1>9. DocumentMoves /\ SlotsOK'
  BY <1>5, DocumentStays, SlotsStay DEF RetryCommit
<1> QED
  BY <1>5, <1>6, <1>8, <1>9, Together

LEMMA EnqueueKeeps ==
    ASSUME IInv, NEW q \in Requests, Enqueue(q)
    PROVE  IInv'
<1>1. RequestOK(q)
  BY RequestTyped
<1>2. request[q].id \in JobIds
  BY <1>1 DEF Enqueue, RequestOK
<1>3. DOMAIN job' \subseteq DOMAIN job \cup {request[q].id} /\ DOMAIN job \subseteq DOMAIN job'
  BY DEF Enqueue
<1>4. JobsGrow
  BY <1>2, <1>3 DEF JobsGrow, JobsOK, IInv
<1>5. VersionsMove /\ StagesMove /\ WritesMove
  BY VersionsStay, StagesStay, NotWritten DEF Enqueue
<1>6. RequestsMove
  BY <1>5, FreedRequest DEF Enqueue
<1>7. DocumentMoves /\ SlotsOK'
  BY <1>4, <1>5, DocumentStays, SlotsStay DEF Enqueue
<1> QED
  BY <1>4, <1>5, <1>6, <1>7, Together

LEMMA StartCommitKeeps ==
    ASSUME IInv, NEW q \in Requests, NEW g \in Generations, NEW first \in FirstStages,
           StartCommit(q, g, first)
    PROVE  IInv'
<1> DEFINE v == request[q].v
           taken == {t \in Stages : t >= first}
           made == {t \in taken : stage[v][g][t] = "none"}
           row == [version[v] EXCEPT !.status = "PROCESSING",
                                     !.extraction = IF 1 \in made THEN g ELSE @]
           list == [i \in 1..Cardinality(taken) |-> first + i - 1]
           new == [request[q] EXCEPT !.pc = "enqueue", !.id = <<v, g>>, !.stages = list]
           rows == [t \in Stages |-> IF t \in made THEN "PENDING" ELSE stage[v][g][t]]
<1>1. RequestOK(q) /\ request[q] \in RequestRows
  BY RequestTyped
<1>2. v \in Versions
  BY <1>1 DEF StartCommit, RequestOK
<1>3. version' = [version EXCEPT ![v] = row]
  BY DEF StartCommit
<1>4. version[v] \in VersionRows /\ RowOK(version[v])
  BY <1>2 DEF IInv, VersionsOK
<1>5. row \in VersionRows /\ row.status = "PROCESSING" /\ row.validated = version[v].validated
      /\ row.chunks = version[v].chunks /\ row.provisions = version[v].provisions
  BY <1>4 DEF VersionRows, Statuses
<1>6. RowOK(row)
  BY <1>4, <1>5 DEF RowOK
<1>7. VersionsMove
  <2> HIDE DEF row
  <2> QED
    BY <1>3, <1>5, <1>6, OneVersion
<1>8. <<v, g>> \in JobIds
  BY <1>2 DEF JobIds, PipelineIds
<1>9. Cardinality(taken) \in Nat
  <2>1. IsFiniteSet(Stages)
    BY StagesFinite
  <2>2. taken \subseteq Stages
    OBVIOUS
  <2> QED
    BY <2>1, <2>2, FS_Subset, FS_CardinalityType
<1>10. first \in Int
  BY NormativeAssumption, StagesAreFour
<1>11. list \in Seq(Int)
  <2> HIDE DEF taken
  <2> QED
    BY <1>9, <1>10
<1>12. new \in RequestRows /\ new.pc = "enqueue" /\ new.id = <<v, g>>
  <2> HIDE DEF list
  <2> QED
    BY <1>1, <1>8, <1>11 DEF RequestRows
<1>13. request' = [request EXCEPT ![q] = new]
  BY DEF StartCommit
<1>14. RequestsMove
  <2> HIDE DEF new
  <2> QED
    BY <1>7, <1>8, <1>12, <1>13, OneRequest
<1>15. stage' = [stage EXCEPT ![v][g] = rows]
  BY DEF StartCommit
<1>16. rows \in [Stages -> StageStatuses]
  BY <1>2 DEF IInv, StageRows, StageStatuses
<1>17. StagesMove
  <2> HIDE DEF rows
  <2> QED
    BY <1>15, <1>16 DEF IInv, StagesMove, StageRows
<1>18. DocumentMoves
  BY <1>7, StatusMoves DEF StartCommit, Statuses
<1>19. JobsGrow /\ WritesMove
  BY JobsStay, Written DEF StartCommit
<1>20. SlotsOK'
  BY <1>19, SlotsStay DEF StartCommit
<1> QED
  BY <1>7, <1>14, <1>17, <1>18, <1>19, <1>20, Together

LEMMA ValidateCommitKeeps ==
    ASSUME IInv, NEW q \in Requests, ValidateCommit(q)
    PROVE  IInv'
<1> DEFINE v == request[q].v
           row == [version[v] EXCEPT !.status = "VALIDATED", !.validated = TRUE]
<1>1. version' = [version EXCEPT ![v] = row]
  BY DEF ValidateCommit
<1>2. v \in Versions
  BY RequestTyped DEF ValidateCommit, RequestOK
<1>3. version[v] \in VersionRows /\ RowOK(version[v])
  BY <1>2 DEF IInv, VersionsOK
<1>4. row \in VersionRows /\ RowOK(row) /\ row.validated
  BY <1>3 DEF VersionRows, RowOK, Statuses
<1>5. VersionsMove
  <2> HIDE DEF row, v
  <2> QED
    BY <1>1, <1>4, OneVersion
<1>6. DocumentMoves
  BY <1>5, StatusMoves DEF ValidateCommit, Statuses
<1>7. RequestsMove
  BY <1>5, FreedRequest DEF ValidateCommit
<1>8. JobsGrow /\ StagesMove /\ WritesMove
  BY JobsStay, StagesStay, Written DEF ValidateCommit
<1>9. SlotsOK'
  BY <1>8, SlotsStay DEF ValidateCommit
<1> QED
  BY <1>5, <1>6, <1>7, <1>8, <1>9, Together

LEMMA PublishCommitKeeps ==
    ASSUME IInv, NEW q \in Requests, PublishCommit(q)
    PROVE  IInv'
<1> DEFINE v == request[q].v
           u == request[q].current
<1>1. RequestOK(q) /\ request[q] \in RequestRows
  BY RequestTyped
<1>2. v \in Versions /\ version[v].validated /\ u \in Versions \cup {None}
  BY <1>1 DEF PublishCommit, RequestOK, RequestRows
<1>3. ASSUME NEW x \in Versions
      PROVE  /\ version'[x] \in VersionRows /\ RowOK(version'[x])
             /\ version[x].validated => version'[x].validated
  <2>1. version[x] \in VersionRows /\ RowOK(version[x])
    BY DEF IInv, VersionsOK
  <2>2. version'[x] = IF x = v THEN [version[v] EXCEPT !.status = "PUBLISHED",
                                     !.replaced = IF @ = None /\ u # v THEN u ELSE @]
                      ELSE IF x = u THEN [version[u] EXCEPT !.expired = TRUE]
                      ELSE version[x]
    BY DEF PublishCommit
  <2>3. CASE x = v
    <3> DEFINE row == [version[x] EXCEPT !.status = "PUBLISHED",
                                        !.replaced = IF @ = None /\ u # v THEN u ELSE @]
    <3>1. row \in VersionRows /\ row.status = "PUBLISHED" /\ row.validated = version[x].validated
          /\ row.chunks = version[x].chunks /\ row.provisions = version[x].provisions
      BY <1>2, <2>1 DEF VersionRows, Statuses
    <3>2. version'[x] = row
      BY <2>2, <2>3
    <3> HIDE DEF row
    <3> QED
      BY <1>2, <2>1, <2>3, <3>1, <3>2 DEF RowOK
  <2>4. CASE x # v /\ x = u
    <3> DEFINE row == [version[x] EXCEPT !.expired = TRUE]
    <3>1. row \in VersionRows /\ row.status = version[x].status
          /\ row.validated = version[x].validated
          /\ row.chunks = version[x].chunks /\ row.provisions = version[x].provisions
      BY <2>1 DEF VersionRows
    <3>2. version'[x] = row
      BY <2>2, <2>4
    <3> HIDE DEF row
    <3> QED
      BY <2>1, <3>1, <3>2 DEF RowOK
  <2>5. CASE x # v /\ x # u
    BY <2>1, <2>2, <2>5
  <2> QED
    BY <2>3, <2>4, <2>5
<1>4. version' \in [Versions -> VersionRows]
  BY <1>3 DEF PublishCommit
<1>5. VersionsMove
  <2>1. \A x \in Versions : RowOK(version'[x])
    BY <1>3
  <2>2. VersionsOK'
    BY <1>4, <2>1 DEF VersionsOK, RowOK
  <2> QED
    BY <1>3, <2>2 DEF VersionsMove
<1>6. document' = [status |-> "PUBLISHED", current |-> v]
  BY DEF PublishCommit
<1>7. DocumentMoves
  <2>1. document' \in DocumentRows /\ v # None /\ version'[v].validated
    BY <1>2, <1>5, <1>6, NormativeAssumption DEF DocumentRows, Statuses, VersionsMove
  <2> QED
    BY <1>6, <2>1 DEF DocumentMoves, DocumentOK
<1>8. RequestsMove
  BY <1>5, FreedRequest DEF PublishCommit
<1>9. JobsGrow /\ StagesMove /\ WritesMove
  BY JobsStay, StagesStay, Written DEF PublishCommit
<1>10. SlotsOK'
  BY <1>9, SlotsStay DEF PublishCommit
<1> QED
  BY <1>5, <1>7, <1>8, <1>9, <1>10, Together

LEMMA ArchiveCommitKeeps ==
    ASSUME IInv, NEW q \in Requests, ArchiveCommit(q)
    PROVE  IInv'
<1>1. VersionsMove /\ JobsGrow /\ StagesMove /\ WritesMove
  BY VersionsStay, JobsStay, StagesStay, Written DEF ArchiveCommit
<1>2. document' = [status |-> "ARCHIVED", current |-> None]
  BY DEF ArchiveCommit
<1>3. DocumentMoves
  BY <1>2 DEF DocumentMoves, DocumentOK, DocumentRows
<1>4. RequestsMove
  BY <1>1, FreedRequest DEF ArchiveCommit
<1>5. SlotsOK'
  BY <1>1, SlotsStay DEF ArchiveCommit
<1> QED
  BY <1>1, <1>3, <1>4, <1>5, Together
-----------------------------------------------------------------------------
(* The worker.                                                             *)

LEMMA SlotTyped ==
    ASSUME IInv, NEW w \in Slots
    PROVE  SlotOK(w) /\ slot[w] \in SlotRows
BY DEF IInv, SlotsOK, SlotOK

LEMMA SameJobs ==
    ASSUME IInv, NEW id, NEW record, SetJob(id, record)
    PROVE  JobsGrow
BY JobsStay DEF SetJob

\* A slot that moves on and writes nothing but stages.
LEMMA OnlySlot ==
    ASSUME IInv, SlotsOK', JobsGrow, StagesMove, UNCHANGED <<document, version, request, writes>>
    PROVE  IInv'
<1>1. VersionsMove /\ WritesMove
  BY VersionsStay, NotWritten
<1>2. DocumentMoves /\ RequestsMove
  BY <1>1, DocumentStays, RequestsStay
<1> QED
  BY <1>1, <1>2, Together

\* A slot that goes on at pc, with nothing read.
LEMMA SlotGoes ==
    ASSUME IInv, JobsGrow, NEW w \in Slots, slot[w].pc # "idle", slot[w].read = None,
           Goto(w, "run") \/ Goto(w, "fail") \/ Goto(w, "failed")
           \/ Goto(w, "end") \/ Goto(w, "throw")
    PROVE  SlotsOK'
<1>1. PICK pc \in {"run", "fail", "failed", "end", "throw"} : Goto(w, pc)
  OBVIOUS
<1> DEFINE new == [slot[w] EXCEPT !.pc = pc]
<1>2. SlotOK(w) /\ slot[w] \in SlotRows
  BY SlotTyped
<1>3. new \in SlotRows /\ new.job = slot[w].job /\ new.read = None
  BY <1>2 DEF SlotRows
<1>4. slot' = [slot EXCEPT ![w] = new]
  BY <1>1 DEF Goto
<1> HIDE DEF new
<1> QED
  BY <1>2, <1>3, <1>4, OneSlot DEF SlotOK

\* A slot that goes on to its next stage.
LEMMA SlotAdvances ==
    ASSUME IInv, JobsGrow, NEW w \in Slots, slot[w].pc # "idle", slot[w].read = None,
           slot' = [slot EXCEPT ![w].pc = "next", ![w].at = @ + 1]
           \/ slot' = [slot EXCEPT ![w].at = @ + 1]
    PROVE  SlotsOK'
<1>1. SlotOK(w) /\ slot[w] \in SlotRows /\ slot[w].at \in Nat
  BY SlotTyped DEF SlotRows
<1> DEFINE next == slot[w].at + 1
           on == [slot[w] EXCEPT !.pc = "next", !.at = next]
           skip == [slot[w] EXCEPT !.at = next]
<1>2. on \in SlotRows /\ on.job = slot[w].job /\ on.read = None
  <2>1. next \in Nat
    BY <1>1
  <2> HIDE DEF next
  <2> QED
    BY <1>1, <2>1 DEF SlotRows
<1>3. skip \in SlotRows /\ skip.job = slot[w].job /\ skip.read = None
  BY <1>1 DEF SlotRows
<1>4. slot' = [slot EXCEPT ![w] = on] \/ slot' = [slot EXCEPT ![w] = skip]
  BY <1>1 DEF IInv, SlotsOK
<1> HIDE DEF on, skip
<1> QED
  BY <1>1, <1>2, <1>3, <1>4, OneSlot DEF SlotOK

LEMMA TakeJobKeeps ==
    ASSUME IInv, NEW w \in Slots, NEW id \in DOMAIN job, TakeJob(w, id)
    PROVE  IInv'
<1> DEFINE new == [Idle EXCEPT !.pc = "next", !.job = id]
<1>1. JobsGrow /\ StagesMove
  BY SameJobs, StagesStay DEF TakeJob
<1>2. id \in JobIds
  BY DEF IInv, JobsOK
<1>3. new \in SlotRows /\ new.job = id /\ new.read = None
  BY <1>2, IdleOK DEF SlotRows
<1>4. slot' = [slot EXCEPT ![w] = new]
  BY DEF TakeJob
<1> HIDE DEF new
<1>5. SlotsOK'
  BY <1>1, <1>3, <1>4, OneSlot
<1> QED
  BY <1>1, <1>5, OnlySlot DEF TakeJob

LEMMA SetStageMoves ==
    ASSUME IInv, NEW w, NEW s \in StageStatuses, SetStage(w, s)
    PROVE  StagesMove
BY OneStage DEF SetStage

LEMMA NextStageKeeps ==
    ASSUME IInv, NEW w \in Slots, NextStage(w)
    PROVE  IInv'
<1>1. JobsGrow
  BY JobsStay DEF NextStage
<1>2. slot[w].read = None
  BY SlotTyped DEF NextStage, SlotOK
<1>3. CASE StageRow(w) = "COMPLETED"
  <2>1. SlotsOK'
    BY <1>1, <1>2, <1>3, SlotAdvances DEF NextStage
  <2>2. StagesMove
    BY <1>3, StagesStay DEF NextStage
  <2> QED
    BY <1>1, <2>1, <2>2, OnlySlot DEF NextStage
<1>4. CASE StageRow(w) # "COMPLETED"
  <2>1. SlotsOK'
    BY <1>1, <1>2, <1>4, SlotGoes DEF NextStage
  <2>2. StagesMove
    BY <1>4, SetStageMoves DEF NextStage, StageStatuses
  <2> QED
    BY <1>1, <2>1, <2>2, OnlySlot DEF NextStage
<1> QED
  BY <1>3, <1>4

LEMMA RunStageKeeps ==
    ASSUME IInv, NEW w \in Slots, RunStage(w)
    PROVE  IInv'
<1>1. JobsGrow /\ slot[w].read = None
  BY JobsStay, SlotTyped DEF RunStage, SlotOK
<1>2. SlotsOK'
  BY <1>1, SlotAdvances DEF RunStage
<1>3. StagesMove
  BY SetStageMoves DEF RunStage, StageStatuses
<1> QED
  BY <1>1, <1>2, <1>3, OnlySlot DEF RunStage

LEMMA QualityFailsKeeps ==
    ASSUME IInv, NEW w \in Slots, QualityFails(w)
    PROVE  IInv'
<1>1. JobsGrow /\ slot[w].read = None /\ StagesMove
  BY JobsStay, SlotTyped, StagesStay DEF QualityFails, SlotOK
<1>2. SlotsOK'
  BY <1>1, SlotGoes DEF QualityFails
<1> QED
  BY <1>1, <1>2, OnlySlot DEF QualityFails

LEMMA FinishStageKeeps ==
    ASSUME IInv, NEW w \in Slots, FinishStage(w)
    PROVE  IInv'
<1>1. JobsGrow /\ slot[w].read = None
  BY JobsStay, SlotTyped DEF FinishStage, SlotOK
<1>2. SlotsOK'
  BY <1>1, SlotAdvances DEF FinishStage
<1>3. StagesMove
  BY SetStageMoves DEF FinishStage, StageStatuses
<1> QED
  BY <1>1, <1>2, <1>3, OnlySlot DEF FinishStage

LEMMA StageFailsKeeps ==
    ASSUME IInv, NEW w \in Slots, StageFails(w) \/ ChunksRefused(w)
    PROVE  IInv'
<1> DEFINE new == [slot[w] EXCEPT !.pc = "fail", !.read = None, !.missed = FALSE]
<1>1. SlotOK(w) /\ slot[w] \in SlotRows
  BY SlotTyped
<1>2. new \in SlotRows /\ new.job = slot[w].job /\ new.read = None
  BY <1>1 DEF SlotRows
<1>3. slot' = [slot EXCEPT ![w] = new]
  BY DEF StageFails, ChunksRefused
<1>4. JobsGrow /\ StagesMove
  BY JobsStay, StagesStay DEF StageFails, ChunksRefused
<1> HIDE DEF new
<1>5. SlotsOK'
  BY <1>1, <1>2, <1>3, <1>4, OneSlot DEF SlotOK, StageFails, ChunksRefused
<1> QED
  BY <1>4, <1>5, OnlySlot DEF StageFails, ChunksRefused

LEMMA FailStageKeeps ==
    ASSUME IInv, NEW w \in Slots, FailStage(w)
    PROVE  IInv'
<1>1. JobsGrow /\ slot[w].read = None
  BY JobsStay, SlotTyped DEF FailStage, SlotOK
<1>2. SlotsOK'
  BY <1>1, SlotGoes DEF FailStage
<1>3. StagesMove
  <2>1. UNCHANGED stage
        \/ \E t \in Stages : stage' = [stage EXCEPT ![VersionOf(slot[w].job)][slot[w].job[2]][t]
                                                      = "FAILED"]
    BY DEF FailStage
  <2>2. "FAILED" \in StageStatuses
    BY DEF StageStatuses
  <2>3. CASE UNCHANGED stage
    BY <2>3, StagesStay
  <2>4. ASSUME NEW t \in Stages,
               stage' = [stage EXCEPT ![VersionOf(slot[w].job)][slot[w].job[2]][t] = "FAILED"]
        PROVE  StagesMove
    <3>1. ASSUME NEW v, NEW g, stage' = [stage EXCEPT ![v][g][t] = "FAILED"]
          PROVE  StagesMove
      BY <2>2, <3>1, OneStage
    <3> QED
      BY <2>4, <3>1
  <2> QED
    BY <2>1, <2>3, <2>4
<1> QED
  BY <1>1, <1>2, <1>3, OnlySlot DEF FailStage

LEMMA CrashKeeps ==
    ASSUME IInv, NEW w \in Slots, Crash(w)
    PROVE  IInv'
<1>1. JobsGrow /\ StagesMove
  BY JobsStay, StagesStay DEF Crash
<1>2. SlotsOK'
  BY <1>1, IdleOK, OneSlot DEF Crash
<1> QED
  BY <1>1, <1>2, OnlySlot DEF Crash

LEMMA EndJobKeeps ==
    ASSUME IInv, NEW w \in Slots, EndJob(w)
    PROVE  IInv'
<1>1. JobsGrow /\ StagesMove
  BY SameJobs, StagesStay DEF EndJob
<1>2. SlotsOK'
  BY <1>1, IdleOK, OneSlot DEF EndJob
<1> QED
  BY <1>1, <1>2, OnlySlot DEF EndJob

LEMMA StallKeeps ==
    ASSUME IInv, NEW id \in DOMAIN job, Stall(id)
    PROVE  IInv'
<1>1. JobsGrow /\ StagesMove
  BY SameJobs, StagesStay DEF Stall
<1>2. SlotsOK'
  BY <1>1, SlotsStay DEF Stall
<1> QED
  BY <1>1, <1>2, OnlySlot DEF Stall

-----------------------------------------------------------------------------
(* The steps of the worker that write the version.                         *)

\* The provisions that a detection makes are those of no slot and not the former ones:
\* each slot has read one structure at most, and the detecting one has read none.
LEMMA NewStructure ==
    ASSUME IInv, NEW w \in Slots, slot[w].read = None, NEW v
    PROVE  \E p \in Structures : p \notin InUse(v)
<1> SUFFICES ASSUME \A p \in Structures : p \in InUse(v)
             PROVE  FALSE
  OBVIOUS
<1> DEFINE n == Cardinality(Slots)
           reader == [p \in Structures |->
             IF p = version[v].provisions THEN w ELSE CHOOSE u \in Slots : slot[u].read = p]
<1>1. n \in Nat
  BY SlotsCounted
<1>2. IsFiniteSet(Structures) /\ Cardinality(Structures) = n + 1
  <2>1. 1 \in Int /\ n + 1 \in Int /\ ~(1 > n + 1) /\ (n + 1) - 1 + 1 = n + 1
    BY <1>1
  <2> HIDE DEF n
  <2>2. IsFiniteSet(1..(n + 1)) /\ Cardinality(1..(n + 1)) = n + 1
    BY <2>1, FS_Interval
  <2> QED
    BY <2>2 DEF Structures, n
<1>3. ASSUME NEW p \in Structures
      PROVE  reader[p] \in Slots /\ p # None
             /\ (p # version[v].provisions => slot[reader[p]].read = p)
  <2>1. p # None
    BY NormativeAssumption
  <2>2. p = version[v].provisions \/ \E u \in Slots : slot[u].read = p
    BY DEF InUse
  <2> QED
    BY <2>1, <2>2
<1>4. reader \in [Structures -> Slots]
  BY <1>3
<1>5. IsFiniteSet(Slots) /\ Cardinality(Slots) < Cardinality(Structures)
  BY <1>1, <1>2, NormativeAssumption
<1>6. PICK p \in Structures, s \in Structures : p # s /\ reader[p] = reader[s]
  <2> HIDE DEF reader
  <2> QED
    BY <1>2, <1>4, <1>5, FS_PigeonHole
<1>7. p = version[v].provisions => reader[p] = w
  OBVIOUS
<1>8. s = version[v].provisions => reader[s] = w
  OBVIOUS
<1> HIDE DEF reader
<1> QED
  BY <1>3, <1>6, <1>7, <1>8

\* A delete statement begins: the slot goes on with what it has read.
LEMMA DeleteBeginsKeeps ==
    ASSUME IInv, NEW w \in Slots,
           DeleteBegins(w, "run", "detect") \/ DeleteBegins(w, "chunk", "write")
    PROVE  IInv'
<1>1. PICK after \in {"detect", "write"} :
        /\ slot' = [slot EXCEPT ![w].pc = after, ![w].missed = FALSE]
        /\ after = "detect" => slot[w].pc = "run"
  BY DEF DeleteBegins
<1> DEFINE new == [slot[w] EXCEPT !.pc = after, !.missed = FALSE]
<1>2. SlotOK(w) /\ slot[w] \in SlotRows
  BY SlotTyped
<1>3. new \in SlotRows /\ new.job = slot[w].job /\ new.read = slot[w].read /\ new.pc = after
  BY <1>2 DEF SlotRows
<1>4. slot' = [slot EXCEPT ![w] = new]
  BY <1>1
<1>5. JobsGrow /\ StagesMove
  BY JobsStay, StagesStay DEF DeleteBegins
<1> HIDE DEF new
<1>6. SlotsOK'
  BY <1>1, <1>2, <1>3, <1>4, <1>5, OneSlot DEF SlotOK, DeleteBegins
<1> QED
  BY <1>5, <1>6, OnlySlot DEF DeleteBegins

LEMMA ReplaceStructureKeeps ==
    ASSUME IInv, NEW w \in Slots, ReplaceStructure(w)
    PROVE  IInv'
<1> DEFINE v == VersionOf(slot[w].job)
           on == [slot[w] EXCEPT !.pc = "done", !.missed = FALSE]
<1>1. slot[w].read = None /\ JobsGrow /\ StagesMove /\ WritesMove
  BY SlotTyped, JobsStay, StagesStay, NotWritten DEF ReplaceStructure, SlotOK
<1>2. PICK new \in Structures, left \in {None, Unlinked} :
        version' = [version EXCEPT ![v].provisions = new, ![v].chunks = left]
  <2>1. \E p \in Structures : p \notin InUse(v)
    BY <1>1, NewStructure
  <2>2. (CHOOSE p \in Structures : p \notin InUse(v)) \in Structures
    BY <2>1
  <2> QED
    BY <2>2 DEF ReplaceStructure
<1> DEFINE row == [version[v] EXCEPT !.provisions = new, !.chunks = left]
<1>3. version' = [version EXCEPT ![v] = row]
  <2> HIDE DEF v
  <2> QED
    BY <1>2 DEF IInv, VersionsOK
<1>4. ASSUME v \in Versions
      PROVE  row \in VersionRows /\ RowOK(row) /\ row.validated = version[v].validated
  <2> HIDE DEF v
  <2>1. version[v] \in VersionRows /\ RowOK(version[v])
    BY <1>4 DEF IInv, VersionsOK
  <2>2. row \in VersionRows /\ row.status = version[v].status /\ row.chunks = left
        /\ row.validated = version[v].validated
    BY <1>2, <2>1 DEF VersionRows
  <2> HIDE DEF row
  <2> QED
    BY <1>2, <2>1, <2>2 DEF RowOK
<1>5. VersionsMove
  <2> HIDE DEF row, v
  <2> QED
    BY <1>3, <1>4, OneVersion
<1>6. SlotsOK'
  <2>1. SlotOK(w) /\ slot[w] \in SlotRows
    BY SlotTyped
  <2>2. on \in SlotRows /\ on.job = slot[w].job /\ on.read = None
    BY <1>1, <2>1 DEF SlotRows
  <2>3. slot' = [slot EXCEPT ![w] = on]
    BY DEF ReplaceStructure
  <2> HIDE DEF on
  <2> QED
    BY <1>1, <2>1, <2>2, <2>3, OneSlot DEF SlotOK, ReplaceStructure
<1>7. DocumentMoves /\ RequestsMove
  BY <1>5, DocumentStays, RequestsStay DEF ReplaceStructure
<1> QED
  BY <1>1, <1>5, <1>6, <1>7, Together

LEMMA ReadProvisionsKeeps ==
    ASSUME IInv, NEW w \in Slots, ReadProvisions(w)
    PROVE  IInv'
<1> DEFINE v == VersionOf(slot[w].job)
           new == [slot[w] EXCEPT !.pc = "chunk", !.read = version[v].provisions]
<1>1. SlotOK(w) /\ slot[w] \in SlotRows
  BY SlotTyped
<1>2. version[v].provisions \in Structures \cup {None}
  <2>1. slot[w].job \in JobIds
    BY <1>1 DEF ReadProvisions, SlotOK, IInv, JobsOK
  <2>2. v \in Versions
    BY <2>1 DEF JobIds, PipelineIds, RetryIds, VersionOf
  <2> QED
    BY <2>2 DEF IInv, VersionsOK, VersionRows
<1>3. new \in SlotRows /\ new.job = slot[w].job /\ new.pc = "chunk"
  <2> HIDE DEF v
  <2> QED
    BY <1>1, <1>2 DEF SlotRows
<1>4. slot' = [slot EXCEPT ![w] = new]
  BY DEF ReadProvisions
<1>5. JobsGrow /\ StagesMove
  BY JobsStay, StagesStay DEF ReadProvisions
<1> HIDE DEF new
<1>6. SlotsOK'
  BY <1>1, <1>3, <1>4, <1>5, OneSlot DEF SlotOK, ReadProvisions
<1> QED
  BY <1>5, <1>6, OnlySlot DEF ReadProvisions

\* A commit of chunks is noted with the slots that will not delete them.
LEMMA CommitNoted ==
    ASSUME IInv, JobsGrow, NEW w \in Slots, ChunksCommitted(w), slot[w].pc = "write"
    PROVE  SlotsOK'
<1>1. ASSUME NEW u \in Slots
      PROVE  SlotOK(u)'
  <2>1. SlotOK(u) /\ slot[u] \in SlotRows /\ slot[u].missed \in BOOLEAN
    BY SlotTyped DEF SlotRows
  <2>2. CASE u = w
    <3> DEFINE new == [slot[w] EXCEPT !.pc = "done", !.read = None, !.missed = FALSE]
    <3>1. slot'[u] = new
      BY <2>2 DEF ChunksCommitted
    <3>2. new \in SlotRows /\ new.job = slot[u].job /\ new.read = None
      BY <2>1, <2>2 DEF SlotRows
    <3> HIDE DEF new
    <3> QED
      BY <2>1, <2>2, <3>1, <3>2 DEF SlotOK, JobsGrow
  <2>3. CASE u # w
    <3> DEFINE m == slot[u].missed
                    \/ (slot[w].read # None /\ Deleting(u, VersionOf(slot[w].job)))
               new == [slot[u] EXCEPT !.missed = m]
    <3>1. slot'[u] = new
      BY <2>3 DEF ChunksCommitted
    <3>2. m \in BOOLEAN
      BY <2>1
    <3> HIDE DEF m
    <3>3. new \in SlotRows /\ new.job = slot[u].job /\ new.read = slot[u].read
          /\ new.pc = slot[u].pc
      BY <2>1, <3>2 DEF SlotRows
    <3> HIDE DEF new
    <3> QED
      BY <2>1, <3>1, <3>3 DEF SlotOK, JobsGrow
  <2> QED
    BY <2>2, <2>3
<1> QED
  BY <1>1 DEF ChunksCommitted, SlotsOK

\* The chunks that are written are those of the provisions that are there; where there
\* were none to read, those stay that the delete statement did not see.
LEMMA WriteChunksKeeps ==
    ASSUME IInv, NEW w \in Slots, WriteChunks(w)
    PROVE  IInv'
<1> DEFINE v == VersionOf(slot[w].job)
           left == IF slot[w].read = None THEN Leftover(w) ELSE slot[w].read
           row == [version[v] EXCEPT !.chunks = left]
<1>1. SlotOK(w) /\ slot[w] \in SlotRows
  BY SlotTyped
<1>2. JobsGrow /\ StagesMove /\ WritesMove
  BY JobsStay, StagesStay, NotWritten DEF WriteChunks, ChunksCommitted
<1>3. SlotsOK'
  BY <1>2, CommitNoted DEF WriteChunks
<1>4. version' = [version EXCEPT ![v] = row]
  BY DEF WriteChunks, ChunksCommitted
<1>5. ASSUME v \in Versions
      PROVE  row \in VersionRows /\ RowOK(row) /\ row.validated = version[v].validated
  <2>1. version[v] \in VersionRows /\ RowOK(version[v])
    BY <1>5 DEF IInv, VersionsOK
  <2>2. version[v].chunks \in Structures \cup {None, Unlinked}
        /\ version[v].chunks \in {None, Unlinked, version[v].provisions}
    BY <2>1 DEF RowOK, VersionRows
  <2>3. slot[w].read \in Structures \cup {None}
    BY <1>1 DEF SlotRows
  <2>4. left \in Structures \cup {None, Unlinked}
        /\ left \in {None, Unlinked, version[v].provisions}
    BY <2>2, <2>3 DEF WriteChunks, Leftover
  <2> HIDE DEF left, v
  <2>5. row \in VersionRows /\ row.status = version[v].status /\ row.chunks = left
        /\ row.provisions = version[v].provisions /\ row.validated = version[v].validated
    BY <2>1, <2>4 DEF VersionRows
  <2> HIDE DEF row
  <2> QED
    BY <2>1, <2>4, <2>5 DEF RowOK
<1>6. VersionsMove
  <2> HIDE DEF row, v
  <2> QED
    BY <1>4, <1>5, OneVersion
<1>7. DocumentMoves /\ RequestsMove
  BY <1>6, DocumentStays, RequestsStay DEF WriteChunks, ChunksCommitted
<1> QED
  BY <1>2, <1>3, <1>6, <1>7, Together

LEMMA RequireReviewKeeps ==
    ASSUME IInv, NEW w \in Slots, RequireReview(w)
    PROVE  IInv'
<1>1. slot[w].read = None /\ JobsGrow /\ StagesMove /\ WritesMove
  BY SlotTyped, JobsStay, StagesStay, NotWritten DEF RequireReview, SlotOK
<1>2. VersionsMove
  BY OtherStatus DEF RequireReview
<1>3. DocumentMoves
  BY <1>2, StatusMoves DEF RequireReview, Statuses
<1>4. RequestsMove
  BY <1>2, RequestsStay DEF RequireReview
<1>5. SlotsOK'
  BY <1>1, SlotGoes DEF RequireReview
<1> QED
  BY <1>1, <1>2, <1>3, <1>4, <1>5, Together

LEMMA FailVersionKeeps ==
    ASSUME IInv, NEW w \in Slots, FailVersion(w)
    PROVE  IInv'
<1>1. slot[w].read = None /\ JobsGrow /\ StagesMove /\ WritesMove
  BY SlotTyped, JobsStay, StagesStay, NotWritten DEF FailVersion, SlotOK
<1>2. VersionsMove
  BY OtherStatus DEF FailVersion
<1>3. DocumentMoves
  BY <1>2, StatusMoves DEF FailVersion, Statuses
<1>4. RequestsMove
  BY <1>2, RequestsStay DEF FailVersion
<1>5. SlotsOK'
  BY <1>1, SlotGoes DEF FailVersion
<1> QED
  BY <1>1, <1>2, <1>3, <1>4, <1>5, Together
-----------------------------------------------------------------------------
(* The beginning, and all steps.                                           *)

LEMMA ProcessedVersions ==
    ASSUME NEW n \in Versions, NEW status \in {"REVIEW_REQUIRED", "PUBLISHED"},
           NEW failed \in Stages, Processed(n, status, failed)
    PROVE  VersionsOK /\ \A v \in Versions : v < n \/ (v = n /\ status = "PUBLISHED")
                                               => version[v].validated
<1> USE NormativeAssumption
<1>1. Versions \subseteq Nat /\ Cardinality(Versions) \in Nat /\ 2 \in Generations
      /\ 1 \in Structures
  BY FS_CardinalityType, SlotsCounted DEF Generations, Structures
<1>2. ASSUME NEW v \in Versions
      PROVE  /\ version[v] \in VersionRows /\ RowOK(version[v])
             /\ v < n \/ (v = n /\ status = "PUBLISHED") => version[v].validated
  <2> DEFINE published == v < n \/ status = "PUBLISHED"
             row == [status |-> IF v = n THEN status ELSE "PUBLISHED", file |-> TRUE,
                     validated |-> published, provisions |-> 1, chunks |-> 1,
                     expired |-> v + 1 < n \/ (v + 1 = n /\ status = "PUBLISHED"),
                     replaced |-> IF v > 1 /\ (v < n \/ status = "PUBLISHED") THEN v - 1 ELSE None,
                     extraction |-> 2]
  <2>1. version[v] = IF v > n THEN NoVersion ELSE row
    BY DEF Processed
  <2>2. CASE v > n
    BY <1>1, <2>1, <2>2, NoVersionOK
  <2>3. CASE ~(v > n)
    <3>1. v \in Nat /\ n \in Nat /\ v <= n
      BY <1>1, <2>3
    <3>2. (v > 1 => v - 1 \in Versions)
      BY <1>1, <3>1
    <3>3. row.replaced \in Versions \cup {None}
      BY <3>2
    <3>4. row \in VersionRows
      BY <1>1, <3>3 DEF VersionRows, Statuses
    <3>5. /\ row.status = IF v = n THEN status ELSE "PUBLISHED"
          /\ row.validated = published /\ row.chunks = 1 /\ row.provisions = 1
      OBVIOUS
    <3>6. version[v] = row
      BY <2>1, <2>3
    <3> HIDE DEF row
    <3>7. RowOK(row)
      <4>1. row.status = "PUBLISHED" => published
        BY <3>1, <3>5
      <4>2. row.status \notin {"none", "VALIDATED"}
        BY <3>5
      <4> QED
        BY <3>5, <4>1, <4>2 DEF RowOK
    <3> QED
      BY <3>1, <3>4, <3>5, <3>6, <3>7
  <2> QED
    BY <2>2, <2>3
<1>3. version \in [Versions -> VersionRows]
  BY <1>2 DEF Processed
<1> QED
  BY <1>2, <1>3 DEF VersionsOK

LEMMA ProcessedOK ==
    ASSUME NEW n \in Versions, NEW status \in {"REVIEW_REQUIRED", "PUBLISHED"},
           NEW failed \in Stages, Processed(n, status, failed)
    PROVE  VersionsOK /\ DocumentOK /\ stage \in StageRows /\ JobsOK
<1> USE NormativeAssumption
<1>1. n \in Nat /\ Versions \subseteq Nat /\ Cardinality(Versions) \in Nat
      /\ {1, 2} \subseteq Generations
  BY FS_CardinalityType DEF Generations
<1>2. VersionsOK /\ \A v \in Versions : v < n \/ (v = n /\ status = "PUBLISHED")
                                               => version[v].validated
  BY ProcessedVersions
<1>3. DocumentOK
  <2>1. document = [status |-> IF n > 1 THEN "PUBLISHED" ELSE status,
             current |-> IF status = "PUBLISHED" THEN n ELSE IF n > 1 THEN n - 1 ELSE None]
    BY DEF Processed
  <2>2. n > 1 => n - 1 \in Versions /\ n - 1 < n
    BY <1>1
  <2>3. document.current \in Versions \cup {None} /\ n # None
    BY <2>1, <2>2
  <2>4. document \in DocumentRows
    BY <2>1, <2>3 DEF DocumentRows, Statuses
  <2>5. document.current # None <=> document.status = "PUBLISHED"
    BY <2>1, <2>2, <2>3
  <2>6. document.current # None => version[document.current].validated
    BY <1>2, <2>1, <2>2
  <2> QED
    BY <2>4, <2>5, <2>6 DEF DocumentOK
<1>4. stage \in StageRows
  BY DEF Processed, StageRows, StageStatuses
<1>5. JobsOK
  <2>1. DOMAIN job = (1..n) \X {1, 2}
    BY DEF Processed
  <2>2. 1..n \subseteq Versions
    BY <1>1
  <2> QED
    BY <1>1, <2>1, <2>2 DEF JobsOK, JobIds, PipelineIds
<1> QED
  BY <1>2, <1>3, <1>4, <1>5

LEMMA InitOK ==
    ASSUME Init
    PROVE  IInv
<1>1. VersionsOK /\ DocumentOK /\ stage \in StageRows /\ JobsOK
  <2>1. CASE NothingDone
    <3>1. VersionsOK
      BY <2>1, NoVersionOK DEF NothingDone, VersionsOK
    <3>2. DocumentOK
      BY <2>1 DEF NothingDone, DocumentOK, DocumentRows
    <3>3. stage \in StageRows /\ JobsOK
      BY <2>1 DEF NothingDone, StageRows, StageStatuses, JobsOK
    <3> QED
      BY <3>1, <3>2, <3>3
  <2>2. CASE \E n \in Versions, status \in {"REVIEW_REQUIRED", "PUBLISHED"}, failed \in Stages :
               Processed(n, status, failed)
    BY <2>2, ProcessedOK
  <2> QED
    BY <2>1, <2>2 DEF Init
<1>2. RequestsOK
  BY FreeOK DEF Init, RequestsOK, RequestOK
<1>3. SlotsOK
  BY IdleOK DEF Init, SlotsOK, SlotOK
<1>4. writes \in 0..MaxWrites
  BY NormativeAssumption DEF Init
<1> QED
  BY <1>1, <1>2, <1>3, <1>4 DEF IInv

LEMMA RequestStepsKeep ==
    ASSUME IInv, NEW q \in Requests,
           \/ \E v \in Versions : StartRead(q, v) \/ ValidateRead(q, v) \/ PublishRead(q, v)
           \/ \E v \in Versions, g \in Generations, t \in Stages : RetryRead(q, v, g, t)
           \/ \E g \in Generations, first \in FirstStages : StartCommit(q, g, first)
           \/ RetryCommit(q) \/ Enqueue(q) \/ ValidateCommit(q)
           \/ PublishBegin(q) \/ PublishCommit(q)
           \/ ArchiveRead(q) \/ ArchiveCommit(q) \/ RequestEnds(q)
    PROVE  IInv'
BY StartReadKeeps, ValidateReadKeeps, PublishReadKeeps, RetryReadKeeps, StartCommitKeeps,
   RetryCommitKeeps, EnqueueKeeps, ValidateCommitKeeps, PublishBeginKeeps, PublishCommitKeeps,
   ArchiveReadKeeps, ArchiveCommitKeeps, RequestEndsKeeps

LEMMA ProceedKeeps ==
    ASSUME IInv, NEW w \in Slots, Proceed(w)
    PROVE  IInv'
BY NextStageKeeps, RunStageKeeps, QualityFailsKeeps, DeleteBeginsKeeps, ReplaceStructureKeeps,
   ReadProvisionsKeeps, WriteChunksKeeps, StageFailsKeeps, FinishStageKeeps, RequireReviewKeeps,
   FailStageKeeps, FailVersionKeeps, EndJobKeeps DEF Proceed, DetectStructure, DeleteChunks

LEMMA StepKeeps ==
    ASSUME IInv, [Next]_vars
    PROVE  IInv'
<1>1. CASE UNCHANGED vars
  <2>1. RequestsMove
    BY <1>1, VersionsStay, RequestsStay DEF vars
  <2> QED
    BY <1>1, <2>1, OnlyRequest DEF vars
<1>2. ASSUME NEW v \in Versions, CreateVersion(v) \/ ConfirmUpload(v)
      PROVE  IInv'
  BY <1>2, CreateVersionKeeps, ConfirmUploadKeeps
<1>3. ASSUME NEW w \in Slots,
             (\E id \in DOMAIN job : TakeJob(w, id)) \/ Proceed(w) \/ StageFails(w) \/ Crash(w)
      PROVE  IInv'
  BY <1>3, TakeJobKeeps, ProceedKeeps, StageFailsKeeps, CrashKeeps
<1> QED
  BY <1>1, <1>2, <1>3, RequestStepsKeep, StallKeeps DEF Next

LEMMA Invariance == Spec => []IInv
BY InitOK, StepKeeps, PTL DEF Spec

-----------------------------------------------------------------------------
(* What follows.                                                           *)

\* Document, versions, stages, jobs and slots hold what their tables and queues can hold.
THEOREM TypeCorrect == Spec => []TypeOK
<1>1. IInv => TypeOK
  BY DEF IInv, VersionsOK, DocumentOK, SlotsOK, SlotOK, JobsOK, TypeOK, VersionRows, DocumentRows,
     StageRows
<1> QED
  BY <1>1, Invariance, PTL

\* The chunks that search returns are those of the present structure, whatever starts,
\* retries and slots that lost their lock rewrite, and however their transactions overlap:
\* the chunks that a detection does not see lose their provision, and the database refuses
\* those of provisions that are gone.
THEOREM ChunksAreOfTheStructure == Spec => []ChunksOfStructure
<1>1. IInv => ChunksOfStructure
  BY DEF IInv, VersionsOK, RowOK, ChunksOfStructure
<1> QED
  BY <1>1, Invariance, PTL

\* publishVersion reads the status before its transaction and does not look again: the
\* version that it publishes has been validated nevertheless.
THEOREM PublicationsAreValidated == Spec => []PublicationValidated
<1>1. IInv => PublicationValidated
  BY DEF IInv, VersionsOK, DocumentOK, RowOK, PublicationValidated
<1> QED
  BY <1>1, Invariance, PTL
=============================================================================
