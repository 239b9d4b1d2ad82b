---------------------------- MODULE CatalogVerify ----------------------------
(***************************************************************************)
(* Sealing and verifying one catalog artifact (adapters/catalog_artifact): *)
(* the receipt a builder writes over its partitions, the verifier's checks *)
(* of that receipt, the serial and the parallel derivation of the digests  *)
(* from the rows, the producer gate that compares both, and a reader's row *)
(* stream over an admitted artifact.                                       *)
(*                                                                         *)
(* A digest is the framed section itself (its declared count and its       *)
(* payloads), so two digests are equal exactly when the bytes are.  Item   *)
(* ids, partition ids, reason codes and join ids are numbers in UTF-16     *)
(* order.  Worker processes may stall, die and be replaced; a stored       *)
(* payload may be replaced by other bytes at any moment.                   *)
(***************************************************************************)
EXTENDS Integers, Sequences, FiniteSets, Bags, FiniteSetsExt, SequencesExt

CONSTANTS
    Artifacts,          \* sealed catalogs a reader may be given
    BucketOf(_),        \* partition_bucket of an item id (external)
    BucketCount,
    Installed,          \* [field -> value]: producer, schemas, policy, partition policy
    WorkerCount,        \* min(_MAX_DERIVE_WORKERS, cpu_count)
    ParallelThreshold,  \* _PARALLEL_ROW_THRESHOLD
    MaxJoinIds,         \* SOURCE_CATALOG_MAX_JOIN_IDS
    CollapsedFloor,     \* _COLLAPSED_JOIN_ELIGIBLE_FLOOR
    MaxDeaths           \* bound on worker deaths

ASSUME WorkersAssumption == WorkerCount \in Nat \ {0, 1}

\* A receipt lists its partitions.
ASSUME PartitionsAssumption ==
    \A a \in Artifacts : a.receipt.partitions \in Seq(ToSet(a.receipt.partitions))

VARIABLES
    artifact,   \* the artifact under verification
    phase,      \* of the verification, then of the read
    tasks,      \* [partition index -> task status] of a parallel derivation
    workers,    \* [slot -> [alive, task]]
    exits,      \* slots whose first process exited
    deaths,
    awaited,    \* summaries the parent holds, in partition order
    derived,    \* the derivation's result, or Pending
    verdict,    \* "pending", "accepted", or what refused it
    damaged,    \* payload references whose stored bytes were replaced
    given       \* rows a reader received

verifyVars == <<artifact, phase, tasks, workers, exits, deaths, awaited, derived, verdict, damaged, given>>
poolVars == <<tasks, workers, exits, deaths, awaited>>

Selected == "selected"
NoReason == 0
RowDispositions == {Selected, "excluded", "unsupported"}
FixedSections == {"state", "requested", "selected", "dispositions", "reasons", "renditions"}
DetailSections == {"normalized", "joined", "interpretations"}
Sections == FixedSections \cup DetailSections
JoinOutcomes == {"matched", "no-match", "not-stated"}

SumOf(f(_), s) == FoldLeft(LAMBDA n, x : n + f(x), 0, s)
Apply(f(_), s) == [i \in DOMAIN s |-> f(s[i])]
Ordered(less(_, _), s) == \A i \in 1..(Len(s) - 1) : less(s[i], s[i + 1])
Increasing(s) == Ordered(LAMBDA a, b : a < b, s)

(***************************************************************************)
(* Rows, what each contributes to every section, and their accounting.     *)
(*                                                                         *)
(* A row is [id, document, disposition, reason, fields, joins, notes,      *)
(* family, sound]: sound is the row's schema, the closed order of its      *)
(* interpretations and the text of its identities.                         *)
(***************************************************************************)
SortedBy(key(_), s) == SortSeq(s, LAMBDA a, b : key(a) < key(b))

(* _normalized_field_records_for and _joined_field_records_for sort their  *)
(* records and refuse two with the same key; _rendition_choice_record      *)
(* requires the one preference.                                            *)
RowRecords(row) ==
    /\ Increasing(SortSeq(row.fields, LAMBDA a, b : a < b))
    /\ Increasing(Apply(LAMBDA j : j.join, SortedBy(LAMBDA j : j.join, row.joins)))
    /\ Len(row.family) = 1
    /\ \A j \in ToSet(row.joins) : j.outcome \in JoinOutcomes

(* _row_digest_payloads                                                    *)
Payloads(row) ==
    [s \in Sections |->
        CASE s = "state" -> <<row>>
          [] s = "requested" -> <<row.id>>
          [] s = "selected" -> IF row.disposition = Selected THEN <<<<row.id, row.document>>>> ELSE <<>>
          [] s = "dispositions" -> <<<<row.id, row.disposition>>>>
          [] s = "reasons" -> <<<<row.id, row.reason>>>>
          [] s = "renditions" -> <<<<row.id, row.family[1]>>>>
          [] s = "normalized" -> Apply(LAMBDA f : <<row.id, f>>, SortSeq(row.fields, LAMBDA a, b : a < b))
          [] s = "joined" -> Apply(LAMBDA j : <<row.id, j>>, SortedBy(LAMBDA j : j.join, row.joins))
          [] s = "interpretations" -> Apply(LAMBDA n : <<row.id, n>>, row.notes)]

(* _DispositionTally                                                       *)
NoTally == [dispositions |-> [d \in RowDispositions |-> 0], reasons |-> EmptyBag]

TallyAdd(tally, row) ==
    [dispositions |-> [tally.dispositions EXCEPT ![row.disposition] = @ + 1],
     reasons |-> IF row.reason = NoReason THEN tally.reasons
                 ELSE tally.reasons (+) SetToBag({<<row.disposition, row.reason>>})]

(* Variant: of a reason both tallies have, the second count is kept.       *)
TallyMergeLast(a, b) ==
    [dispositions |-> [d \in RowDispositions |-> a.dispositions[d] + b.dispositions[d]],
     reasons |-> [k \in DOMAIN a.reasons \cup DOMAIN b.reasons |->
                    IF k \in DOMAIN b.reasons THEN b.reasons[k] ELSE a.reasons[k]]]

TallyMerge(a, b) ==
    [dispositions |-> [d \in RowDispositions |-> a.dispositions[d] + b.dispositions[d]],
     reasons |-> a.reasons (+) b.reasons]

(* reason_counts and joinCoverage in their sealed order.                   *)
DispositionOrder(d) == IF d = "excluded" THEN 1 ELSE IF d = Selected THEN 2 ELSE 3
ReasonBefore(a, b) ==
    \/ DispositionOrder(a.disposition) < DispositionOrder(b.disposition)
    \/ a.disposition = b.disposition /\ a.code < b.code
ReasonCounts(tally) ==
    SetToSortSeq({[disposition |-> k[1], code |-> k[2], count |-> tally.reasons[k]] : k \in DOMAIN tally.reasons},
                 ReasonBefore)

(* _accumulate_join_coverage                                               *)
NoCoverage == [k \in {} |-> 0]
Uncovered == [eligible |-> 0, matched |-> 0, unmatched |-> 0, nullResult |-> 0]
CoverageOf(counts, join) == IF join \in DOMAIN counts THEN counts[join] ELSE Uncovered
Covered(c, outcome) ==
    CASE outcome = "matched" -> [c EXCEPT !.eligible = @ + 1, !.matched = @ + 1]
      [] outcome = "no-match" -> [c EXCEPT !.eligible = @ + 1, !.unmatched = @ + 1]
      [] OTHER -> [c EXCEPT !.nullResult = @ + 1]
Accumulate(counts, row) ==
    FoldLeft(LAMBDA acc, j : [k \in DOMAIN acc \cup {j.join} |->
                                IF k = j.join THEN Covered(CoverageOf(acc, k), j.outcome) ELSE acc[k]],
             counts, row.joins)

(* The parent's sum of the workers' join counts.                           *)
MergeCoverage(a, b) ==
    [k \in DOMAIN a \cup DOMAIN b |->
        [n \in DOMAIN Uncovered |-> CoverageOf(a, k)[n] + CoverageOf(b, k)[n]]]

CoverageRows(counts) ==
    Apply(LAMBDA k : [join |-> k] @@ counts[k], SetToSortSeq(DOMAIN counts, LAMBDA a, b : a < b))

(* _refuse_collapsed_joins                                                 *)
Collapsed(counts) == \E k \in DOMAIN counts : counts[k].eligible >= CollapsedFloor /\ counts[k].matched = 0

(***************************************************************************)
(* Reading rows.  _iter_partition_stream checks one partition, and         *)
(* _iter_located_catalog_rows merges the partitions by id.                 *)
(***************************************************************************)
RowsOf(a, i) == a.payload[a.receipt.partitions[i].ref].rows
Indices(a) == DOMAIN a.receipt.partitions

StreamChecks(a, i, validate) ==
    LET rows == RowsOf(a, i) IN
    /\ validate => \A r \in ToSet(rows) : r.sound
    /\ \A r \in ToSet(rows) : BucketOf(r.id) = a.receipt.partitions[i].id
    /\ Increasing(Apply(LAMBDA r : r.id, rows))
    /\ Len(rows) = a.receipt.partitions[i].count

MergedRows(a) == SortedBy(LAMBDA r : r.id, FlattenSeq([i \in Indices(a) |-> RowsOf(a, i)]))

CatalogReads(a, validate) ==
    /\ \A i \in Indices(a) : StreamChecks(a, i, validate)
    /\ Increasing(Apply(LAMBDA r : r.id, MergedRows(a)))
    /\ Len(MergedRows(a)) = a.receipt.itemCount

(***************************************************************************)
(* Deriving digests and diagnostics from the rows.                         *)
(***************************************************************************)
Pending == [state |-> "pending"]
Unreadable == [state |-> "refused"]

(* FramedSectionHasher: a section refuses to end on any other count than   *)
(* the one it was opened with.                                             *)
SectionOf(count, payloads) == [count |-> count, payloads |-> payloads]
Framed(section) == Len(section.payloads) = section.count

(* _fixed_count_digests, _detail_count_digests: the header counts of each  *)
(* section.                                                                *)
HeaderCounts(items, selected, details) ==
    [s \in Sections |->
        IF s \in DetailSections THEN details[s] ELSE IF s = "selected" THEN selected ELSE items]

(* _finish_derivation                                                      *)
FinishDerivation(headers, payloads, tally, counts) ==
    LET digests == [s \in Sections |-> SectionOf(headers[s], payloads[s])] IN
    IF Collapsed(counts) \/ \E s \in Sections : ~Framed(digests[s]) THEN Unreadable
    ELSE [state |-> "derived", digests |-> digests, dispositions |-> tally.dispositions,
          reasons |-> ReasonCounts(tally), coverage |-> CoverageRows(counts)]

SectionPayloads(rows) == [s \in Sections |-> FlattenSeq(Apply(LAMBDA r : Payloads(r)[s], rows))]
DetailCounts(rows) == [s \in DetailSections |-> SumOf(LAMBDA r : Len(Payloads(r)[s]), rows)]

(* _derive_catalog on one process: a validating pass that counts, and a    *)
(* second pass that hashes the details.                                    *)
DeriveSerial(a) ==
    LET rows == MergedRows(a)
        counts == FoldLeft(Accumulate, NoCoverage, rows) IN
    IF ~CatalogReads(a, TRUE) \/ (\E r \in ToSet(rows) : ~RowRecords(r)) \/ Cardinality(DOMAIN counts) > MaxJoinIds
    THEN Unreadable
    ELSE FinishDerivation(HeaderCounts(a.receipt.itemCount, a.receipt.dispositions[Selected], DetailCounts(rows)),
                          SectionPayloads(rows), FoldLeft(TallyAdd, NoTally, rows), counts)

(* _derive_partition_worker: what one task computes, and when it raises.   *)
PartitionSummary(a, i) ==
    LET rows == RowsOf(a, i) IN
    [rows |-> Len(rows), tally |-> FoldLeft(TallyAdd, NoTally, rows),
     coverage |-> FoldLeft(Accumulate, NoCoverage, rows), details |-> DetailCounts(rows), spill |-> rows]

PartitionFails(a, i) ==
    \/ ~StreamChecks(a, i, TRUE)
    \/ \E r \in ToSet(RowsOf(a, i)) : ~RowRecords(r)
    \/ Cardinality(DOMAIN PartitionSummary(a, i).coverage) > MaxJoinIds

(* The parent's half of _derive_catalog_parallel: sum the summaries, then  *)
(* merge the ordered spills.                                               *)
MergeSummaries(a, summaries) ==
    LET merged == SortedBy(LAMBDA r : r.id, FlattenSeq(Apply(LAMBDA x : x.spill, summaries)))
        tally == FoldLeft(TallyMerge, NoTally, Apply(LAMBDA x : x.tally, summaries))
        counts == FoldLeft(MergeCoverage, NoCoverage, Apply(LAMBDA x : x.coverage, summaries))
        details == [s \in DetailSections |-> SumOf(LAMBDA x : x.details[s], summaries)] IN
    IF \/ Cardinality(DOMAIN counts) > MaxJoinIds
       \/ SumOf(LAMBDA x : x.rows, summaries) # a.receipt.itemCount
       \/ ~Increasing(Apply(LAMBDA r : r.id, merged))
    THEN Unreadable
    ELSE FinishDerivation(HeaderCounts(a.receipt.itemCount, a.receipt.dispositions[Selected], details),
                          SectionPayloads(merged), tally, counts)

(***************************************************************************)
(* Sealing: the receipt a build writes over the rows it partitioned.       *)
(***************************************************************************)
Digits(n) == IF n < 0 THEN 2 ELSE Max({1} \cup {k \in 1..8 : 10^(k - 1) <= n})

(* _stage_publication: the receipt states the bytes of the publication it  *)
(* is part of, so sealing repeats until the number stops changing, for at  *)
(* most eight rounds.                                                      *)
Settled(fixed) ==
    LET round[k \in 0..8] == IF k = 0 THEN -1 ELSE fixed + Digits(round[k - 1])
        stable == {k \in 1..8 : round[k] = round[k - 1]} IN
    IF stable = {} THEN -1 ELSE round[Min(stable)]

PayloadBytes(rows) == Len(rows)

(* _CatalogRowPartitioner and _publication_metadata.  "reused" are the     *)
(* partitions whose payload the store already held, "fixed" the bytes of   *)
(* the publication apart from that number's digits.                        *)
Seal(rows, reused, fixed) ==
    LET filed == {BucketOf(r.id) : r \in rows}
        inBucket(b) == SetToSortSeq({r \in rows : BucketOf(r.id) = b}, LAMBDA x, y : x.id < y.id)
        inOrder == SetToSortSeq(rows, LAMBDA x, y : x.id < y.id)
        partitions == SetToSortSeq({[id |-> b, ref |-> b, count |-> Len(inBucket(b)),
                                     size |-> PayloadBytes(inBucket(b))] : b \in filed},
                                   LAMBDA x, y : x.id < y.id)
        tally == FoldLeft(TallyAdd, NoTally, inOrder)
        payload == [b \in filed |-> [rows |-> inBucket(b), count |-> Len(inBucket(b)),
                                     size |-> PayloadBytes(inBucket(b))]]
        bytes(bs) == SumOf(LAMBDA p : IF p.id \in bs THEN p.size ELSE 0, partitions)
        draft == [identity |-> Installed, partitions |-> partitions, itemCount |-> Len(inOrder),
                  dispositions |-> tally.dispositions, reasons |-> ReasonCounts(tally),
                  coverage |-> <<>>, digests |-> [s \in Sections |-> SectionOf(0, <<>>)],
                  read |-> bytes(filed), reused |-> bytes(filed \cap reused),
                  written |-> bytes(filed \ reused), published |-> Settled(fixed)]
        derivation == DeriveSerial([identity |-> Installed, payload |-> payload, receipt |-> draft]) IN
    [identity |-> Installed, payload |-> payload, fixed |-> fixed,
     receipt |-> IF derivation.state = "derived"
                 THEN [draft EXCEPT !.coverage = derivation.coverage, !.digests = derivation.digests]
                 ELSE draft]

(***************************************************************************)
(* SourceCatalogArtifactVerifier.__call__                                  *)
(***************************************************************************)
(* The root, the policy member and the receipt name one producer, schema   *)
(* family, policy, set of inputs and partition policy: the installed ones. *)
IdentityBound(a) == a.identity = Installed /\ a.receipt.identity = a.identity

(* Every partition of the receipt, in order, is one source-items member    *)
(* with the same counts, and every member is one of them.                  *)
PartitionsBound(a) ==
    LET ps == a.receipt.partitions IN
    /\ Increasing(Apply(LAMBDA p : p.id, ps))
    /\ \A p \in ToSet(ps) :
         /\ p.id \in 0..(BucketCount - 1)
         /\ p.ref \in DOMAIN a.payload
         /\ a.payload[p.ref].count = p.count
         /\ a.payload[p.ref].size = p.size
    /\ {p.ref : p \in ToSet(ps)} = DOMAIN a.payload

(* _reconcile_reason_counts                                                *)
ReasonsReconcile(r) ==
    /\ Ordered(ReasonBefore, r.reasons)
    /\ \A d \in RowDispositions \ {Selected} :
         SumOf(LAMBDA x : IF x.disposition = d THEN x.count ELSE 0, r.reasons) = r.dispositions[d]

CountsReconcile(r) ==
    /\ r.itemCount = SumOf(LAMBDA p : p.count, r.partitions)
    /\ SumOf(LAMBDA d : r.dispositions[d], SetToSeq(RowDispositions)) = r.itemCount
    /\ ReasonsReconcile(r)

BytesReconcile(a) ==
    LET r == a.receipt IN
    /\ r.read = SumOf(LAMBDA p : p.size, r.partitions)
    /\ r.reused + r.written = r.read
    /\ r.published = a.fixed + Digits(r.published)

CoverageReconciles(r) ==
    /\ Increasing(Apply(LAMBDA c : c.join, r.coverage))
    /\ \A c \in ToSet(r.coverage) :
         /\ c.eligible = c.matched + c.unmatched
         /\ c.eligible + c.nullResult <= r.itemCount

(* The receipt's schema: closed, with positive reason counts that never    *)
(* name a selected row.                                                    *)
ReceiptShaped(r) == \A x \in ToSet(r.reasons) : x.disposition # Selected /\ x.count > 0

ReceiptVerifies(a) ==
    /\ IdentityBound(a)
    /\ ReceiptShaped(a.receipt)
    /\ PartitionsBound(a)
    /\ CountsReconcile(a.receipt)
    /\ BytesReconcile(a)
    /\ CoverageReconciles(a.receipt)

(* SourceCatalogBuildGateVerifier.__call__                                 *)
GateAgrees(a, d) ==
    /\ d.digests = a.receipt.digests
    /\ d.dispositions = a.receipt.dispositions
    /\ d.reasons = a.receipt.reasons
    /\ d.coverage = a.receipt.coverage

(***************************************************************************)
(* The verification: verify_snapshot with its gate.  A payload whose       *)
(* stored bytes were replaced is refused when it is opened (admit_artifact *)
(* and the local blob source compare its digest, external).                *)
(***************************************************************************)
Slots == 1..WorkerCount
Window == 2 * WorkerCount
AtPhase(p) == phase = p
RefOf(i) == artifact.receipt.partitions[i].ref
Stored(i) == RefOf(i) \notin damaged
TaskOf(w) == workers[w].task
Ready(i) == tasks[i] \in {"done", "failed"}
HeadOf == Len(awaited) + 1
Live == {w \in Slots : workers[w].alive}
Idle == [alive |-> FALSE, task |-> 0]

VerifyInit ==
    /\ artifact \in Artifacts
    /\ phase = "receipt"
    /\ tasks = <<>>
    /\ workers = [w \in Slots |-> Idle]
    /\ exits = {} /\ deaths = 0
    /\ awaited = <<>>
    /\ derived = Pending
    /\ verdict = "pending"
    /\ damaged = {}
    /\ given = <<>>

Ends(v) == phase' = "done" /\ verdict' = v

(* _derive_worker_count and the choice of an engine.                       *)
Parallel(a) == a.receipt.itemCount >= ParallelThreshold /\ Len(a.receipt.partitions) > 1

(* admit_artifact, then the receipt verifier.                              *)
VerifyReceipt ==
    /\ AtPhase("receipt")
    /\ \/ damaged # {} /\ Ends("storage")
       \/ damaged = {} /\ ~ReceiptVerifies(artifact) /\ Ends("artifact")
       \/ /\ damaged = {} /\ ReceiptVerifies(artifact)
          /\ phase' = IF Parallel(artifact) THEN "probe" ELSE "serial"
          /\ UNCHANGED verdict
    /\ UNCHANGED <<artifact, poolVars, derived, damaged, given>>

DerivesSerially(next) ==
    \/ damaged # {} /\ verdict' = "storage" /\ UNCHANGED derived /\ phase' = IF next = "gate" THEN "done" ELSE next
    \/ /\ damaged = {}
       /\ derived' = DeriveSerial(artifact)
       /\ verdict' = IF derived'.state = "derived" THEN verdict ELSE "artifact"
       /\ phase' = IF next = "gate" /\ derived'.state # "derived" THEN "done" ELSE next

SerialDerivation ==
    /\ AtPhase("serial")
    /\ DerivesSerially("gate")
    /\ UNCHANGED <<artifact, poolVars, damaged, given>>

(* Submitting opens the payload through the pinned source.                 *)
Submits(i) == IF Stored(i) THEN "queued" ELSE "refused"

(* The probe answers, and the first window of tasks is submitted; or no    *)
(* worker can run, and the serial derivation replaces the pool, which is   *)
(* shut down afterwards.                                                   *)
ProbeAnswered ==
    /\ AtPhase("probe")
    /\ phase' = "await"
    /\ tasks' = [i \in Indices(artifact) |-> IF i <= Window THEN Submits(i) ELSE "unsent"]
    /\ workers' = [w \in Slots |-> [alive |-> TRUE, task |-> 0]]
    /\ UNCHANGED <<artifact, exits, deaths, awaited, derived, verdict, damaged, given>>

ProbeFailed ==
    /\ AtPhase("probe")
    /\ DerivesSerially("closing")
    /\ \E live \in SUBSET Slots : workers' = [w \in Slots |-> [alive |-> w \in live, task |-> 0]]
    /\ UNCHANGED <<artifact, tasks, exits, deaths, awaited, damaged, given>>

(* A worker takes the oldest queued task, and ends it by a summary or by   *)
(* an error; or dies with it, and the pool starts a replacement.           *)
Take(w) ==
    /\ AtPhase("await") /\ workers[w].alive /\ TaskOf(w) = 0
    /\ \E i \in DOMAIN tasks :
         /\ tasks[i] = "queued" /\ \A k \in 1..(i - 1) : tasks[k] # "queued"
         /\ tasks' = [tasks EXCEPT ![i] = "running"]
         /\ workers' = [workers EXCEPT ![w].task = i]
    /\ UNCHANGED <<artifact, phase, exits, deaths, awaited, derived, verdict, damaged, given>>

WorkerEnds(w) ==
    /\ AtPhase("await") /\ workers[w].alive /\ TaskOf(w) # 0
    /\ tasks' = [tasks EXCEPT ![TaskOf(w)] = IF PartitionFails(artifact, TaskOf(w)) THEN "failed" ELSE "done"]
    /\ workers' = [workers EXCEPT ![w].task = 0]
    /\ UNCHANGED <<artifact, phase, exits, deaths, awaited, derived, verdict, damaged, given>>

WorkerDies(w) ==
    /\ AtPhase("await") /\ workers[w].alive /\ deaths < MaxDeaths
    /\ deaths' = deaths + 1
    /\ workers' = [workers EXCEPT ![w] = Idle]
    /\ exits' = exits \cup {w}
    /\ tasks' = IF TaskOf(w) = 0 THEN tasks ELSE [tasks EXCEPT ![TaskOf(w)] = "lost"]
    /\ UNCHANGED <<artifact, phase, awaited, derived, verdict, damaged, given>>

Replace(w) ==
    /\ AtPhase("await") /\ ~workers[w].alive
    /\ workers' = [workers EXCEPT ![w].alive = TRUE]
    /\ UNCHANGED <<artifact, phase, tasks, exits, deaths, awaited, derived, verdict, damaged, given>>

(* A submission that could not open its payload raises in the parent.      *)
RefusedSubmission == \E i \in DOMAIN tasks : tasks[i] = "refused"
SubmitRefused ==
    /\ AtPhase("await") /\ RefusedSubmission
    /\ phase' = "closing" /\ verdict' = "storage"
    /\ UNCHANGED <<artifact, poolVars, derived, damaged, given>>

(* _await_partition on the oldest pending task: its summary, and the next  *)
(* submission; its error; the exit of a worker the pool started; or the    *)
(* end of the partition's time.                                            *)
AwaitReady ==
    /\ AtPhase("await") /\ ~RefusedSubmission
    /\ HeadOf \in DOMAIN tasks /\ Ready(HeadOf)
    /\ \/ /\ tasks[HeadOf] = "failed"
          /\ phase' = "closing" /\ verdict' = "artifact"
          /\ UNCHANGED <<tasks, awaited>>
       \/ /\ tasks[HeadOf] = "done"
          /\ awaited' = Append(awaited, PartitionSummary(artifact, HeadOf))
          /\ LET next == HeadOf + Window IN
             tasks' = IF next \in DOMAIN tasks THEN [tasks EXCEPT ![next] = Submits(next)] ELSE tasks
          /\ UNCHANGED <<phase, verdict>>
    /\ UNCHANGED <<artifact, workers, exits, deaths, derived, damaged, given>>

AwaitExit ==
    /\ AtPhase("await") /\ ~RefusedSubmission
    /\ HeadOf \in DOMAIN tasks /\ ~Ready(HeadOf) /\ exits # {}
    /\ phase' = "closing" /\ verdict' = "worker"
    /\ UNCHANGED <<artifact, poolVars, derived, damaged, given>>

(* Variant: no bound on waiting for a partition.                           *)
AwaitOverrunNever == FALSE /\ UNCHANGED verifyVars

AwaitOverrun ==
    /\ AtPhase("await") /\ ~RefusedSubmission
    /\ HeadOf \in DOMAIN tasks /\ ~Ready(HeadOf) /\ exits = {}
    /\ phase' = "closing" /\ verdict' = "worker"
    /\ UNCHANGED <<artifact, poolVars, derived, damaged, given>>

AwaitAll ==
    /\ AtPhase("await") /\ Len(awaited) = Len(tasks)
    /\ phase' = "closing"
    /\ UNCHANGED <<artifact, poolVars, derived, verdict, damaged, given>>

(* _bounded_pool: terminate signals the workers; those still alive when    *)
(* the shutdown overruns are killed; a pool that still does not end is an  *)
(* error of its own, whatever the derivation produced.                     *)
WorkerStops(w) ==
    /\ phase \in {"closing", "killing"} /\ workers[w].alive
    /\ workers' = [workers EXCEPT ![w] = Idle]
    /\ UNCHANGED <<artifact, phase, tasks, exits, deaths, awaited, derived, verdict, damaged, given>>

PoolClosed ==
    /\ phase \in {"closing", "killing"} /\ Live = {}
    /\ phase' = IF verdict # "pending" THEN "done" ELSE IF derived.state = "derived" THEN "gate" ELSE "merge"
    /\ UNCHANGED <<artifact, poolVars, derived, verdict, damaged, given>>

KillWorkers ==
    /\ AtPhase("closing") /\ Live # {}
    /\ phase' = "killing"
    /\ UNCHANGED <<artifact, poolVars, derived, verdict, damaged, given>>

CloseOverrun ==
    /\ AtPhase("killing") /\ Live # {}
    /\ Ends("pool")
    /\ UNCHANGED <<artifact, poolVars, derived, damaged, given>>

MergeSpills ==
    /\ AtPhase("merge")
    /\ derived' = MergeSummaries(artifact, awaited)
    /\ IF derived'.state = "derived" THEN phase' = "gate" /\ UNCHANGED verdict ELSE Ends("artifact")
    /\ UNCHANGED <<artifact, poolVars, damaged, given>>

Gate ==
    /\ AtPhase("gate")
    /\ Ends(IF GateAgrees(artifact, derived) THEN "accepted" ELSE "artifact")
    /\ UNCHANGED <<artifact, poolVars, derived, damaged, given>>

(* The stored file of a payload is replaced.                               *)
Damage(ref) ==
    /\ damaged = {} /\ phase \in {"serial", "probe", "await", "done", "admitted"}
    /\ damaged' = {ref}
    /\ UNCHANGED <<artifact, phase, poolVars, derived, verdict, given>>

(***************************************************************************)
(* A reader: admit_snapshot, then a row stream.  Rows of a pin that this   *)
(* reader verified are not validated again, but every payload is opened    *)
(* through _CatalogPayloadSource, which compares its size and digest.      *)
(***************************************************************************)
Admit ==
    /\ AtPhase("done")
    /\ phase' = IF damaged = {} /\ ReceiptVerifies(artifact) THEN "admitted" ELSE "ended"
    /\ UNCHANGED <<artifact, poolVars, derived, verdict, damaged, given>>

PayloadOpens == damaged = {}

Garbled == [id |-> 0]

StreamRows ==
    /\ AtPhase("admitted")
    /\ phase' = "ended"
    /\ given' = IF ~PayloadOpens \/ ~CatalogReads(artifact, verdict # "accepted") THEN <<>>
                ELSE IF damaged # {} THEN <<Garbled>> ELSE MergedRows(artifact)
    /\ UNCHANGED <<artifact, poolVars, derived, verdict, damaged>>

Parent ==
    \/ VerifyReceipt \/ SerialDerivation \/ ProbeAnswered \/ ProbeFailed
    \/ SubmitRefused \/ AwaitReady \/ AwaitExit \/ AwaitOverrun \/ AwaitAll
    \/ PoolClosed \/ KillWorkers \/ CloseOverrun \/ MergeSpills \/ Gate

VerifyNext ==
    \/ Parent
    \/ \E w \in Slots : Take(w) \/ WorkerEnds(w) \/ WorkerDies(w) \/ Replace(w) \/ WorkerStops(w)
    \/ \E ref \in DOMAIN artifact.payload : Damage(ref)
    \/ Admit \/ StreamRows

(* The verifying process keeps running; workers promise nothing.           *)
VerifySpec == VerifyInit /\ [][VerifyNext]_verifyVars /\ WF_verifyVars(Parent)

(***************************************************************************)
(* Properties.                                                             *)
(***************************************************************************)
PayloadRows(a) == UNION {ToSet(a.payload[ref].rows) : ref \in DOMAIN a.payload}
Having(rows, P(_)) == Cardinality({r \in rows : P(r)})
JoinedAs(a, join, outcomes) ==
    Having(PayloadRows(a), LAMBDA r : \E j \in ToSet(r.joins) : j.join = join /\ j.outcome \in outcomes)

\* What the rows of an artifact amount to, counted over the set of them.
TrueCounts(a, d) ==
    /\ \A x \in RowDispositions : d.dispositions[x] = Having(PayloadRows(a), LAMBDA r : r.disposition = x)
    /\ {<<x.disposition, x.code, x.count>> : x \in ToSet(d.reasons)} =
         {<<r.disposition, r.reason, Having(PayloadRows(a), LAMBDA q : q.disposition = r.disposition /\ q.reason = r.reason)>> :
            r \in {q \in PayloadRows(a) : q.reason # NoReason}}
    /\ {c.join : c \in ToSet(d.coverage)} = UNION {{j.join : j \in ToSet(r.joins)} : r \in PayloadRows(a)}
    /\ \A c \in ToSet(d.coverage) :
         /\ c.matched = JoinedAs(a, c.join, {"matched"})
         /\ c.unmatched = JoinedAs(a, c.join, {"no-match"})
         /\ c.eligible = JoinedAs(a, c.join, {"matched", "no-match"})
         /\ c.nullResult = JoinedAs(a, c.join, {"not-stated"})

\* Each section lists the payloads of every row once, rows in id order.
TrueSections(a, d) ==
    \A s \in Sections :
      LET section == d.digests[s]
          rowOf(p) == IF s = "state" THEN p.id ELSE IF s = "requested" THEN p ELSE p[1]
          at(k) == rowOf(section.payloads[k]) IN
      /\ section.count = Len(section.payloads)
      /\ \A i, k \in DOMAIN section.payloads : i < k => at(i) <= at(k)
      /\ \A r \in PayloadRows(a) :
           SelectSeq(section.payloads, LAMBDA p : rowOf(p) = r.id) = Payloads(r)[s]
      /\ \A i \in DOMAIN section.payloads : at(i) \in {r.id : r \in PayloadRows(a)}

(* Whichever engine derived a catalog, and whatever happened to its        *)
(* workers, the result counts every row of every payload exactly once and  *)
(* feeds each digest its rows in id order (derivation.py).                 *)
DerivationExact == derived.state = "derived" => TrueCounts(artifact, derived) /\ TrueSections(artifact, derived)

\* The rows are where and what the receipt says.
Intact(a) ==
    /\ \A r \in PayloadRows(a) :
         r.sound /\ Len(r.family) = 1
         /\ Cardinality(ToSet(r.fields)) = Len(r.fields)
         /\ \A i, k \in DOMAIN r.joins : r.joins[i].join = r.joins[k].join => i = k
    /\ \A ref \in DOMAIN a.payload :
         LET rows == a.payload[ref].rows
             ps == {p \in ToSet(a.receipt.partitions) : p.ref = ref} IN
         /\ \A i, k \in DOMAIN rows : i < k => rows[i].id < rows[k].id
         /\ a.payload[ref].count = Len(rows)
         /\ Cardinality(ps) = 1
         /\ \A p \in ps : p.count = Len(rows) /\ \A r \in ToSet(rows) : BucketOf(r.id) = p.id
    /\ a.receipt.itemCount = Cardinality(PayloadRows(a))

(* The gate accepts a catalog only when its receipt is true of its rows in *)
(* every count and digest, and refuses one for its content only when it is *)
(* not, or when a large join matched nothing or joins exceed their limit   *)
(* (verification.py).                                                      *)
GateExact ==
    LET r == artifact.receipt
        true == Intact(artifact) /\ TrueCounts(artifact, r) /\ TrueSections(artifact, r) IN
    /\ verdict = "accepted" => true
    /\ verdict = "artifact" =>
         \/ ~true \/ ~IdentityBound(artifact) \/ ~BytesReconcile(artifact) \/ ~PartitionsBound(artifact)
         \/ \E c \in ToSet(r.coverage) : c.eligible >= CollapsedFloor /\ c.matched = 0
         \/ Len(r.coverage) > MaxJoinIds
         \/ ~Ordered(ReasonBefore, r.reasons) \/ ~Increasing(Apply(LAMBDA c : c.join, r.coverage))

(* A verification that ended left no worker process behind, unless its     *)
(* error says that the pool would not shut down (_bounded_pool).           *)
PoolReleased == phase \in {"merge", "gate", "done"} /\ verdict # "pool" => Live = {}

(* The rows a reader receives are those sealed in the payloads, all of     *)
(* them in id order, even when a stored file was replaced after the        *)
(* artifact was admitted, and whether or not they are validated again      *)
(* (payloads.py, reader.py).                                               *)
StreamExact ==
    given # <<>> => /\ ToSet(given) = PayloadRows(artifact)
                    /\ \A i, k \in DOMAIN given : i < k => given[i].id < given[k].id
                    /\ \A i \in DOMAIN given : given[i].sound

(* Every verification ends: a worker that died or stalls, and a pool that  *)
(* will not shut down, are refusals and never a wait without end.          *)
VerificationEnds == <>(phase = "done")

(* What verification derives, accepts and streams is right, whatever its   *)
(* workers do, and no worker outlives it.                                  *)
VerifiedExact == DerivationExact /\ GateExact /\ PoolReleased /\ StreamExact
=============================================================================
