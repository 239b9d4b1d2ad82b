# DocSpec: TLA+ models, model checking and proofs

DocSpec (`src/src/docspec`) keeps datasets of documents as immutable records in a metadata
ledger, their bytes in a content-addressed blob store, and publishes source catalogs as
immutable directories. Its promises are about what survives: a retained record can be read, an
interrupted operation can be continued or repeated without doing harm, a removal under a policy
takes what it names and nothing else, a published catalog is whole. Those promises depend on
interleavings of processes and on kills between two writes, which is what these modules model.

The tools: `tlc -config <cfg> <module>` for the runs, `tlapm <module>.tla` for the proofs.
`PROJECT.json` lists components, runs, findings, hazards, theorems, and for every definition that
models code the lines it models.

## 1. Inventory

| Component | State it keeps | Operations | What is hard | What makes it correct |
|---|---|---|---|---|
| Publication (`core_publication.py`) and ledger (`storage/ledger.py`, SQLite) | records, retention rows with evidence versions, requirement links, preferred representations, unit receipts, heads, the identity mark | open a session, retain bytes, check a unit, commit, retry | the closure and the identities are checked outside the transaction that commits; sessions of several processes | a retained record has its whole closure and its bytes |
| Maintenance (`core_maintenance.py`) | removal rows, outcomes per blob | select current, remove under policy, resume | crash between unlinking and recording; records restored meanwhile | only unprotected content goes; heads and recovery stay usable; a removal can be finished |
| Operation attempts (`core_execution.py`) | progress histories, journals, claims | prepare, perform, publish, resume, recover, run once, resolve | two processes retry one request; interruption after the journal | one outcome per execution, no batch completed twice, a journaled result is not lost |
| Document runs (`document_run.py`, `documents.py`) | checkpoints with counters, the head at the start | start, resume, checkpoint, publish, select | budget counted in memory; days between start and selection | work is never given back; a selection made meanwhile is not overwritten |
| Ingestion (`core_ingestion.py`) | request lock | batch by `run_once` | retry after a kill | as for attempts |
| Reuse and dependency evidence (`core_reuse.py`, `core_dependencies.py`) | omissions, supplements, comparisons, an index of dependencies | assess, choose, associate, record evidence, query | evidence recorded between assessment and commit | a reused result has the inputs asked for; a change finds what depends on it |
| Keyed states, bulk layers, identities (`core_states.py`, `core_entities.py`, `core_edits.py`) | representations, revisions, certified links, members without rows | import, checkpoint, revise, compare | an identity checked against a mark that moves; history with gaps | one identity, one value; a state means one membership |
| Selected values (`core_selections.py`) | retained selections, plans of a session | evaluate, derive from an ancestor, retain | a delta against the wrong ancestor | equals an evaluation of the whole state |
| Record storage (`records.py`, `iceberg.py`, `files.py`) | layers, files, checksum receipts, roots | write, change, unite, compact, register, delete | files shared between layers; partial publication | a layer resolves to exactly its rows |
| Table-shaped states and generations (`core_tables.py`, `generation_*.py`, `table_derivation.py`) | table states, index of occurrences, dataset pointer | admit, derive, advance | publish and advance are two transactions | exactly the artifact's rows; no update lost |
| Blob stores (`storage/blobs.py`, `s3_blob.py`) | files or objects | put, verify, delete | lost answers of conditional puts; names not yet durable | content under its digest |
| Content fetchers (`content_fetchers/`) | one transfer | fetch under limits, retry, redirect | cut and late answers, replaced objects | the bytes the source held, never more than the limit |
| Extraction and segmentation (`processing/`) | the loops of one call | plan, extract, recognise, tile, cut, overlap, pack, account | reader upgrades; a token count that is not quite monotone; three coordinate systems | text and segments name the bytes they came from, nothing is dropped to fit a budget |
| Source catalog store (`source_catalog_store/`) | staged, linked and synced blobs, roots | stage, put blob, gate, link, sync, rename, clean up | builds that share blobs; power loss | a visible catalog has all its blobs |
| Current pointer (`source_catalog_store/current.py`) | pointer file, series lock | advance, read | rival successors, kill around the replacement | compare and swap along declared succession |
| Catalog builder (`catalog_artifact/builder.py`, `inputs.py`, `catalog_policy_workspace.py`) | resume workspace: staged rows, indexes, accounting, cursor | load, pre-pass, stage items, mark, publish | killed anywhere, resumed with what the last commit holds | the catalog is the one an uninterrupted build makes |
| Catalog policies (`application/*catalog*`) | indexes in the workspace | interpret rows, join, sample, budget | ambiguous numbers, ranks across strata, values of the wrong form | deterministic in the sources, every value accounted for |
| Catalog verification (`catalog_artifact/`) | a pool of workers | seal, reconcile, derive, gate, stream | dead and stalled workers, replaced payloads | both derivations agree, nothing unverified is given out |
| Result exports, parallel execution, runtime, CLI, Dagster | little | conversion and composition | - | - |

Components call each other as follows. Runs and ingestion drive attempts; attempts, imports and
admissions open publication sessions; sessions put bytes in the blob store, write layers in the
record storage and commit to the ledger; maintenance works on all three and is kept apart from
sessions by the content guard, a file lock held shared by sessions and exclusively by removals.
A document run captures through the fetchers, extracts and segments. The catalog builder asks a
policy for items, uses a resume workspace of its own, verifies what it sealed, commits through the
catalog store, and a later command advances the pointer.

## 2. Modules

### Datasets

**Retention** models publication sessions, the ledger, operations as far as they protect content,
and maintenance, for a ledger without a record store (entity values inline). A record is a model
value; what it needs in full (`Needs`), names as a description (`Names`) and where its bytes are
(`Content`) are constants because records are immutable. The one edge that moves is a state's
preferred representation. `CheckPublication` computes the closure of a unit from the ledger as it
is, and `Commit`, later and in a transaction, compares the evidence versions it relied on;
`RetainJournal`, `RecordJournal` and `Recover` are the journal of an operation; `BeginRemoval`,
`DeleteContent`, `KeepContent`, `FailDeletion`, `CrashRemoval` and `ResumeRemoval` are a removal
with every place where it can stop. `FinishProducer` requires that the inputs the operation binds
are still retained: the producer reads them in its session. An operation outside `Fused` may be
prepared in one session and journaled in a later one, with a removal in between. The frontier of
document checkpoints is left to Operations.

**Operations** models the life of an attempt: its execution and progress history, the exclusive
claim of a resumption, the journal, `run_once` under the request lock, and the document run with
its named start unit, cumulative counter, checkpoints and the head it started from. What head the
process of the first attempt found is also kept apart from what the run carries (`looked`, `began`),
so that a selection can be compared with it. Every worker
may die at any step (`Crash`). Records are retained or removed in one step here (`RemoveResult`
stands for a whole removal of Retention).

**Identities** models who may claim a data identity. Members of a bulk state have no ledger row, so
a publication searches the layers for the identities it was given, a bulk import searches the rows,
and the commit of either compares the identity mark with the one the search began at; after
`Attempts` tries it refuses. A session caches what it found and what it missed under its mark.
**IdentityRegistry** is the abstract specification: rows and layers in which an identity means one
thing, every claim accepted in one step that looks at all of them. `ImplementsRegistry` is
`INSTANCE IdentityRegistry WITH row <- row, shelf <- Available`.

**States** models representations of keyed states (inline, or a membership layer beside an entity
layer), checkpoints, removal and restoration of representations, revisions with ordered edits, and
the certified history from which differences are read.

**Reuse** models requests with declared dependencies, the evidence on retained results (omissions,
supplements, comparisons), the choice of a candidate for a group of calls, the recheck at
publication, the commit that compares evidence versions, the index and the affected-result query.

**Selections** models the value of a selection over a state: evaluated in full, or derived from the
nearest retained ancestor or a plan that the session kept, by way of certified keys or a comparison.

**Records** models layers as Iceberg snapshots: data files and positional delete files, shared by
every layer forked from the same base. A write stages its files, seals them with receipts and then
writes the root; it may stop in between. **Registration** models one table directory to which
members are linked, sealed and pinned, with every interruption of a registration or a removal.

**GenerationSource** has the checks on a producer's generation, as operators over its metadata:
listing, partition statistics, the join of subjects to receipts. **Generation** models the calls
that admit one or derive a table: resolution, staging, publication in one transaction, advance of
the dataset in another, kills, races for one name, and removal of states. What a retry of a batch
must repeat (`Bound`) is its rows, base and rules; the dataset to advance is each call's own.

### Documents

**Transfers** models one acquisition through the routing fetcher and its delegates. The remote side
is free: it redirects, refuses, cuts, sends too much and replaces the object. **Blobs** models one
address of either blob store, with the directory entry that is not durable yet and the conditional
request whose answer is lost.

**VisibleText** holds the pure part of the HTML and XML extractor: the tree, its blocks, their
layout and the runs that lead from text to captured bytes. **Extraction** models a captured file in
its pipeline. A stage is planned, which fixes the identity of its result, and performed later: it
hashes the reader's installed files (`PerformExtract`, `PerformSegment`) and imports or uses the
reader in a later step (`ReadFile`, `CutSegments`). The files may be upgraded at any time, and the
process may have imported a reader before (`loaded`), so the reader used need not be the one checked;
`slipped` records that it may not be. Recognition answers page by page. It contains all extractors,
their evidence mappings, the plain segmenters and the check of a reloaded segment.

**Segmentation** models the bounded text segmenter as the state of its loops: a text is tiled block
by block, every region becomes a unit, a held span or a series of leaves, units are packed one by
one, and the bytes are accounted for at the end. Characters are classes (letter, two-byte letter,
blank, other white space, line ends, heading mark, full stop), since nothing else is looked at. The
bisections, the probe, the sweep and the interval arithmetic are translated as they are; the
properties state their results with sets. The token counter is a parameter: the three of the tests.
`ProbeChars` and `ProbeFactor` are 64 and 4 in the code and smaller in the run, so that the probe
really grows.

### Catalogs

**CatalogStore** models builds in the store of a workspace and in private stores that are renamed
to a destination, with the blobs they stage, reuse, link and sync, and the pointer of a series with
its lock. `synced` records which directory entries survive a power loss. The pinned directory
descriptors of `pinned_fs.py` make paths stable and are taken as such; the no-replace rename is the
artifact library's.

**CatalogBuild** models one resume workspace and the builds run on it. `disk` is the workspace as
of its last commit and `work` as the running build sees it, so `Kill` is `work' = disk`. Its actions
follow the laziness of the code: the sources are loaded when the policy first reads, the first item
it yields commits the pre-pass, each item is stored with its accounting, each full batch commits a
cursor. A pre-pass is one action: it commits nothing and nobody else sees it. `Expected` states what
the sources alone determine, with no reference to the steps.

**CatalogItems** has the values of a catalog row, their normalisation and the shapes a row may have.
**CatalogPolicies** models the three policies over it: a saved policy is read back, indexes and
samples the rows it joins, and interprets one row at a time.

**CatalogVerify** models the receipt over the partitions of a catalog, its reconciliation, the
serial derivation and the parallel one with its pool, the producer gate, and the row stream of a
reader. A digest is the framed payload it is computed from. Workers stall, die and are replaced by
the pool; a stored payload may be replaced by other bytes at any time.

### Instances

`MCRetention`, `MCOperations` and `MCCatalogStore` instantiate one module each. `MCCatalogs`
(with `MCCatalogBuild`, `MCPolicies` and `MCVerify`), `MCDocuments`, `MCStates` (with `MCIdentities`
and `MCReuse`) and `MCRecords` hold several components that share no variables; the variable `part`
says which of them a behaviour is about, and the others rest. `Extraction` and `Segmentation` are
really composed: the bounded segmenter runs inside a pipeline. In each of the modules, an operator
whose name adds a word to that of the definition after it and whose comment starts with Mutant,
Mutated or Variant is a plausible mistake that a property was tried against (`PROJECT.json`,
"mutants"); nothing else uses it.

## 3. Runs

| Run | Result | What it shows | Distinct states |
|---|---|---|---|
| RetentionMove | pass | content stays and heads stay complete while a representation moves, the head moves on to a result and two removals run | 400 000 |
| RetentionRestore | pass | restored records, resumed removals, protected journals, versions, no resurrection by a retry | 277 000 |
| RetentionLive | pass | a begun removal completes, unless a journal recorded in a later session than its producer's stays unpublishable | 18 000 |
| Operations | pass | one controller, performer and outcome; batches completed once; budget, checkpoint and head | 538 000 |
| OperationsLive | pass | a journaled batch is published | 1 152 |
| CatalogStore | pass | complete roots, private durability, pointer | 832 000 |
| CatalogBuild | pass | builds, policies and verification against what the sources and the rows determine; builds finish and verifications end | 221 000 |
| Documents | pass | acquired bytes, put blobs, extracted text, evidence mappings, segments; transfers end | 466 000 |
| States | pass | identities implement the registry; revisions, reuse and selections are exact | 1 292 000 |
| Records | pass | layers, registered tables, admitted generations, no lost update | 301 000 |
| RetentionRetry | violation | finding 1 | |
| CatalogRepeat | violation | finding 2 | |

Several invariants are conjunctions whose parts are defined and commented beside them:
`OneOutcome` includes that one process performs an execution at a time; `BuildExact` is
`PublishedExact`, `RefusedRightly` and `CommittedTogether`; `PoliciesExact` covers the sample, the
selection, the joins, the evidence of every field and the refusals; `VerifiedExact` the derivation,
the gate, the pool and the stream; `SegmentsExact` partition of the bytes, kept evidence, heading
paths, cuts and needless refusals; `StatesExact` includes that changes are read exactly;
`ReuseSound` is `ReuseChosen`, `EvidenceCoherent` and `StillCorresponds`; `RegistryViews` is
`RowsAgree` and `CacheCoherent`.

Bounds. Two publishers, workers, builders, advancers, sessions or callers: every hazard listed is
between two actors, and guards and locks do not count.

- Retention: one state with two representations, an operation whose output is the same blob as its
  input (so that shared content matters), a selection that names the operation's result (`sel`,
  retained by `uReuse`) with a head moved to that result (`qResult`), and two removals at a time out
  of three; the least with a move, a shared blob, a described result and a restoration. The run for
  liveness has one removal and two operations on the input it takes: one in a single session, one
  that may be journaled in a later one.
- Operations: three executions (start, an attempt that replaces it, and the batch) and five progress
  entries for each (`MaxEntries`): start, checkpoint, claim, journal and interruption.
- CatalogStore: `MaxBuilds = 3` gives a third build after two rivals.
- CatalogBuild needs no bound on kills, since a kill returns to a state on disk; its six requests
  hold the cases a policy tells apart, with batches of one and two. The policies interpret lists of
  up to five rows with missing, malformed and non-text values. Two workers derive up to five
  partitions, and one of them dies (`MaxDeaths`).
- Documents: all texts of up to four characters over five classes, texts of three pieces joined by
  four kinds of line end, two mappings cut at every byte, and a counter that prices one slice above
  every budget; all HTML files of up to three events and longer nested ones; one upgrade of a reader,
  at any point between plan, check and import, with none, the old or the new one imported before,
  two recognised pages, three versions of an object with one replacement, one redirect and one retry.
- States: three identities, two layers, three units and two attempts; two keys, two occurrences,
  three states and three representations; two calls with a chain of two results and three pieces of
  evidence; a history of three states.
- Records: two keys with two values, three layers, batches of two changes, four registrations of a
  table of two members, three generations of one table and three calls, batches repeated for a
  second dataset.

Symmetry is used between processes that run the same code, and between keys and values that nothing
compares, only in runs without liveness properties. `CHECK_DEADLOCK FALSE` is set where all
processes may come to rest (every unit published, every execution used up, a text segmented).

Fairness. Retention: sessions end (a `with` block), and an operator keeps resuming an unfinished
removal; strong fairness of the cleaner's steps says that crashes and store errors do not repeat
forever. `RemovalFinishes` assumes in its own statement that, again and again, every operation
journaled in a later session is publishable; without that premise TLC finds it violated, by the
first observation of section 4. Operations: a worker goes on or dies, callers keep retrying a batch,
a recovery is not
interrupted forever. CatalogBuild: a running build goes on and an interrupted one is started again;
`BuildFinishes` assumes in its own statement that kills stop. Nothing in the code promises the retry
itself: it is the documented duty of the caller. Transfers: the fetching side goes on, and every
request is answered or times out, which the clients' timeouts ensure. Verification: the parent
process goes on; workers are not assumed to.

## 4. Findings

1. `RetryAccepted`: repeating a committed unit recomputes what it retains. When the preferred
   representation of an input has moved since, the recomputed receipt differs and the identical call
   is refused, although the documentation says that repeating a selection id recovers the choice.
2. `DistinctUniverse`: an id that two universe inputs of a one-pass policy share is refused in the
   run that reads both, but a resumed run starts after the committed cursor in each input. When the
   id ends a batch, starting the refused build again publishes the catalog.

Observations made while modelling, which the models follow and no run states:

- `prepare` and `publish` may run in different sessions, and `publish` journals before anything
  checks that the inputs are still retained (`core_execution.py:473`); a removal in between leaves a
  journal that can be neither published nor inventoried. `operations.md:22` calls recovery documents
  and their inputs protected. `RecoveryProtected` therefore speaks of operations in one session. Such
  a journal also stops that removal and every other: a resumption first asks for a valid recovery
  inventory, and is refused until the inputs are restored or a policy removes the execution.
- The identity of an extraction or segmentation names the reader by the hashes of its installed
  files, taken before the reader is imported. The reader that runs can be another: imported earlier
  by the process, or installed between the hash and the import. `reader_identity.py:3` says as much
  ("not loaded-code"), so `ReaderPinned` promises the used reader only when neither happened.
- The request of a derived table binds its inputs and rows, not the dataset. A call for a published
  batch under another dataset is accepted and advances that dataset to the batch's state.
- A build that staged no blob of its own does not sync `.blobs/sha256` (`staging.py:484`); if it
  reused blobs that another build has linked but not synced, its root can be durable before their
  names are. `PrivatePersistent` therefore speaks of private stores.
- Two labels for one topic id in a document or Federal Register row, or one comment without any date,
  end a build instead of refusing the row; dockets, comments and supplied records read no topics. A
  `modifyDate` that is no text lets a row through without a version that a comment in
  `documents.py` rules out. Publishers' test documents can take a place in the sample.
- An unclosed suppressed element takes the rest of an HTML document with it in `_parse_html`.
- A generation that was published and overtaken before its advance stays published and can never
  become current: its retry is told that its base is stale. Admitting an older generation again
  returns its admission and leaves the dataset where it is.

## 5. Proofs

Eight modules hold proofs. Each proves, for all values of the constants that satisfy the named
assumptions, type invariants and the properties below; the other lemmas lead there. The argument
is the same throughout: an inductive invariant (checked by TLC on a run before it was proved), one
lemma for each action that keeps it, and the property as a consequence. Bounds in the guards
(`MaxEntries`, `MaxUnits`, `MaxStarts`, ...) are parameters like the others, so the results hold
for any number of steps. Of the 40 properties that the passing runs check, 30 are theorems.

| Module | Theorems |
|---|---|
| RetentionProof | `ContentSafe`, `ReadySafe`, `AvailabilityIsVersioned`, `RetryDoesNotResurrect`, `HeadsStayComplete`, `RecoveryKept` |
| OperationsProof | `DocumentRunControlled`, `AttemptSettledOnce`, `BatchCompletedOnce`, `WorkWithinBudget`, `CheckpointCountsWork`, `HeadMovesFromStart` |
| IdentitiesProof | `RegistryViewsRight`, `SessionsImplementRegistry` |
| StatesProof | `StatesMeanOne`, `SelectionsAreExact`, `ReuseIsSound`, `AffectedIsComplete` |
| RecordsProof | `LayersAreExact`, `RegisteredTablesExact`, `GenerationsAreExact`, `UpdatesFormChain` |
| DocumentsProof | `ReferencesReady`, `CapturesExact`, `RecognitionIsKept`, `ReadersPinned`, `SegmentsKept` |
| CatalogBuildProof | `BuildsAreExact`, `VerificationScheduleIndependent` |
| CatalogStoreProof | `CatalogsComplete`, `PrivateCatalogsPersist`, `PointerAdmissible`, `PointerFollowsSuccession` |

`ReadersPinned`, `SegmentsKept` and `VerificationScheduleIndependent` are about a part of a property
that the runs check in full (`ExtractionHonest`, `SegmentsExact`, `VerifiedExact`).

The invariants, and why the properties alone would not do:

- **Retention, content.** `ContentPresent` is not inductive: a commit makes records available on
  the strength of a check made earlier. `IInv` adds that a session holds the shared guard while it
  has ready bytes (`SessionInv`), that the cleaner's index covers the content of all available
  records and excludes sessions (`CleanerInv`), and that a session which passed the check of a new
  unit has the content of the unit's whole closure in its ready set (`CheckedInv`). That checking
  the full obligations is enough rests on `DescriptionAssumption` (`DescribedHasNoContent`).
- **Retention, heads and journals.** A removal decides by what is one link or one preference away
  from its scope, but a head needs a whole closure. `KeepInv` says that links and preferences lead
  everywhere the closure does (`LinkInv`), that a head, and a target that a session has validated,
  lies in a set of available records closed under both (`HeadInv`, `Held`), and that a check hands a
  closed set to its commit (`ClosedInv`). A journal is published against representations that may
  have moved since its producer ran: `FusedInv` and `RecoveryProtected` say that the operation is
  publishable now, and the lemmas on the closure show that each move, commit and removal keeps it
  so, since a move exchanges one available representation for another. This holds of operations whose
  producer and journal share a session (`Fused`): the guard of that session keeps removals away.
  `IndexInv` is the same for
  bytes in the plan of a removal that is under way.
- **Operations.** A claim is compared with an entry that the process read before. `Standing` ties
  each step of a worker to the last entry of its execution, so that an active execution is one whose
  last entry no other claim can match (`OneActive`); `Carried` says that the counter in memory is the
  work really done, `Recorded` that so is the one in a checkpoint that is last; `Unpublished`, with
  the lock in `Placed`, that no attempt of a batch is journaled while another one runs.
  `SelectCurrent` compares the head with what a result carries, days after it was read. `StartFixed`
  follows that value: it is the one the first attempt's process found in what a worker carries
  (`HeadCarried`), in every checkpoint (`HeadSaved`) and in every result (`HeadStaged`).
- **Identities.** The check of an identity and the commit are apart. `Checked` says what an attempt
  established, valid for as long as the mark stands, or for good where the identity has a row;
  `Dated` that an attempt never holds a mark from the future; `Remembers` that the caches of a
  session describe what is there unless layers came since it looked. With it each commit is a
  step of IdentityRegistry and every other step a stutter.
- **States.** That the representations of a state agree cannot be seen from two of them: one may
  outlive the one it was checked against. `OneMeaning` says that they all agree, `HoldsOwn` that each
  has the entities its members name, `RevisionsRight` that a revision was computed from what its
  base means and a certificate names what it gives, `MainsRight` that the preferred representation
  of a state that has one is there. Along a chain of certificates a key that no revision touches
  keeps its occurrence, so the edits read over the chain are the changes between its ends.
- **Selections.** `SelInv`: a retained selection, and a plan that a session kept, has the rows its
  state has. A derivation replaces the rows of the certified keys of a nearer selection; the keys
  not certified have the same rows in both states, so the result is that of a full evaluation. A
  comparison by counts is right because the counts of untouched keys cancel.
- **Reuse.** A choice is assessed against evidence that may grow before the commit. While a session
  is open nothing is removed, so inputs, evidence and comparisons only grow (`Grows`); what was read
  under a result's version stays true while that version stands (`Reading`, `Committable`,
  `Recordable`); and a removal leaves alone what a standing choice rests on. `AffectedIsComplete`
  follows from the same invariant and the index that is written with each choice.
- **Layers.** `LayersInv`: what a snapshot reads is a function of the files it lists; a write adds
  files of its own, so every other snapshot reads as before; and removal takes only files that no
  other layer lists. The bags of rows are counted by `Tally`, a count over finite index sets.
- **Registration.** `Accumulated` says that the members before the one a call is at are in place
  and sealed, `Sealed` that no receipt of older bytes survived the step before a link, `Harmless`
  that a call on a table already registered placed nothing, so that its cleanup takes nothing away.
- **Generations, rows.** `TablesInv`. First the checks, as operators: counts that add up are the
  number of rows, receipts that collide with none before them are apart, and subjects that each
  take unused receipts until none is left correspond to them one to one (`VerifiedTrustworthy`).
  Then each way of writing layers: over a base that holds its rows at their occurrences it makes
  such a base (`FirstBuilt`, `DeltaBuilt`, `RemintBuilt`, `DerivedBuilt`). Then the calls: a state is
  removed but never changed, so what a call `Found` about its base stays true until it publishes.
- **Generations, advance.** An update may be repeated by a retry after others. The base of a state
  is fixed when it is published and every later call for its name takes it over (`CallInv`), one call
  publishes a name (`Apart`), and the current state of a dataset is the only end of the chain of
  its updates (`HeadInv`), so an advance that compares the head with the base adds a link at the end
  or finds its own there.
- **Blobs.** `Seen`: a writer about to hand out a reference has seen the object and nothing took it
  away since. `Exclusive`: a deletion is alone at its address (the exclusive protection its owner holds).
  `Routed` keeps the two backends apart; `Untouched` says what may run after a deletion.
- **Transfers.** The source may change at any time, so `Good` speaks of the version that an answer
  was about: only newer ones replace it, the chunks of a response are all of it, and those of a
  local file are of versions between it and the present. A local body that ends with the size and
  the status it began with is therefore one version.
- **Recognition and readers.** `RecognitionInv`: the bytes of each answer taken are an item of the
  evidence, there is no manifest before the end and exactly one after it, of all answers in order.
  `PinnedInv`: a plan fixes the name of its reader, and the producer finds that reader installed or
  fails; while nothing slipped (`Unslipped`), the process has imported no other one, and what is
  installed when it imports is still what it checked.
- **Segmentation.** `SegInv`: windows follow one another, the regions of a window tile it with all
  that is not white space in paragraphs and headings (`TextTiled`), the stack is the open headings
  before the region at hand with strictly rising levels (`StackInv`), a unit lies in one paragraph
  and its key tells it from every unit beyond a heading (`UnitsInv`), the units of the regions passed
  cover their paragraphs (`CutInv`), and a group reaches from a unit to a later one of the same key
  (`Gathers`). The probe, the bisections and the two scans are tail-recursive functions: a measure
  falls on every call, so they have a value, and it is that of one of their exits (`HandingExists`,
  `HandingEnds`, `Bisected`). `SegmentsKept` does not ask the counter to be monotone.
- **Catalog builds.** `BuildInv`: what the workspace keeps of a key stands for the filings read so
  far (`StandsFor`), so with every source read the rows are a function of the request; the pre-pass,
  the ids still to be read and each item are functions of those rows. All of it is said of one
  workspace, so it holds of the committed one whenever it held of the working one at a mark, and a
  kill returns to the committed one. `BuildExact` includes what is committed together.
- **Verification.** `VerifyInv`: a task is done only when its partition passed, summaries are taken
  in the order of the partitions, and a receipt is made only from all of them; so workers that
  stall, die and are replaced change neither the result nor what it says.
- **CatalogStore.** `BuildInv` states what a transaction has established at each of its steps
  (`Sound`), that only its own session puts blobs into a private store and links all of them
  (`Alone`), and that a private store belongs to one session and is empty before it (`Owned`);
  `AdvanceInv` that the holder of the series lock still has the pointer it compared (`Holding`).

Assumptions on constants, and why the code grants them:

- The graph of records is typed; descriptions have no content; an execution belongs to one attempt
  (`ExecutionAssumption`: its identity is new). `KindAssumption` says what the kinds of records
  require, as `core_publication.py` computes it: a state is in full through a representation only,
  and a representation requires its state, entities and a revision, which require nothing in full.
  `TargetAssumption`: `select_current` accepts a state or a result.
- Documents and batches are different requests, states admitted under a pin and states derived in a
  batch have different names (`NamesAssumption`: `stable_urn` with different kinds), a call names a
  known dataset and base and finitely many rows (`CallsAssumption`).
- A call's request declares dependencies on known inputs and calls are answered in groups
  (`ReuseAssumption`); selections are over finitely many keys, and scopes are sets of them
  (`SelectionAssumption`).
- The rows of a file are a sequence, and the footer of a Parquet row group states its least and
  greatest value truly (`BytesAssumption`: the writer computes them from the rows); a listed member
  has a digest of some bytes (`ArtifactsAssumption`).
- A source lists its rows with rising ids and a policy that joins a lookup input has a pre-pass
  (`SourceAssumption`, `PolicyAssumption`: both are enforced where sources and policies are made);
  ids are finitely many numbers (`IdsAssumption`); a receipt lists partitions in order
  (`PartitionsAssumption`).
- Versions are numbers in the order in which the source had them, with a size each
  (`VersionAssumption`); limits are natural numbers and at least one attempt is made
  (`FetchAssumption`, `IdentityAssumption`).
- `OcrExtractor` accepts a selection of distinct positive pages (`PagesAssumption`); an answer is a
  text for a numbered page (`AnswersAssumption`).
- `BoundedSegmentSettings` accepts a positive maximum, a minimum within it and a smaller overlap
  (`SettingsAssumption`); `Representation` accepts mappings in order without overlap
  (`MappingAssumption`); a token counter answers an integer (`CounterAssumption`).
- Bounds are natural numbers, and `None`, `Nil`, `Absence`, `Absent` or `Blank` is no name, value or
  record of anything (`RecordsAssumption`, `StatesAssumption`, `NoneAssumption`, `NilAssumption`,
  `UnitsAssumption`, `RegistrationAssumption`).

Only model-checked:

- liveness under fairness, which the prover does not do: `RemovalFinishes`, `JournalPublished`,
  `BuildFinishes`, `VerificationEnds`, `TransferEnds`;
- `PoliciesExact`: joins, samples and evidence are sorts and folds over rows;
- `TextExact`: the tree of a document and its layout are recursive operators over sequences;
- the rest of `ExtractionHonest`: evidence mappings are built by the same operators;
- the rest of `VerifiedExact`: that both derivations agree on the payloads is a fact about folds over
  the rows, and that the stream gives out nothing unverified rests on it;
- the rest of `SegmentsExact`: the accounting of bytes and that the windows are the whole text
  (`Merge`, `Remainder` and `Sweep` are folds over sorted spans), that bisection finds what comparing
  all ends would, and that no regular text is refused.

The obstacle is the same in the last five: `SortSeq` and the folds of the community modules take
operators as parameters and the provers have no induction rule for them. A recursive function over
numbers is within reach, by way of a least counterexample (`Iterated` and `Climb` in RecordsProof,
StatesProof and DocumentsProof); that is why the loops above are written as such functions.

## 6. Not modelled, and the plan

Left out for good: reading of HTML, XML and PDF (SpicyDocs), JSON schemas, hashing, SQL over DuckDB,
S3 and Iceberg themselves, canonical encodings, CLI formatting, the Dagster adapter. Left out
because they keep no state between calls that another part could disturb: result exports (their
publication step is that of the catalog store), the bounded execution adapter (a window over a
standard thread pool), catalog previews. Left out of modelled components: fused upstream graphs of
operations; the checkpoint frontier of the recovery inventory; contract types and volatile columns of
tables; the byte limits of metadata batches; ranged reads of blobs.

Next:

1. The accounting of a segmentation. `Merge` and `Sweep` written as recursive functions over the
   number of spans, with the sort as a chosen permutation, could be proved by the lemmas that the
   layers already use for bags; the byte partition would follow.
2. The data half of `VerifiedExact`, in the same way: the two derivations as functions over row
   numbers, equal partition by partition.
3. The bounded segmenter inside a pipeline: `SegmentsKept` speaks of the jobs in `Jobs`; the job that
   a pipeline makes from a representation satisfies the same assumptions, which is not proved.
4. Identities under Retention: one ledger in which both guards act.
