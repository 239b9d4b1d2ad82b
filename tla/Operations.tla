------------------------------ MODULE Operations ------------------------------
(***************************************************************************)
(* Attempts at an operation and what may follow an interruption.           *)
(*                                                                         *)
(* application/core_execution.py gives every attempt a fresh execution and *)
(* an append-only progress history in the ledger.  An attempt prepares,    *)
(* performs, and publishes through a journal; a suspended one is resumed   *)
(* under an exclusive claim, a journaled one is recovered without running  *)
(* its producer.  Two drivers decide which of these a retry does:          *)
(* run_once (retried ingestion batches, under a request lock) and          *)
(* run_document_operation (application/document_run.py, which also carries *)
(* the cumulative work counters and the dataset head the run started from).*)
(*                                                                         *)
(* Workers are processes that share the ledger; each may die at any point. *)
(* Retention of the records themselves is the subject of Retention.        *)
(***************************************************************************)
EXTENDS Naturals, Sequences, FiniteSets

CONSTANTS
    Workers,     \* processes
    Documents,   \* document run identities
    Batches,     \* requests retried through run_once
    Executions,  \* execution identities available to fresh attempts
    Base,        \* batch -> head its caller expects
    Limit,       \* cumulative work limit of a document run
    Stages,      \* stages a document run must complete
    MaxEntries,  \* bound on the progress entries of one execution
    None

Requests == Documents \cup Batches

ASSUME SizeAssumption == Limit \in Nat /\ Stages \in Nat /\ MaxEntries \in Nat

ASSUME NameAssumption ==
    /\ Documents \cap Batches = {}
    /\ Base \in [Batches -> Requests \cup {None}]
    /\ None \notin Requests \cup Executions \cup Workers

VARIABLES
    owner,     \* execution -> request it attempts, or None
    start,     \* document run -> execution of its start unit, or None
    began,     \* history: document run -> head that its first attempt found
    progress,  \* execution -> its progress entries
    result,    \* execution -> status of its staged result record
    outcome,   \* execution -> checkpoint state of its successful result
    retained,  \* executions whose result is retained
    gone,      \* retained results that a policy made unavailable
    kept,      \* document run -> stages whose results are published for reuse
    head,      \* current target of the dataset
    selected,  \* requests whose current selection is recorded
    lock,      \* batch -> worker that holds its request lock, or None
    worker,    \* worker -> [pc, req, exe, seen, state, looked]; looked is the history
               \* of the head at its call, beside what it remembers in state
    spent      \* document run -> work actually done on its behalf

records == <<owner, start, began, result, outcome, retained, gone, kept, head, selected>>
ledger == <<progress, records>>
vars == <<ledger, lock, worker, spent>>

\* What a checkpoint saves: the work counted so far and the head at the start.
Fresh(r) == [work |-> 0, expected |-> IF r \in Documents THEN head ELSE Base[r]]

NoState == [work |-> 0, expected |-> None]

Resting == [pc |-> "idle", req |-> None, exe |-> None, seen |-> 0, state |-> NoState,
            looked |-> None]

Entry(kind, state) == [kind |-> kind, state |-> state]

\* ledger.record_progress without an expected update: append.
Append1(e, kind, state) ==
    /\ Len(progress[e]) < MaxEntries
    /\ progress' = [progress EXCEPT ![e] = Append(@, Entry(kind, state))]

Kinds(e) == {progress[e][i].kind : i \in DOMAIN progress[e]}

Journaled(e) == "publication" \in Kinds(e)

Attempts(r) == {e \in Executions : owner[e] = r}

\* The latest progress entry is a suspension.
Suspended(e) ==
    progress[e] # <<>> /\ progress[e][Len(progress[e])].kind = "checkpoint"

Goto(w, pc) == worker' = [worker EXCEPT ![w].pc = pc]

\* The driver returns or raises: the worker's session and request lock end.
Leave(w) ==
    /\ worker' = [worker EXCEPT ![w] = Resting]
    /\ lock' = [b \in Batches |-> IF lock[b] = w THEN None ELSE lock[b]]

Enter(w, r, e, pc, state) ==
    worker' = [worker EXCEPT ![w] = [pc |-> pc, req |-> r, exe |-> e, seen |-> 0, state |-> state,
                                     looked |-> IF pc = "fresh" THEN head ELSE None]]

At(w, pc) == worker[w].pc = pc

-----------------------------------------------------------------------------
(* The drivers                                                              *)

\* Mutant: retries of one batch are not serialized.
RunOnceUnlocked(w, b) ==
    /\ At(w, "idle")
    /\ lock' = [lock EXCEPT ![b] = w]
    /\ IF \E e \in Attempts(b) : e \in retained \/ Journaled(e)
       THEN \E e \in Attempts(b) :
              /\ e \in retained \/ Journaled(e)
              /\ e \notin gone
              /\ Enter(w, b, e, "recovering", NoState)
       ELSE Enter(w, b, None, "fresh", Fresh(b))
    /\ UNCHANGED <<ledger, spent>>

\* run_once: a retained or journaled attempt is recovered; without one the work
\* runs again.  A result that a policy removed is an error, never a rerun.
RunOnce(w, b) ==
    /\ At(w, "idle")
    /\ lock[b] = None
    /\ lock' = [lock EXCEPT ![b] = w]
    /\ IF \E e \in Attempts(b) : e \in retained \/ Journaled(e)
       THEN \E e \in Attempts(b) :
              /\ e \in retained \/ Journaled(e)
              /\ e \notin gone
              /\ Enter(w, b, e, "recovering", NoState)
       ELSE Enter(w, b, None, "fresh", Fresh(b))
    /\ UNCHANGED <<ledger, spent>>

\* run_document_operation: one controlling execution is resumed or recovered;
\* uncheckpointed work is refused.  No lock is held.
RunDocument(w, r) ==
    /\ At(w, "idle")
    /\ \/ Attempts(r) = {} /\ Enter(w, r, None, "fresh", Fresh(r))
       \/ \E e \in Attempts(r) :
            /\ Attempts(r) = {e}
            /\ \/ e \in retained /\ Enter(w, r, e, "recovering", NoState)
               \/ e \notin retained /\ Suspended(e) /\ Enter(w, r, e, "resuming", NoState)
               \/ /\ e \notin retained /\ ~Suspended(e) /\ Journaled(e)
                  /\ Enter(w, r, e, "recovering", NoState)
    /\ UNCHANGED <<ledger, lock, spent>>

-----------------------------------------------------------------------------
(* prepare                                                                  *)

\* Mutant: the start unit of a document run is named after the execution.
StartUnnamed(w, e) ==
    LET r == worker[w].req IN
    /\ At(w, "fresh")
    /\ owner[e] = None
    /\ owner' = [owner EXCEPT ![e] = r]
    /\ start' = [start EXCEPT ![r] = e]
    /\ began' = [began EXCEPT ![r] = worker[w].looked]
    /\ worker' = [worker EXCEPT ![w].exe = e, ![w].pc = "starting"]
    /\ UNCHANGED <<progress, result, outcome, retained, gone, kept, head, selected, lock, spent>>

\* The start unit commits the fresh execution.  A document run gives the unit its
\* request's name, so a second one conflicts with it.
Start(w, e) ==
    LET r == worker[w].req IN
    /\ At(w, "fresh")
    /\ owner[e] = None
    /\ r \in Documents => start[r] = None
    /\ owner' = [owner EXCEPT ![e] = r]
    /\ IF r \in Documents
       THEN start' = [start EXCEPT ![r] = e] /\ began' = [began EXCEPT ![r] = worker[w].looked]
       ELSE UNCHANGED <<start, began>>
    /\ worker' = [worker EXCEPT ![w].exe = e, ![w].pc = "starting"]
    /\ UNCHANGED <<progress, result, outcome, retained, gone, kept, head, selected, lock, spent>>

RecordStarted(w) ==
    /\ At(w, "starting")
    /\ Append1(worker[w].exe, "started", NoState)
    /\ Goto(w, "performing")
    /\ UNCHANGED <<records, lock, spent>>

-----------------------------------------------------------------------------
(* resume                                                                   *)

\* Mutant: a resume takes the head of the day for the one the run started from.
ReadCheckpointNow(w) ==
    LET e == worker[w].exe
        n == Len(progress[e])
    IN
    /\ At(w, "resuming")
    /\ Suspended(e)
    /\ worker' = [worker EXCEPT ![w].seen = n, ![w].pc = "claiming",
                                ![w].state = [progress[e][n].state EXCEPT !.expected = head]]
    /\ UNCHANGED <<ledger, lock, spent>>

\* The latest entry is read again; its checkpoint names the saved state.
ReadCheckpoint(w) ==
    LET e == worker[w].exe
        n == Len(progress[e])
    IN
    /\ At(w, "resuming")
    /\ Suspended(e)
    /\ worker' = [worker EXCEPT ![w].seen = n, ![w].state = progress[e][n].state,
                                ![w].pc = "claiming"]
    /\ UNCHANGED <<ledger, lock, spent>>

\* Mutant: the claim does not compare the latest update.
ClaimAnyway(w) ==
    /\ At(w, "claiming")
    /\ Append1(worker[w].exe, "started", NoState)
    /\ Goto(w, "performing")
    /\ UNCHANGED <<records, lock, spent>>

\* record_progress with the expected update: exactly one resumer continues.
Claim(w) ==
    LET e == worker[w].exe IN
    /\ At(w, "claiming")
    /\ Len(progress[e]) = worker[w].seen
    /\ Append1(e, "started", NoState)
    /\ Goto(w, "performing")
    /\ UNCHANGED <<records, lock, spent>>

-----------------------------------------------------------------------------
(* _perform                                                                 *)

\* Mutant: the limit is never compared.
WorkUnlimited(w) ==
    LET r == worker[w].req IN
    /\ At(w, "performing")
    /\ r \in Documents
    /\ kept[r] < Stages
    /\ worker' = [worker EXCEPT ![w].state.work = @ + 1]
    /\ spent' = [spent EXCEPT ![r] = @ + 1]
    /\ UNCHANGED kept \/ kept' = [kept EXCEPT ![r] = @ + 1]
    /\ UNCHANGED <<owner, start, began, progress, result, outcome, retained, gone, head, selected, lock>>

\* A document run does one unit of new work and counts it, then compares with the
\* limit; a stage that completes within it is published for reuse.
Work(w) ==
    LET r == worker[w].req
        total == worker[w].state.work + 1
    IN
    /\ At(w, "performing")
    /\ r \in Documents
    /\ worker[w].state.work <= Limit
    /\ kept[r] < Stages
    /\ worker' = [worker EXCEPT ![w].state.work = total]
    /\ spent' = [spent EXCEPT ![r] = @ + 1]
    /\ \/ UNCHANGED kept
       \/ total <= Limit /\ kept' = [kept EXCEPT ![r] = @ + 1]
    /\ UNCHANGED <<owner, start, began, progress, result, outcome, retained, gone, head, selected, lock>>

\* The producer raised.  A document run turns every error into a suspension.
ProducerError(w) ==
    /\ At(w, "performing")
    /\ Goto(w, IF worker[w].req \in Documents THEN "suspending" ELSE "failing")
    /\ UNCHANGED <<ledger, lock, spent>>

\* The producer returned; its outputs are in memory.
ProducerDone(w) ==
    LET r == worker[w].req IN
    /\ At(w, "performing")
    /\ r \in Documents => kept[r] = Stages /\ worker[w].state.work <= Limit
    /\ Goto(w, "prepared")
    /\ UNCHANGED <<ledger, lock, spent>>

\* Mutant: the checkpoint saves the counters the attempt started with.
SaveCheckpointReset(w) ==
    LET e == worker[w].exe IN
    /\ At(w, "suspending")
    /\ Append1(e, "checkpoint", [work |-> 0, expected |-> worker[w].state.expected])
    /\ Leave(w)
    /\ UNCHANGED <<records, spent>>

\* _save_checkpoint: the data batch and the checkpoint document, then the entry.
SaveCheckpoint(w) ==
    /\ At(w, "suspending")
    /\ Append1(worker[w].exe, "checkpoint", worker[w].state)
    /\ Leave(w)
    /\ UNCHANGED <<records, spent>>

\* Saving the checkpoint failed in turn: the attempt fails.
CheckpointError(w) ==
    /\ At(w, "suspending")
    /\ Goto(w, "failing")
    /\ UNCHANGED <<ledger, lock, spent>>

\* The failure result is staged under the attempt's result identity.
StageFailure(w) ==
    LET e == worker[w].exe IN
    /\ At(w, "failing")
    /\ result[e] # "success"
    /\ result' = [result EXCEPT ![e] = "failure"]
    /\ Goto(w, "failed")
    /\ UNCHANGED <<owner, start, began, progress, outcome, retained, gone, kept, head, selected, lock, spent>>

RecordFailed(w) ==
    /\ At(w, "failed")
    /\ Append1(worker[w].exe, "failed", NoState)
    /\ Leave(w)
    /\ UNCHANGED <<records, spent>>

-----------------------------------------------------------------------------
(* publish and recover                                                      *)

\* The completed records are staged: a result already staged under this identity
\* is immutable and would refuse another.
StageOutputs(w) ==
    LET e == worker[w].exe IN
    /\ At(w, "prepared")
    /\ result[e] = "none"
    /\ result' = [result EXCEPT ![e] = "success"]
    /\ outcome' = [outcome EXCEPT ![e] = worker[w].state]
    /\ Goto(w, "staged")
    /\ UNCHANGED <<owner, start, began, progress, retained, gone, kept, head, selected, lock, spent>>

\* The journal document is retained and named by the attempt's progress.
Journal(w) ==
    /\ At(w, "staged")
    /\ Append1(worker[w].exe, "publication", NoState)
    /\ Goto(w, "journaled")
    /\ UNCHANGED <<records, lock, spent>>

\* Mutant: only a journal that is the latest entry is recovered.
RecoverLatest(w) ==
    LET e == worker[w].exe IN
    /\ At(w, "recovering")
    /\ \/ e \in retained /\ Goto(w, "published")
       \/ /\ e \notin retained
          /\ progress[e][Len(progress[e])].kind = "publication"
          /\ Goto(w, "journaled")
    /\ UNCHANGED <<ledger, lock, spent>>

\* recover: a retained result is returned, a journaled one is published.
Recover(w) ==
    LET e == worker[w].exe IN
    /\ At(w, "recovering")
    /\ \/ e \in retained /\ Goto(w, "published")
       \/ e \notin retained /\ Journaled(e) /\ Goto(w, "journaled")
    /\ UNCHANGED <<ledger, lock, spent>>

\* session.publish of the journal's unit: an identical unit is a retry.
PublishJournal(w) ==
    /\ At(w, "journaled")
    /\ retained' = retained \cup {worker[w].exe}
    /\ Goto(w, "published")
    /\ UNCHANGED <<owner, start, began, progress, result, outcome, gone, kept, head, selected, lock, spent>>

\* Staging, journaling or publication raised; the interruption is recorded.
PublicationInterrupted(w) ==
    /\ worker[w].pc \in {"prepared", "staged", "journaled"}
    /\ Append1(worker[w].exe, "interrupted", NoState)
    /\ Leave(w)
    /\ UNCHANGED <<records, spent>>

\* The output becomes the dataset's current target, unless the head has moved
\* from the one the attempt started with.  A recorded selection is not repeated.
SelectCurrent(w) ==
    LET r == worker[w].req
        e == worker[w].exe
    IN
    /\ At(w, "published")
    /\ e \notin gone
    /\ \/ r \in selected /\ UNCHANGED <<head, selected>>
       \/ /\ r \notin selected
          /\ head = outcome[e].expected
          /\ head' = r
          /\ selected' = selected \cup {r}
    /\ Leave(w)
    /\ UNCHANGED <<owner, start, began, progress, result, outcome, retained, gone, kept, spent>>

-----------------------------------------------------------------------------
(* The environment                                                          *)

\* The process dies, or an error that nothing records leaves the driver.
Crash(w) ==
    /\ ~At(w, "idle")
    /\ Leave(w)
    /\ UNCHANGED <<ledger, spent>>

\* A policy makes a retained result unavailable (see Retention); the current
\* target is never removed.
RemoveResult(e) ==
    /\ e \in retained \ gone
    /\ owner[e] # head
    /\ \A w \in Workers : At(w, "idle")
    /\ gone' = gone \cup {e}
    /\ UNCHANGED <<owner, start, began, progress, result, outcome, retained, kept, head, selected,
                   lock, worker, spent>>

-----------------------------------------------------------------------------

Init ==
    /\ owner = [e \in Executions |-> None]
    /\ start = [r \in Documents |-> None]
    /\ began = [r \in Documents |-> None]
    /\ progress = [e \in Executions |-> <<>>]
    /\ result = [e \in Executions |-> "none"]
    /\ outcome = [e \in Executions |-> NoState]
    /\ retained = {}
    /\ gone = {}
    /\ kept = [r \in Documents |-> 0]
    /\ head = None
    /\ selected = {}
    /\ lock = [b \in Batches |-> None]
    /\ worker = [w \in Workers |-> Resting]
    /\ spent = [r \in Documents |-> 0]

Attempt(w) ==
    \/ \E e \in Executions : Start(w, e)
    \/ RecordStarted(w) \/ ReadCheckpoint(w) \/ Claim(w)
    \/ Work(w) \/ ProducerError(w) \/ ProducerDone(w)
    \/ SaveCheckpoint(w) \/ CheckpointError(w) \/ StageFailure(w) \/ RecordFailed(w)
    \/ StageOutputs(w) \/ Journal(w) \/ Recover(w) \/ PublishJournal(w)
    \/ PublicationInterrupted(w) \/ SelectCurrent(w)

Next ==
    \/ \E w \in Workers :
         \/ \E b \in Batches : RunOnce(w, b)
         \/ \E r \in Documents : RunDocument(w, r)
         \/ Attempt(w)
         \/ Crash(w)
    \/ \E e \in Executions : RemoveResult(e)

Spec == Init /\ [][Next]_vars

-----------------------------------------------------------------------------
(* Properties                                                               *)

PCs == {"idle", "fresh", "starting", "resuming", "claiming", "performing", "suspending",
        "failing", "failed", "prepared", "staged", "journaled", "recovering", "published"}

StateType == [work : Nat, expected : Requests \cup {None}]

EntryType == [kind : {"started", "checkpoint", "failed", "publication", "interrupted"},
              state : StateType]

\* Progress entries, attempts and workers keep their types: every checkpoint entry
\* names a complete saved state.
TypeOK ==
    /\ owner \in [Executions -> Requests \cup {None}]
    /\ start \in [Documents -> Executions \cup {None}]
    /\ began \in [Documents -> Requests \cup {None}]
    /\ progress \in [Executions -> Seq(EntryType)]
    /\ result \in [Executions -> {"none", "success", "failure"}]
    /\ outcome \in [Executions -> StateType]
    /\ retained \subseteq Executions
    /\ gone \subseteq retained
    /\ kept \in [Documents -> Nat]
    /\ head \in Requests \cup {None}
    /\ selected \subseteq Requests
    /\ lock \in [Batches -> Workers \cup {None}]
    /\ worker \in [Workers -> [pc : PCs, req : Requests \cup {None},
                               exe : Executions \cup {None}, seen : Nat, state : StateType,
                               looked : Requests \cup {None}]]
    /\ spent \in [Documents -> Nat]

\* A document run is controlled by one execution however many processes start it:
\* the error "more than one controlling execution" is never reached.
OneController == \A r \in Documents : Cardinality(Attempts(r)) <= 1

Producing == {"performing", "suspending", "failing", "failed", "prepared", "staged"}

\* One worker at most is between the claim of an attempt and its durable end, so
\* no attempt is performed, failed, suspended and published by two processes.
OnePerformer ==
    \A v, w \in Workers :
        v # w /\ worker[v].pc \in Producing /\ worker[w].pc \in Producing
            => worker[v].exe # worker[w].exe

\* An attempt is performed by one worker and its result is staged once: no failure is
\* recorded over a success, no output is refused for an earlier failure, and what a
\* journal publishes succeeded.
OneOutcome ==
    /\ OnePerformer
    /\ \A w \in Workers :
         worker[w].pc \in {"failing", "prepared"} => result[worker[w].exe] = "none"
    /\ \A e \in Executions : Journaled(e) => result[e] = "success"

\* However a batch is retried after crashes and failures, one attempt at most
\* completes: its request never has two published outputs.
CompletedOnce ==
    \A b \in Batches : Cardinality({e \in Attempts(b) : Journaled(e)}) <= 1

\* The work done for one run identity exceeds its limit by no more than the unit
\* that was being counted when the limit was met, whatever fails, dies or resumes.
WithinBudget == \A r \in Documents : spent[r] <= Limit + 1

\* A run that can be resumed has counted all of the work done so far.
CheckpointExact ==
    \A r \in Documents : \A e \in Attempts(r) :
        Suspended(e) => progress[e][Len(progress[e])].state.work = spent[r]

\* The head a request may replace: what it was when the driver of a document run's
\* first attempt read it, and for a batch what its caller named.
Target(r) == IF r \in Documents THEN began[r] ELSE Base[r]

\* However often a document run is suspended, killed, resumed and recovered, its
\* selection moves the head only from the target that was found by the process whose
\* first attempt the start unit committed (document_run.py, expected_current): no
\* resume adopts a head that another request has selected meanwhile.
HeadFromStart ==
    [][head' # head => /\ head = Target(head')
                       /\ \E e \in retained : owner[e] = head']_vars

-----------------------------------------------------------------------------
(* Liveness: a worker goes on or dies, callers keep retrying a batch, and a  *)
(* recovery is not interrupted forever.                                     *)

Fairness ==
    \A w \in Workers :
        /\ WF_vars(Attempt(w) \/ Crash(w))
        /\ SF_vars(Recover(w)) /\ SF_vars(PublishJournal(w))
        /\ \A b \in Batches : SF_vars(RunOnce(w, b))

FairSpec == Spec /\ Fairness

\* A completed producer is not run again in vain: once journaled, its result is
\* retained at the latest by a retry.
JournalPublished ==
    \A e \in Executions : (owner[e] \in Batches /\ Journaled(e)) ~> e \in retained
=============================================================================
