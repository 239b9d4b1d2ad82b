--------------------------- MODULE RetentionProof ---------------------------
(***************************************************************************)
(* Content safety of Retention, for every set of records, units, sessions  *)
(* and removals.                                                           *)
(***************************************************************************)
EXTENDS Retention, TLAPS

\* A session holds the shared guard from the moment it opens until it ends, and
\* an idle publisher knows no bytes.
SessionInv ==
    \A p \in Publishers :
        /\ phase[p] = "idle" <=> p \notin shared
        /\ phase[p] = "idle" => ready[p] = {}
        /\ phase[p] \in {"open", "checked", "conflict"} => work[p] \in Units
        /\ phase[p] \in {"started", "prepared", "staged", "journaled"} => work[p] \in Operations
        /\ phase[p] = "validated" => work[p] \in Selects

\* The exclusive guard excludes every session, and the plan of its holder
\* protects all content that is still available.
CleanerInv ==
    cleaner # None =>
        /\ shared = {}
        /\ \A r \in Available : Content[r] \subseteq index

\* A session that may commit a new unit holds the content of its whole closure.
CheckedInv ==
    \A p \in Publishers :
        phase[p] = "checked" /\ receipt[work[p]] = None =>
            \A r \in check[p].required : Content[r] \subseteq ready[p]

\* The inductive invariant.
IInv == TypeOK /\ SessionInv /\ CleanerInv /\ CheckedInv /\ ReadyPresent /\ ContentPresent

-----------------------------------------------------------------------------
(* The closure                                                              *)

\* What a full obligation describes, transitively, has no content of its own:
\* checking the content of the full obligations checks the whole closure.
LEMMA DescribedHasNoContent ==
    ASSUME NEW full \in SUBSET Records, NEW t \in RequiredSet(full), t \notin full
    PROVE  Content[t] = {}
<1> DEFINE Bare == {r \in Records : Content[r] = {}}
<1>1. PICK o \in full : \E r \in Names[o] : <<r, t>> \in Describes
  BY DEF RequiredSet
<1>2. PICK r \in Names[o] : <<r, t>> \in Describes
  BY <1>1
<1>3. t \in Closure(Names, r)
  BY <1>2 DEF Describes, Listed
<1>4. o \in Records /\ r \in Records /\ r \in Bare
  BY <1>2, GraphAssumption, DescriptionAssumption
<1>5. \A q \in Bare : Names[q] \subseteq Bare
  BY GraphAssumption, DescriptionAssumption
<1>6. Bare \in SUBSET Records
  OBVIOUS
<1>7. t \in Bare
  BY <1>3, <1>4, <1>5, <1>6 DEF Closure
<1> QED
  BY <1>7

\* The closure of a batch consists of records.
LEMMA ClosureType ==
    ASSUME NEW choice, NEW roots
    PROVE  /\ FullSet(choice, roots) \in SUBSET Records
           /\ RequiredSet(FullSet(choice, roots)) \in SUBSET Records
BY DEF FullSet, RequiredSet

-----------------------------------------------------------------------------
(* Every action preserves the invariant                                     *)

\* Nothing is retained, ready or being removed at first.
LEMMA InitInv == Init => IInv
<1> SUFFICES ASSUME Init PROVE IInv
  OBVIOUS
<1>1. NoCheck \in CheckType
  BY DEF NoCheck, CheckType
<1>2. TypeOK
  BY <1>1 DEF Init, TypeOK, Phases
<1>3. SessionInv /\ CleanerInv /\ CheckedInv
  BY DEF Init, SessionInv, CleanerInv, CheckedInv
<1>4. ReadyPresent /\ ContentPresent
  BY DEF Init, ReadyPresent, ContentPresent, Available
<1> QED
  BY <1>2, <1>3, <1>4 DEF IInv

\* Cleanup holds no guard while a session is open.
LEMMA SessionExcludesCleanup ==
    ASSUME IInv, NEW p \in Publishers, phase[p] # "idle"
    PROVE  p \in shared /\ cleaner = None
BY DEF IInv, SessionInv, CleanerInv

\* Every publisher is idle, with nothing ready, while cleanup holds the guard.
LEMMA CleanupExcludesSessions ==
    ASSUME IInv, shared = {}
    PROVE  \A p \in Publishers : phase[p] = "idle" /\ ready[p] = {}
BY DEF IInv, SessionInv

\* A session opens under the shared guard with nothing ready.
LEMMA OpenSessionInv ==
    ASSUME IInv, NEW p \in Publishers, NEW what, NEW where,
           \/ what \in Units /\ where = "open"
           \/ what \in Operations /\ where = "journaled"
           \/ what \in Selects /\ where = "validated",
           Enter(p, what, where),
           UNCHANGED <<blobs, ledger, removals, ready, check, prepared, cleanup>>
    PROVE  IInv'
<1> USE DEF ledger, removals, cleanup, Enter, Idle
<1>1. TypeOK'
  BY UnitAssumption DEF IInv, TypeOK, Phases
<1>2. SessionInv'
  BY DEF IInv, TypeOK, SessionInv
<1>3. CleanerInv'
  BY DEF CleanerInv
<1>4. CheckedInv'
  BY DEF IInv, TypeOK, CheckedInv
<1>5. ReadyPresent' /\ ContentPresent'
  BY DEF IInv, ReadyPresent, ContentPresent, Available
<1> QED
  BY <1>1, <1>2, <1>3, <1>4, <1>5 DEF IInv

\* Ending a session forgets what it had ready and drops its guard.
LEMMA EndSessionInv ==
    ASSUME IInv, NEW p \in Publishers, EndSession(p)
    PROVE  IInv'
<1> USE DEF ledger, removals, cleanup, EndSession, Idle
<1>1. cleaner = None
  BY SessionExcludesCleanup
<1>2. NoCheck \in CheckType
  BY DEF NoCheck, CheckType
<1>3. TypeOK'
  BY <1>2 DEF IInv, TypeOK, Phases
<1>4. SessionInv'
  BY DEF IInv, TypeOK, SessionInv
<1>5. CleanerInv'
  BY <1>1 DEF CleanerInv
<1>6. CheckedInv'
  BY DEF IInv, TypeOK, CheckedInv
<1>7. ReadyPresent' /\ ContentPresent'
  BY DEF IInv, TypeOK, ReadyPresent, ContentPresent, Available
<1> QED
  BY <1>3, <1>4, <1>5, <1>6, <1>7 DEF IInv

\* Bytes become ready only once they are in the store.
LEMMA RetainBytesInv ==
    ASSUME IInv, NEW p \in Publishers, NEW b \in Blobs, RetainBytes(p, b)
    PROVE  IInv'
<1> USE DEF ledger, removals, cleanup, RetainBytes
<1>1. cleaner = None
  BY SessionExcludesCleanup
<1>2. TypeOK'
  BY DEF IInv, TypeOK
<1>3. SessionInv'
  BY DEF IInv, TypeOK, SessionInv
<1>4. CleanerInv'
  BY <1>1 DEF CleanerInv
<1>5. CheckedInv'
  BY DEF IInv, TypeOK, CheckedInv
<1>6. ReadyPresent' /\ ContentPresent'
  BY DEF IInv, TypeOK, ReadyPresent, ContentPresent, Available
<1> QED
  BY <1>2, <1>3, <1>4, <1>5, <1>6 DEF IInv

\* A fresh execution has its value in its row.
LEMMA StartOperationInv ==
    ASSUME IInv, NEW p \in Publishers, StartOperation(p)
    PROVE  IInv'
<1> USE DEF removals, cleanup, StartOperation
<1>1. cleaner = None
  BY SessionExcludesCleanup
<1>2. Exec[work[p]] \in Records /\ Content[Exec[work[p]]] = {}
  BY UnitAssumption, ExecutionAssumption
<1>3. TypeOK'
  BY <1>2 DEF IInv, TypeOK, Phases
<1>4. SessionInv'
  BY DEF IInv, TypeOK, SessionInv
<1>5. CleanerInv'
  BY <1>1 DEF CleanerInv
<1>6. CheckedInv'
  BY DEF IInv, TypeOK, CheckedInv
<1>7. ReadyPresent'
  BY DEF IInv, ReadyPresent
<1>8. ContentPresent'
  BY <1>2 DEF IInv, TypeOK, ContentPresent, Available
<1> QED
  BY <1>3, <1>4, <1>5, <1>6, <1>7, <1>8 DEF IInv

\* A finished producer leaves store and ledger alone.
LEMMA FinishProducerInv ==
    ASSUME IInv, NEW p \in Publishers, FinishProducer(p)
    PROVE  IInv'
<1> USE DEF ledger, removals, cleanup, FinishProducer
<1>1. cleaner = None
  BY SessionExcludesCleanup
<1>2. TypeOK'
  BY DEF IInv, TypeOK, SessionInv, Phases
<1>3. SessionInv'
  BY DEF IInv, TypeOK, SessionInv
<1>4. CleanerInv'
  BY <1>1 DEF CleanerInv
<1>5. CheckedInv'
  BY DEF IInv, TypeOK, CheckedInv
<1>6. ReadyPresent' /\ ContentPresent'
  BY DEF IInv, ReadyPresent, ContentPresent, Available
<1> QED
  BY <1>2, <1>3, <1>4, <1>5, <1>6 DEF IInv

\* The journal's bytes are in the store before the session counts on them.
LEMMA RetainJournalInv ==
    ASSUME IInv, NEW p \in Publishers, RetainJournal(p)
    PROVE  IInv'
<1> USE DEF ledger, removals, cleanup, RetainJournal
<1>1. cleaner = None
  BY SessionExcludesCleanup
<1>2. work[p] \in Operations /\ JBlob[work[p]] \in Blobs
  BY UnitAssumption DEF IInv, SessionInv, TypeOK
<1>3. TypeOK'
  BY <1>2 DEF IInv, TypeOK, Phases
<1>4. SessionInv'
  BY <1>2 DEF IInv, TypeOK, SessionInv
<1>5. CleanerInv'
  BY <1>1 DEF CleanerInv
<1>6. CheckedInv'
  BY DEF IInv, TypeOK, CheckedInv
<1>7. ReadyPresent' /\ ContentPresent'
  BY DEF IInv, TypeOK, ReadyPresent, ContentPresent, Available
<1> QED
  BY <1>3, <1>4, <1>5, <1>6, <1>7 DEF IInv

\* The progress entry names a journal that the session retained.
LEMMA RecordJournalInv ==
    ASSUME IInv, NEW p \in Publishers, RecordJournal(p)
    PROVE  IInv'
<1> USE DEF removals, cleanup, RecordJournal
<1>1. cleaner = None
  BY SessionExcludesCleanup
<1>2. TypeOK'
  BY DEF IInv, TypeOK, SessionInv, Phases
<1>3. SessionInv'
  BY DEF IInv, TypeOK, SessionInv
<1>4. CleanerInv'
  BY <1>1 DEF CleanerInv
<1>5. CheckedInv'
  BY DEF IInv, TypeOK, CheckedInv
<1>6. ReadyPresent' /\ ContentPresent'
  BY DEF IInv, ReadyPresent, ContentPresent, Available
<1> QED
  BY <1>2, <1>3, <1>4, <1>5, <1>6 DEF IInv

\* The check makes the content of the whole closure of a new unit ready.
LEMMA CheckPublicationInv ==
    ASSUME IInv, NEW p \in Publishers, CheckPublication(p)
    PROVE  IInv'
<1> DEFINE u == work[p]
<1>1. /\ phase[p] \in {"open", "journaled"}
      /\ phase' = [phase EXCEPT ![p] = "checked"]
      /\ UNCHANGED <<blobs, ledger, removals, shared, work, prepared, cleanup>>
  BY DEF CheckPublication
<1>2. cleaner = None
  BY <1>1, SessionExcludesCleanup
<1>3. u \in Units
  BY <1>1, UnitAssumption DEF IInv, SessionInv
<1>4. PICK choice \in Checked(In[u], Roots[u]) :
        LET full == FullSet(choice, Roots[u])
            required == RequiredSet(full)
        IN /\ receipt[u] = None =>
                \A r \in full : Content[r] \subseteq ready[p] \cup blobs
           /\ ready' = [ready EXCEPT ![p] = @ \cup
                IF receipt[u] = None THEN UNION {Content[r] : r \in full} ELSE {}]
           /\ check' = [check EXCEPT ![p] =
                [full |-> full, required |-> required, seen |-> version,
                 choice |-> choice]]
  BY DEF CheckPublication
<1> DEFINE full == FullSet(choice, Roots[u])
           required == RequiredSet(full)
           new == IF receipt[u] = None THEN UNION {Content[r] : r \in full} ELSE {}
<1>5. /\ full \in SUBSET Records
      /\ required \in SUBSET Records
      /\ choice \in [States -> Reps \cup {None}]
  BY ClosureType DEF Checked, Choosings
<1>6. /\ ready' = [ready EXCEPT ![p] = @ \cup new]
      /\ check' = [check EXCEPT ![p] = [full |-> full, required |-> required,
                                        seen |-> version, choice |-> choice]]
  BY <1>4
<1>7. new \in SUBSET Blobs /\ new \subseteq ready[p] \cup blobs
  BY <1>4, <1>5, GraphAssumption DEF IInv, TypeOK
<1>8. receipt[u] = None => \A r \in required : Content[r] \subseteq new
  <2> SUFFICES ASSUME receipt[u] = None, NEW r \in required
               PROVE  Content[r] \subseteq new
    OBVIOUS
  <2>1. CASE r \in full
    BY <2>1
  <2>2. CASE r \notin full
    BY <1>5, <2>2, DescribedHasNoContent
  <2> QED
    BY <2>1, <2>2
<1> HIDE DEF full, required, new
<1>9. TypeOK'
  <2>1. [full |-> full, required |-> required, seen |-> version, choice |-> choice] \in CheckType
    BY <1>5 DEF IInv, TypeOK, CheckType
  <2> QED
    BY <1>1, <1>6, <1>7, <2>1 DEF IInv, TypeOK, Phases, ledger, removals, cleanup
<1>10. SessionInv'
  BY <1>1, <1>3, <1>6 DEF IInv, TypeOK, SessionInv
<1>11. CleanerInv'
  BY <1>1, <1>2 DEF CleanerInv, cleanup
<1>12. CheckedInv'
  <2> SUFFICES ASSUME NEW q \in Publishers, phase'[q] = "checked", receipt[work[q]] = None,
                      NEW r \in check'[q].required
               PROVE  Content[r] \subseteq ready'[q]
    BY <1>1 DEF CheckedInv, ledger
  <2>1. CASE q = p
    <3>1. check'[p].required = required /\ ready'[p] = ready[p] \cup new
      BY <1>6 DEF IInv, TypeOK
    <3> QED
      BY <1>8, <2>1, <3>1
  <2>2. CASE q # p
    BY <1>1, <1>6, <2>2 DEF IInv, TypeOK, CheckedInv
  <2> QED
    BY <2>1, <2>2
<1>13. ReadyPresent'
  BY <1>1, <1>6, <1>7 DEF IInv, TypeOK, ReadyPresent
<1>14. ContentPresent'
  BY <1>1 DEF IInv, ContentPresent, Available, ledger
<1> QED
  BY <1>9, <1>10, <1>11, <1>12, <1>13, <1>14 DEF IInv

\* What a commit records is a receipt, so the unit is then committed.
LEMMA ReceiptTyped ==
    ASSUME NEW c \in CheckType PROVE Receipt(c) \in Receipts
BY DEF Receipt, Receipts, CheckType, NewLinks, Choosings

\* A commit makes available only records whose content its session holds.
LEMMA CommitInv ==
    ASSUME IInv, NEW p \in Publishers, Commit(p)
    PROVE  IInv'
<1> DEFINE u == work[p]
           c == check[p]
<1>1. /\ phase[p] = "checked"
      /\ receipt[u] = None
      /\ Retain(c.required)
      /\ Prefer(c.choice)
      /\ links' = links \cup NewLinks(c.full)
      /\ receipt' = [receipt EXCEPT ![u] = Receipt(c)]
      /\ phase' = [phase EXCEPT ![p] = "done"]
      /\ UNCHANGED <<blobs, journal, heads, selected, removals, shared, work, ready,
                     check, prepared, cleanup>>
  BY DEF Commit
<1>2. cleaner = None
  BY <1>1, SessionExcludesCleanup
<1>3. c \in CheckType /\ u \in Units
  BY <1>1 DEF IInv, TypeOK, SessionInv
<1>4. TypeOK'
  <2>1. retention' \in [Records -> {"none", "available", "unavailable"}]
    BY <1>1 DEF Retain, IInv, TypeOK
  <2>2. version' \in [Records -> Nat]
    BY <1>1 DEF Retain, IInv, TypeOK
  <2>3. preferred' \in [States -> Reps \cup {None}]
    BY <1>1, <1>3 DEF Prefer, CheckType, IInv, TypeOK
  <2>4. links' \subseteq Records \X Records
    BY <1>1, <1>3 DEF NewLinks, CheckType, IInv, TypeOK
  <2>5. receipt' \in [Units -> Receipts \cup {None}]
    BY <1>1, <1>3, ReceiptTyped DEF IInv, TypeOK
  <2> QED
    BY <1>1, <2>1, <2>2, <2>3, <2>4, <2>5 DEF IInv, TypeOK, Phases, removals, cleanup
<1>5. SessionInv'
  BY <1>1 DEF IInv, TypeOK, SessionInv
<1>6. CleanerInv'
  BY <1>1, <1>2 DEF CleanerInv, cleanup
<1>7. CheckedInv'
  <2> SUFFICES ASSUME NEW q \in Publishers, phase'[q] = "checked", receipt'[work[q]] = None,
                      NEW r \in check[q].required
               PROVE  Content[r] \subseteq ready[q]
    BY <1>1 DEF CheckedInv
  <2>1. q # p /\ phase[q] = "checked"
    BY <1>1 DEF IInv, TypeOK
  <2>2. work[q] \in Units
    BY <2>1 DEF IInv, SessionInv
  <2>3. CASE work[q] = u
    BY <1>1, <2>1, <2>3 DEF IInv, CheckedInv
  <2>4. CASE work[q] # u
    <3>1. receipt[work[q]] = None
      BY <1>1, <2>2, <2>4 DEF IInv, TypeOK
    <3> QED
      BY <2>1, <3>1 DEF IInv, CheckedInv
  <2> QED
    BY <2>3, <2>4
<1>8. ReadyPresent'
  BY <1>1 DEF IInv, ReadyPresent
<1>9. ContentPresent'
  <2> SUFFICES ASSUME NEW r \in Records, retention'[r] = "available"
               PROVE  Content[r] \subseteq blobs
    BY <1>1 DEF ContentPresent, Available
  <2>1. CASE r \in c.required
    BY <1>1, <2>1 DEF IInv, CheckedInv, ReadyPresent
  <2>2. CASE r \notin c.required
    BY <1>1, <2>2 DEF Retain, IInv, ContentPresent, Available
  <2> QED
    BY <2>1, <2>2
<1> QED
  BY <1>4, <1>5, <1>6, <1>7, <1>8, <1>9 DEF IInv

\* A retry changes neither rows nor content.
LEMMA RetryInv ==
    ASSUME IInv, NEW p \in Publishers, Retry(p)
    PROVE  IInv'
<1> USE DEF ledger, removals, cleanup, Retry
<1>1. cleaner = None
  BY SessionExcludesCleanup
<1>2. TypeOK'
  BY DEF IInv, TypeOK, Phases
<1>3. SessionInv'
  BY DEF IInv, TypeOK, SessionInv
<1>4. CleanerInv'
  BY <1>1 DEF CleanerInv
<1>5. CheckedInv'
  BY DEF IInv, TypeOK, CheckedInv
<1>6. ReadyPresent' /\ ContentPresent'
  BY DEF IInv, ReadyPresent, ContentPresent, Available
<1> QED
  BY <1>2, <1>3, <1>4, <1>5, <1>6 DEF IInv

\* Moving a head changes neither rows nor content.
LEMMA SelectCurrentInv ==
    ASSUME IInv, NEW p \in Publishers, SelectCurrent(p)
    PROVE  IInv'
<1> USE DEF removals, cleanup, SelectCurrent
<1>1. cleaner = None
  BY SessionExcludesCleanup
<1>2. work[p] \in Selects /\ Args[work[p]].target \in Records
  BY UpdateAssumption DEF IInv, SessionInv
<1>3. TypeOK'
  BY <1>2 DEF IInv, TypeOK, Phases
<1>4. SessionInv'
  BY DEF IInv, TypeOK, SessionInv
<1>5. CleanerInv'
  BY <1>1 DEF CleanerInv
<1>6. CheckedInv'
  BY DEF IInv, TypeOK, CheckedInv
<1>7. ReadyPresent' /\ ContentPresent'
  BY DEF IInv, ReadyPresent, ContentPresent, Available
<1> QED
  BY <1>3, <1>4, <1>5, <1>6, <1>7 DEF IInv

\* A new plan protects every record that its own removal leaves available.
LEMMA BeginRemovalInv ==
    ASSUME IInv, NEW d \in Removals, BeginRemoval(d)
    PROVE  IInv'
<1> DEFINE scope == Scope[d]
<1>1. /\ shared = {}
      /\ cleaner' = d
      /\ index' = Protected(scope)
      /\ removal' = [removal EXCEPT ![d] = "begun"]
      /\ outcome' = [outcome EXCEPT ![d] = [b \in Blobs |->
           IF b \in Candidates(scope, Orphans[d]) THEN "pending" ELSE "none"]]
      /\ retention' = [r \in Records |->
           IF r \in scope \cap Available THEN "unavailable" ELSE retention[r]]
      /\ version' = [r \in Records |->
           IF r \in scope \cap Available THEN version[r] + 1 ELSE version[r]]
      /\ UNCHANGED <<blobs, links, preferred, receipt, journal, heads, selected,
                     sessions, deleted>>
  BY DEF BeginRemoval, GuardFree
<1>2. \A p \in Publishers : phase[p] = "idle"
  BY <1>1, CleanupExcludesSessions
<1>3. Protected(scope) \subseteq Blobs
  BY GraphAssumption, UnitAssumption DEF Protected, Frontier, Available, IInv, TypeOK
<1>4. TypeOK'
  <2>1. retention' \in [Records -> {"none", "available", "unavailable"}]
    BY <1>1 DEF IInv, TypeOK
  <2>2. version' \in [Records -> Nat]
    BY <1>1 DEF IInv, TypeOK
  <2>3. outcome' \in [Removals -> [Blobs -> {"none", "pending", "deleted", "absent",
                                             "retained", "failed"}]]
    BY <1>1 DEF IInv, TypeOK
  <2> QED
    BY <1>1, <1>3, <2>1, <2>2, <2>3 DEF IInv, TypeOK, sessions
<1>5. SessionInv'
  BY <1>1 DEF IInv, SessionInv, sessions
<1>6. CleanerInv'
  <2> SUFFICES ASSUME NEW r \in Records, retention'[r] = "available"
               PROVE  Content[r] \subseteq Protected(scope)
    BY <1>1 DEF CleanerInv, Available, sessions
  <2>1. r \in Available \ scope
    BY <1>1 DEF Available
  <2> QED
    BY <2>1 DEF Protected
<1>7. CheckedInv'
  BY <1>1, <1>2 DEF CheckedInv, sessions
<1>8. ReadyPresent'
  BY <1>1 DEF IInv, ReadyPresent, sessions
<1>9. ContentPresent'
  BY <1>1 DEF IInv, ContentPresent, Available
<1> QED
  BY <1>4, <1>5, <1>6, <1>7, <1>8, <1>9 DEF IInv

\* A resumed plan excludes nothing: records restored since are protected.
LEMMA ResumeRemovalInv ==
    ASSUME IInv, NEW d \in Removals, ResumeRemoval(d)
    PROVE  IInv'
<1>1. /\ shared = {}
      /\ cleaner' = d
      /\ index' = Protected({})
      /\ UNCHANGED <<blobs, ledger, removals, sessions, deleted>>
  BY DEF ResumeRemoval, GuardFree
<1>2. Protected({}) \subseteq Blobs
  BY GraphAssumption, UnitAssumption DEF Protected, Frontier, Available, IInv, TypeOK
<1>3. TypeOK'
  BY <1>1, <1>2 DEF IInv, TypeOK, ledger, removals, sessions
<1>4. SessionInv'
  BY <1>1 DEF IInv, SessionInv, sessions
<1>5. CleanerInv'
  <2> SUFFICES ASSUME NEW r \in Available PROVE Content[r] \subseteq Protected({})
    BY <1>1 DEF CleanerInv, Available, ledger, sessions
  <2> QED
    BY DEF Protected
<1>6. CheckedInv'
  BY <1>1 DEF IInv, CheckedInv, ledger, sessions
<1>7. ReadyPresent' /\ ContentPresent'
  BY <1>1 DEF IInv, ReadyPresent, ContentPresent, Available, ledger, sessions
<1> QED
  BY <1>3, <1>4, <1>5, <1>6, <1>7 DEF IInv

\* The steps of a removal in progress, or its end, without touching the store.
LEMMA OutcomeInv ==
    ASSUME IInv, cleaner # None,
           removal' \in [Removals -> {"none", "begun", "complete"}],
           outcome' \in [Removals -> [Blobs -> {"none", "pending", "deleted", "absent",
                                                "retained", "failed"}]],
           deleted' \in Blobs \cup {None},
           \/ UNCHANGED <<cleaner, index>>
           \/ cleaner' = None /\ index' = {},
           UNCHANGED <<blobs, ledger, sessions>>
    PROVE  IInv'
<1> USE DEF ledger, sessions
<1>1. TypeOK'
  BY DEF IInv, TypeOK
<1>2. SessionInv' /\ CheckedInv'
  BY DEF IInv, SessionInv, CheckedInv
<1>3. CleanerInv'
  BY DEF IInv, CleanerInv, Available
<1>4. ReadyPresent' /\ ContentPresent'
  BY DEF IInv, ReadyPresent, ContentPresent, Available
<1> QED
  BY <1>1, <1>2, <1>3, <1>4 DEF IInv

\* A blob outside the plan is neither an available record's nor a session's.
LEMMA UnlinkInv ==
    ASSUME IInv, cleaner # None, NEW b \in Blobs \ index,
           deleted' = b, blobs' = blobs \ {b},
           UNCHANGED <<ledger, removals, sessions, cleaner, index>>
    PROVE  IInv'
<1> USE DEF ledger, removals, sessions
<1>1. shared = {}
  BY DEF IInv, CleanerInv
<1>2. TypeOK'
  BY DEF IInv, TypeOK
<1>3. SessionInv' /\ CheckedInv'
  BY DEF IInv, SessionInv, CheckedInv
<1>4. CleanerInv'
  BY DEF IInv, CleanerInv, Available
<1>5. ReadyPresent'
  BY <1>1, CleanupExcludesSessions DEF ReadyPresent
<1>6. ContentPresent'
  BY DEF IInv, CleanerInv, ContentPresent, Available
<1> QED
  BY <1>2, <1>3, <1>4, <1>5, <1>6 DEF IInv

\* Every step of a removal preserves the invariant.
LEMMA CleanerStepInv ==
    ASSUME IInv, NEW d \in Removals, CleanerStep(d)
    PROVE  IInv'
<1>1. CASE BeginRemoval(d)
  BY <1>1, BeginRemovalInv
<1>2. CASE ResumeRemoval(d)
  BY <1>2, ResumeRemovalInv
<1>3. ASSUME NEW b \in Blobs, KeepContent(d, b) PROVE IInv'
  BY <1>3, OutcomeInv, UpdateAssumption DEF KeepContent, cleanup, IInv, TypeOK
<1>4. ASSUME NEW b \in Blobs, DeleteContent(d, b) PROVE IInv'
  <2>1. cleaner # None
    BY <1>4, UpdateAssumption DEF DeleteContent
  <2>2. CASE b \in blobs
    BY <1>4, <2>1, <2>2, UnlinkInv DEF DeleteContent, removals
  <2>3. CASE b \notin blobs
    <3>1. /\ UNCHANGED <<blobs, ledger, removal, sessions, cleaner, index, deleted>>
          /\ outcome' = [outcome EXCEPT ![d][b] = "absent"]
      BY <1>4, <2>3 DEF DeleteContent
    <3> QED
      BY <2>1, <3>1, OutcomeInv DEF IInv, TypeOK
  <2> QED
    BY <2>2, <2>3
<1>5. ASSUME NEW b \in Blobs, FailDeletion(d, b) PROVE IInv'
  BY <1>5, OutcomeInv, UpdateAssumption DEF FailDeletion, IInv, TypeOK
<1>6. CASE RecordDeletion(d)
  BY <1>6, OutcomeInv, UpdateAssumption DEF RecordDeletion, IInv, TypeOK
<1>7. CASE FinishRemoval(d)
  BY <1>7, OutcomeInv, UpdateAssumption DEF FinishRemoval, IInv, TypeOK
<1> QED
  BY <1>1, <1>2, <1>3, <1>4, <1>5, <1>6, <1>7 DEF CleanerStep

\* Every step of a session preserves the invariant.
LEMMA PublisherStepInv ==
    ASSUME IInv, NEW p \in Publishers, PublisherStep(p)
    PROVE  IInv'
<1>1. ASSUME NEW u \in Units, OpenSession(p, u) PROVE IInv'
  BY <1>1, OpenSessionInv DEF OpenSession
<1>2. ASSUME NEW u \in Operations, Recover(p, u) PROVE IInv'
  BY <1>2, OpenSessionInv DEF Recover
<1>3. ASSUME NEW q \in Selects, ValidateTarget(p, q) PROVE IInv'
  BY <1>3, OpenSessionInv DEF ValidateTarget
<1>4. ASSUME NEW b \in Blobs, RetainBytes(p, b) PROVE IInv'
  BY <1>4, RetainBytesInv
<1> QED
  BY <1>1, <1>2, <1>3, <1>4, StartOperationInv, FinishProducerInv, RetainJournalInv,
     RecordJournalInv, CheckPublicationInv, CommitInv, RetryInv, SelectCurrentInv,
     EndSessionInv DEF PublisherStep

\* Every step preserves the invariant.
LEMMA NextInv == IInv /\ [Next]_vars => IInv'
<1> SUFFICES ASSUME IInv, [Next]_vars PROVE IInv'
  OBVIOUS
<1>1. CASE \E p \in Publishers : PublisherStep(p)
  BY <1>1, PublisherStepInv
<1>2. CASE \E d \in Removals : CleanerStep(d)
  BY <1>2, CleanerStepInv
<1>3. CASE CrashRemoval
  BY <1>3, OutcomeInv DEF CrashRemoval, removals, IInv, TypeOK
<1>4. CASE UNCHANGED vars
  <2> USE <1>4 DEF vars, ledger, removals, sessions, cleanup
  <2>1. TypeOK'
    BY DEF IInv, TypeOK
  <2>2. SessionInv' /\ CheckedInv' /\ CleanerInv'
    BY DEF IInv, SessionInv, CheckedInv, CleanerInv, Available
  <2>3. ReadyPresent' /\ ContentPresent'
    BY DEF IInv, ReadyPresent, ContentPresent, Available
  <2> QED
    BY <2>1, <2>2, <2>3 DEF IInv
<1> QED
  BY <1>1, <1>2, <1>3, <1>4 DEF Next

\* The invariant holds in every reachable state.
LEMMA Invariance == Spec => []IInv
BY InitInv, NextInv, PTL DEF Spec

-----------------------------------------------------------------------------
(* The theorems                                                             *)

\* Every state of the ledger, the sessions and the cleanup is well formed.
THEOREM TypeCorrect == Spec => []TypeOK
<1>1. IInv => TypeOK
  BY DEF IInv
<1> QED
  BY <1>1, Invariance, PTL

\* Whatever publications, removals, crashes and resumptions interleave, the
\* content of every available record is in the blob store.
THEOREM ContentSafe == Spec => []ContentPresent
<1>1. IInv => ContentPresent
  BY DEF IInv
<1> QED
  BY <1>1, Invariance, PTL

\* Bytes a session has found or put stay in the store until the session ends.
THEOREM ReadySafe == Spec => []ReadyPresent
<1>1. IInv => ReadyPresent
  BY DEF IInv
<1> QED
  BY <1>1, Invariance, PTL

-----------------------------------------------------------------------------
(* What no step does                                                        *)

\* A step that leaves the retention rows alone changes no availability.
LEMMA SameRows ==
    ASSUME IInv, UNCHANGED <<retention, version>>
    PROVE  \A r \in Records : retention[r] # "none" =>
             /\ retention'[r] # "none"
             /\ version'[r] >= version[r]
             /\ retention'[r] # retention[r] => version'[r] > version[r]
BY DEF IInv, TypeOK

\* Retention rows change in three steps only.
LEMMA RowSteps ==
    ASSUME [Next]_vars
    PROVE  \/ UNCHANGED <<retention, version>>
           \/ \E p \in Publishers : StartOperation(p) \/ Commit(p)
           \/ \E d \in Removals : BeginRemoval(d)
<1>1. ASSUME NEW p \in Publishers, PublisherStep(p), ~StartOperation(p), ~Commit(p)
      PROVE  UNCHANGED <<retention, version>>
  BY <1>1 DEF PublisherStep, OpenSession, RetainBytes, FinishProducer, RetainJournal,
     RecordJournal, Recover, CheckPublication, Retry, ValidateTarget, SelectCurrent,
     EndSession, ledger
<1>2. ASSUME NEW d \in Removals, CleanerStep(d), ~BeginRemoval(d)
      PROVE  UNCHANGED <<retention, version>>
  BY <1>2 DEF CleanerStep, ResumeRemoval, KeepContent, DeleteContent, FailDeletion,
     RecordDeletion, FinishRemoval, ledger
<1>3. CASE CrashRemoval \/ UNCHANGED vars
  BY <1>3 DEF CrashRemoval, vars, ledger
<1> QED
  BY <1>1, <1>2, <1>3 DEF Next

\* A change of availability always raises the evidence version, so a check made
\* before it can never commit after it.
THEOREM AvailabilityIsVersioned == Spec => AvailabilityVersioned
<1> DEFINE A == \A r \in Records : retention[r] # "none" =>
                  /\ retention'[r] # "none"
                  /\ version'[r] >= version[r]
                  /\ retention'[r] # retention[r] => version'[r] > version[r]
<1>1. ASSUME IInv, [Next]_vars PROVE A
  <2>1. CASE UNCHANGED <<retention, version>>
    BY <1>1, <2>1, SameRows
  <2>2. ASSUME NEW p \in Publishers, StartOperation(p) PROVE A
    BY <1>1, <2>2 DEF StartOperation, IInv, TypeOK
  <2>3. ASSUME NEW p \in Publishers, Commit(p) PROVE A
    BY <1>1, <2>3 DEF Commit, Retain, IInv, TypeOK
  <2>4. ASSUME NEW d \in Removals, BeginRemoval(d) PROVE A
    <3>1. /\ retention' = [r \in Records |->
               IF r \in Scope[d] \cap Available THEN "unavailable" ELSE retention[r]]
          /\ version' = [r \in Records |->
               IF r \in Scope[d] \cap Available THEN version[r] + 1 ELSE version[r]]
      BY <2>4 DEF BeginRemoval
    <3> QED
      BY <1>1, <3>1 DEF IInv, TypeOK
  <2> QED
    BY <1>1, <2>1, <2>2, <2>3, <2>4, RowSteps
<1> QED
  BY <1>1, Invariance, PTL DEF Spec, AvailabilityVersioned

\* A removed record comes back only with a unit that was never committed before.
THEOREM RetryDoesNotResurrect == Spec => NoResurrection
<1> DEFINE A == (\E r \in Records : retention[r] = "unavailable" /\ retention'[r] = "available")
                  => \E u \in Units : receipt[u] = None /\ receipt'[u] # None
<1>1. ASSUME IInv, [Next]_vars PROVE A
  <2>1. CASE UNCHANGED <<retention, version>>
    BY <2>1
  <2>2. ASSUME NEW p \in Publishers, StartOperation(p) PROVE A
    BY <1>1, <2>2 DEF StartOperation, IInv, TypeOK
  <2>3. ASSUME NEW p \in Publishers, Commit(p) PROVE A
    <3>1. work[p] \in Units /\ check[p] \in CheckType
      BY <1>1, <2>3 DEF Commit, IInv, SessionInv, TypeOK
    <3>2. receipt[work[p]] = None /\ receipt'[work[p]] = Receipt(check[p])
      BY <1>1, <2>3, <3>1 DEF Commit, IInv, TypeOK
    <3> QED
      BY <3>1, <3>2, ReceiptTyped, ReceiptAssumption
  <2>4. ASSUME NEW d \in Removals, BeginRemoval(d) PROVE A
    <3>1. retention' = [r \in Records |->
            IF r \in Scope[d] \cap Available THEN "unavailable" ELSE retention[r]]
      BY <2>4 DEF BeginRemoval
    <3> QED
      BY <1>1, <3>1 DEF IInv, TypeOK
  <2> QED
    BY <1>1, <2>1, <2>2, <2>3, <2>4, RowSteps
<1> QED
  BY <1>1, Invariance, PTL DEF Spec, NoResurrection

-----------------------------------------------------------------------------
(* What removals leave alone: the obligations of dataset heads (HeadIntact) *)
(* and what a recoverable journal needs to be published                    *)
(* (RecoveryProtected).                                                    *)
(*                                                                         *)
(* Neither is inductive.  A removal only looks at links and preferences    *)
(* one step away, so the invariant says that these lead everywhere the     *)
(* retention closure does; and a journal is published against              *)
(* representations that may have moved since its producer ran, so the      *)
(* closure is shown to survive each move.                                  *)

\* A record with all its "requires" links, and for a state a representation.
Linked(r) ==
    /\ \A n \in Needs[r] : <<r, n>> \in links
    /\ r \in States => preferred[r] # None

\* What links and preferences lead to is linked in turn, a retained result is, and an
\* available representation is linked to records that are available.
LinkInv ==
    /\ \A e \in links : Linked(e[2])
    /\ \A s \in States : preferred[s] # None =>
         preferred[s] \in RepsOf[s] /\ Linked(preferred[s])
    /\ \A r \in Results : retention[r] # "none" => Linked(r)
    /\ \A p \in Reps \cap Available : Linked(p) /\ Needs[p] \subseteq Available

\* What a publication check hands to the commit is a closed set of full obligations
\* with a representation for each of its states.
Closed(c) ==
    /\ \A r \in c.full :
         /\ Needs[r] \subseteq c.full
         /\ r \in States => c.choice[r] \in RepsOf[r] \cap c.full
    /\ \A s \in States \ c.full : c.choice[s] = None
    /\ c.required = RequiredSet(c.full)
    /\ \A r \in (c.required \ c.full) \cap Results : retention[r] # "none"

ClosedInv == \A p \in Publishers : phase[p] = "checked" => Closed(check[p])

\* A set of available records that closes under its links and preferences.
Firm(C) ==
    \A r \in C :
        /\ Linked(r)
        /\ Needs[r] \subseteq C
        /\ r \in States => preferred[r] \in C

Held(r) == \E C \in SUBSET Available : r \in C /\ Firm(C)

\* A head is held, and so is the target of a session that validated it.
HeadInv ==
    /\ \A d \in Datasets : heads[d] # None => Held(heads[d])
    /\ \A p \in Publishers :
         phase[p] = "validated" /\ work[p] \notin selected => Held(Args[work[p]].target)

\* An attempt whose producer ran has a retained execution.
StartedInv ==
    /\ \A u \in prepared \cup journal : retention[Exec[u]] # "none"
    /\ \A p \in Publishers :
         /\ phase[p] \in {"started", "prepared", "staged"} => retention[Exec[work[p]]] # "none"
         /\ phase[p] = "staged" => JBlob[work[p]] \in ready[p]

\* A session that publishes what it produced can still do so.
FusedInv ==
    \A p \in Publishers :
        phase[p] \in {"prepared", "staged"} /\ work[p] \in Fused => Publishable(work[p])

\* The plan of a removal protects what recoverable journals need.
IndexInv ==
    cleaner # None =>
        \A u \in Frontier({}) : /\ JBlob[u] \in index
                                /\ \A r \in In[u] : Content[r] \subseteq index

\* The inductive invariant, on top of the one of content safety.
KeepInv ==
    LinkInv /\ ClosedInv /\ HeadInv /\ StartedInv /\ FusedInv /\ RecoveryProtected /\ IndexInv

-----------------------------------------------------------------------------
(* The closure                                                              *)

\* The full obligations of roots are what some root requires transitively.
LEMMA InFull ==
    ASSUME NEW choice \in Choosings, NEW roots \in SUBSET Records, NEW t
    PROVE  t \in FullSet(choice, roots) <=>
             t \in Records /\ \E r \in roots : t \in Closure(FullEdges(choice), r)
<1>1. ASSUME NEW r \in roots, NEW q \in Records
      PROVE  <<choice, r, q>> \in Obliges <=> q \in Closure(FullEdges(choice), r)
  <2>1. PICK e : e = <<choice, r, q>>
    OBVIOUS
  <2>2. e \in Choosings \X Records \X Records /\ e[1] = choice /\ e[2] = r /\ e[3] = q
    BY <2>1
  <2>3. e \in Obliges <=> e[3] \in Closure(FullEdges(e[1]), e[2])
    BY <2>2 DEF Obliges, Listed
  <2> QED
    BY <2>1, <2>2, <2>3
<1> QED
  BY <1>1 DEF FullSet

\* Any closed set that holds the roots holds their full obligations.
LEMMA FullWithin ==
    ASSUME NEW choice \in Choosings, NEW roots \in SUBSET Records,
           NEW C \in SUBSET Records, roots \subseteq C,
           \A r \in C : Needs[r] \subseteq C,
           \A s \in States \cap C : choice[s] \in C
    PROVE  FullSet(choice, roots) \subseteq C
<1>1. \A r \in C : FullEdges(choice)[r] \subseteq C
  BY DEF FullEdges
<1>2. ASSUME NEW t \in FullSet(choice, roots) PROVE t \in C
  <2>1. PICK r \in roots : t \in Closure(FullEdges(choice), r)
    BY <1>2, InFull
  <2> QED
    BY <1>1, <2>1 DEF Closure
<1> QED
  BY <1>2

\* The full obligations hold the roots and are closed, if every state among them has a
\* representation.
LEMMA FullClosed ==
    ASSUME NEW choice \in Choosings, NEW roots \in SUBSET Records,
           \A s \in States \cap FullSet(choice, roots) : choice[s] \in RepsOf[s]
    PROVE  /\ roots \subseteq FullSet(choice, roots)
           /\ \A r \in FullSet(choice, roots) : Needs[r] \subseteq FullSet(choice, roots)
           /\ \A s \in States \cap FullSet(choice, roots) :
                choice[s] \in FullSet(choice, roots)
<1>1. roots \subseteq FullSet(choice, roots)
  BY InFull DEF Closure
<1>2. ASSUME NEW r \in FullSet(choice, roots), NEW q \in FullEdges(choice)[r], q \in Records
      PROVE  q \in FullSet(choice, roots)
  <2>1. PICK e \in roots : r \in Closure(FullEdges(choice), e)
    BY InFull
  <2>2. q \in Closure(FullEdges(choice), e)
    BY <1>2, <2>1 DEF Closure
  <2> QED
    BY <1>2, <2>2, InFull
<1>3. ASSUME NEW r \in FullSet(choice, roots), NEW q \in Needs[r]
      PROVE  q \in FullSet(choice, roots)
  <2>1. r \in Records /\ q \in Records
    BY InFull, GraphAssumption
  <2> QED
    BY <1>2, <2>1 DEF FullEdges
<1>4. ASSUME NEW s \in States \cap FullSet(choice, roots)
      PROVE  choice[s] \in FullSet(choice, roots)
  <2>1. s \in Records /\ choice[s] \in Records
    BY GraphAssumption DEF States
  <2>2. choice[s] \in FullEdges(choice)[s]
    BY <2>1 DEF FullEdges
  <2> QED
    BY <1>2, <2>1, <2>2
<1> QED
  BY <1>1, <1>3, <1>4

\* A choice a check makes: a representation of every state among the obligations, none
\* for the others.
LEMMA CheckedChoice ==
    ASSUME NEW incoming \in SUBSET Records, NEW roots \in SUBSET Records,
           NEW choice \in Checked(incoming, roots)
    PROVE  /\ choice \in Choosings
           /\ roots \subseteq FullSet(choice, roots)
           /\ \A r \in FullSet(choice, roots) : Needs[r] \subseteq FullSet(choice, roots)
           /\ \A s \in States \cap FullSet(choice, roots) :
                /\ choice[s] \in Eligible(incoming, roots, s)
                /\ choice[s] \in RepsOf[s] \cap FullSet(choice, roots)
           /\ \A s \in States \ FullSet(choice, roots) : choice[s] = None
           /\ \A r \in (RequiredSet(FullSet(choice, roots)) \ FullSet(choice, roots))
                       \cap Results : retention[r] # "none"
<1> DEFINE full == FullSet(choice, roots)
<1>1. /\ choice \in Choosings
      /\ \A s \in States : IF s \in full THEN choice[s] \in Eligible(incoming, roots, s)
                           ELSE choice[s] = None
      /\ \A r \in (RequiredSet(full) \ full) \cap Results : retention[r] # "none"
  BY DEF Checked
<1>2. \A s \in States : Eligible(incoming, roots, s) \subseteq RepsOf[s]
  BY DEF Eligible, Choices
<1>3. \A s \in States \cap full : choice[s] \in RepsOf[s]
  BY <1>1, <1>2
<1> QED
  BY <1>1, <1>3, FullClosed

\* A representation is never merely described.
LEMMA RepresentationsAreFull ==
    ASSUME NEW full \in SUBSET Records
    PROVE  RequiredSet(full) \cap Reps \subseteq full
<1> DEFINE Others == Records \ Reps
<1> SUFFICES ASSUME NEW t \in RequiredSet(full), t \notin full PROVE t \notin Reps
  OBVIOUS
<1>1. PICK o \in full : \E r \in Names[o] : <<r, t>> \in Describes
  BY DEF RequiredSet
<1>2. PICK r \in Names[o] : <<r, t>> \in Describes
  BY <1>1
<1>3. t \in Closure(Names, r)
  BY <1>2 DEF Describes, Listed
<1>4. r \in Others
  BY <1>2, GraphAssumption, KindAssumption
<1>5. \A q \in Others : Names[q] \subseteq Others
  BY GraphAssumption, KindAssumption
<1>6. t \in Others
  BY <1>3, <1>4, <1>5 DEF Closure
<1> QED
  BY <1>6

\* Choosing other representations changes no state among the obligations, and adds only
\* the chosen ones with what they require.
LEMMA OtherChoice ==
    ASSUME NEW roots \in SUBSET Records, NEW a \in Choosings, NEW b \in Choosings,
           \A s \in States \cap FullSet(a, roots) : a[s] \in RepsOf[s] /\ b[s] \in RepsOf[s]
    PROVE  /\ FullSet(b, roots) \cap States = FullSet(a, roots) \cap States
           /\ \A r \in FullSet(b, roots) \ FullSet(a, roots) :
                \E s \in States \cap FullSet(a, roots) :
                    r = b[s] \/ r \in Needs[b[s]] \ {s}
<1> DEFINE A == FullSet(a, roots)
           B == FullSet(b, roots)
           Added == {r \in Records : \E s \in States \cap A : r = b[s] \/ r \in Needs[b[s]] \ {s}}
<1>1. /\ A \in SUBSET Records /\ roots \subseteq A
      /\ \A r \in A : Needs[r] \subseteq A
      /\ \A s \in States \cap A : a[s] \in A
  BY FullClosed, ClosureType
<1>2. ASSUME NEW r \in Added PROVE r \notin States /\ Needs[r] \subseteq A \cup Added
  <2>1. PICK s \in States \cap A : r = b[s] \/ r \in Needs[b[s]] \ {s}
    OBVIOUS
  <2>2. b[s] \in RepsOf[s] /\ b[s] \in Records /\ b[s] \in Reps
    BY GraphAssumption DEF States, Reps
  <2>3. CASE r = b[s]
    BY <2>2, <2>3, KindAssumption, GraphAssumption
  <2>4. CASE r \in Needs[b[s]] \ {s}
    BY <2>2, <2>4, KindAssumption
  <2> QED
    BY <2>1, <2>3, <2>4
<1>3. \A s \in States \cap (A \cup Added) : b[s] \in A \cup Added
  <2> SUFFICES ASSUME NEW s \in States \cap A PROVE b[s] \in Added
    BY <1>2
  <2> QED
    BY GraphAssumption DEF States
<1>4. B \subseteq A \cup Added
  <2> HIDE DEF Added
  <2> QED
    <3>1. Added \in SUBSET Records
      BY DEF Added
    <3>2. \A r \in A \cup Added : Needs[r] \subseteq A \cup Added
      BY <1>1, <1>2
    <3> HIDE DEF A, B
    <3>3. /\ A \cup Added \in SUBSET Records /\ roots \subseteq A \cup Added
      BY <1>1, <3>1
    <3> QED
      BY <1>3, <3>2, <3>3, FullWithin DEF B
<1>5. B \cap States \subseteq A
  BY <1>2, <1>4
<1>6. /\ B \in SUBSET Records /\ roots \subseteq B
      /\ \A r \in B : Needs[r] \subseteq B
      /\ \A s \in States \cap B : b[s] \in B
  BY <1>5, FullClosed, ClosureType
<1> DEFINE Left == {r \in Records : \E s \in States \cap B : r = a[s] \/ r \in Needs[a[s]] \ {s}}
<1>7. ASSUME NEW r \in Left PROVE r \notin States /\ Needs[r] \subseteq B \cup Left
  <2>1. PICK s \in States \cap B : r = a[s] \/ r \in Needs[a[s]] \ {s}
    OBVIOUS
  <2>2. a[s] \in RepsOf[s] /\ a[s] \in Records /\ a[s] \in Reps
    BY <1>5, GraphAssumption DEF States, Reps
  <2>3. CASE r = a[s]
    BY <2>2, <2>3, KindAssumption, GraphAssumption
  <2>4. CASE r \in Needs[a[s]] \ {s}
    BY <2>2, <2>4, KindAssumption
  <2> QED
    BY <2>1, <2>3, <2>4
<1>8. \A s \in States \cap (B \cup Left) : a[s] \in B \cup Left
  <2> SUFFICES ASSUME NEW s \in States \cap B PROVE a[s] \in Left
    BY <1>7
  <2> QED
    BY <1>5, GraphAssumption DEF States
<1>9. A \subseteq B \cup Left
  <2>1. Left \in SUBSET Records
    OBVIOUS
  <2>2. \A r \in B \cup Left : Needs[r] \subseteq B \cup Left
    BY <1>6, <1>7
  <2> HIDE DEF A, B, Left
  <2>3. /\ B \cup Left \in SUBSET Records /\ roots \subseteq B \cup Left
    BY <1>6, <2>1
  <2> QED
    BY <1>8, <2>2, <2>3, FullWithin DEF A
<1>10. A \cap States \subseteq B
  BY <1>7, <1>9
<1> QED
  BY <1>4, <1>5, <1>10

-----------------------------------------------------------------------------
(* What a check accepts, now and after a step                               *)

\* A representation of s a batch may prefer, read in one state.
May(incoming, roots, s, r) ==
    /\ r \in Choices(incoming, roots, s)
    /\ IF Choices(incoming, roots, s) \cap incoming # {} THEN r \in incoming ELSE r \in Available
    /\ \A q \in Choices(incoming, roots, s) : retention[q] # "none" =>
         \E k \in Choices(incoming, roots, s) :
             retention[k] # "none" /\ k \in incoming \cup Available \cup Inline

\* May says what Eligible computes, before and after a step.
LEMMA EligibleIff ==
    ASSUME NEW incoming, NEW roots, NEW s, NEW r
    PROVE  /\ r \in Eligible(incoming, roots, s) <=> May(incoming, roots, s, r)
           /\ (r \in Eligible(incoming, roots, s) <=> May(incoming, roots, s, r))'
<1>1. r \in Eligible(incoming, roots, s) <=> May(incoming, roots, s, r)
  BY DEF Eligible, May
<1>2. r \in Eligible(incoming, roots, s)' <=> May(incoming, roots, s, r)'
  BY DEF Eligible, May
<1> QED
  BY <1>1, <1>2

\* What makes a unit publishable after a step.
LEMMA PublishableLater ==
    ASSUME NEW u \in Units, NEW choice \in Choosings, NEW full,
           full = FullSet(choice, Roots[u]),
           \A s \in States : IF s \in full THEN May(In[u], Roots[u], s, choice[s])'
                             ELSE choice[s] = None,
           \A r \in (RequiredSet(full) \ full) \cap Results : retention'[r] # "none",
           RequiredSet(full) \ In[u] \subseteq Available',
           \A r \in full : Content[r] \subseteq blobs'
    PROVE  Publishable(u)'
<1>1. \A s \in States : IF s \in full THEN choice[s] \in Eligible(In[u], Roots[u], s)'
                        ELSE choice[s] = None
  BY EligibleIff
<1>2. choice \in Checked(In[u], Roots[u])'
  BY <1>1 DEF Checked
<1> QED
  BY <1>2 DEF Publishable, Valid

\* What a publishable unit has before it.
LEMMA PublishableNow ==
    ASSUME NEW u \in Units, Publishable(u)
    PROVE  \E choice \in Choosings :
             LET full == FullSet(choice, Roots[u]) IN
             /\ Roots[u] \subseteq full /\ full \in SUBSET Records
             /\ \A r \in full : Needs[r] \subseteq full
             /\ \A s \in States \cap full : choice[s] \in RepsOf[s] \cap full
             /\ \A s \in States : IF s \in full THEN May(In[u], Roots[u], s, choice[s])
                                  ELSE choice[s] = None
             /\ \A r \in (RequiredSet(full) \ full) \cap Results : retention[r] # "none"
             /\ RequiredSet(full) \ In[u] \subseteq Available
             /\ \A r \in full : Content[r] \subseteq blobs
<1>1. In[u] \in SUBSET Records /\ Roots[u] \in SUBSET Records
  BY UnitAssumption
<1>2. PICK choice \in Checked(In[u], Roots[u]) :
        /\ RequiredSet(FullSet(choice, Roots[u])) \ In[u] \subseteq Available
        /\ \A r \in FullSet(choice, Roots[u]) : Content[r] \subseteq blobs
  BY DEF Publishable, Valid
<1>3. /\ choice \in Choosings
      /\ Roots[u] \subseteq FullSet(choice, Roots[u])
      /\ \A r \in FullSet(choice, Roots[u]) : Needs[r] \subseteq FullSet(choice, Roots[u])
      /\ \A s \in States \cap FullSet(choice, Roots[u]) :
           /\ choice[s] \in Eligible(In[u], Roots[u], s)
           /\ choice[s] \in RepsOf[s] \cap FullSet(choice, Roots[u])
      /\ \A s \in States \ FullSet(choice, Roots[u]) : choice[s] = None
      /\ \A r \in (RequiredSet(FullSet(choice, Roots[u])) \ FullSet(choice, Roots[u]))
                  \cap Results : retention[r] # "none"
  BY <1>1, CheckedChoice
<1>4. \A s \in States : IF s \in FullSet(choice, Roots[u])
                        THEN May(In[u], Roots[u], s, choice[s]) ELSE choice[s] = None
  BY <1>3, EligibleIff
<1> QED
  BY <1>2, <1>3, <1>4, ClosureType

\* A step that leaves rows, links and bytes in place keeps what rests on them.
LEMMA SameLedger ==
    ASSUME UNCHANGED <<retention, links, preferred>>, blobs \subseteq blobs'
    PROVE  /\ LinkInv => LinkInv'
           /\ \A r : Held(r) => Held(r)'
           /\ \A u \in Units : Publishable(u) => Publishable(u)'
<1>1. LinkInv => LinkInv'
  BY DEF LinkInv, Linked, Available
<1>2. ASSUME NEW r, Held(r) PROVE Held(r)'
  BY <1>2 DEF Held, Firm, Linked, Available
<1>3. ASSUME NEW u \in Units, Publishable(u) PROVE Publishable(u)'
  <2>1. PICK choice \in Choosings :
          LET full == FullSet(choice, Roots[u]) IN
          /\ \A s \in States : IF s \in full THEN May(In[u], Roots[u], s, choice[s])
                               ELSE choice[s] = None
          /\ \A r \in (RequiredSet(full) \ full) \cap Results : retention[r] # "none"
          /\ RequiredSet(full) \ In[u] \subseteq Available
          /\ \A r \in full : Content[r] \subseteq blobs
    BY <1>3, PublishableNow
  <2>2. PICK full : full = FullSet(choice, Roots[u])
    OBVIOUS
  <2>3. \A s \in States : IF s \in full THEN May(In[u], Roots[u], s, choice[s])'
                          ELSE choice[s] = None
    BY <2>1, <2>2 DEF May, Choices, Available
  <2>4. /\ \A r \in (RequiredSet(full) \ full) \cap Results : retention'[r] # "none"
        /\ RequiredSet(full) \ In[u] \subseteq Available'
        /\ \A r \in full : Content[r] \subseteq blobs'
    BY <2>1, <2>2 DEF Available
  <2> QED
    BY <2>2, <2>3, <2>4, PublishableLater
<1> QED
  BY <1>1, <1>2, <1>3

-----------------------------------------------------------------------------
(* The three steps that change the rows                                     *)

\* An execution that starts is no part of any state and no target.
LEMMA StartLedger ==
    ASSUME IInv, LinkInv, NEW p \in Publishers, StartOperation(p)
    PROVE  /\ LinkInv'
           /\ \A r : Held(r) => Held(r)'
           /\ \A u \in Units : Publishable(u) => Publishable(u)'
<1> DEFINE x == Exec[work[p]]
<1>1. /\ work[p] \in Operations /\ retention[x] = "none"
      /\ retention' = [retention EXCEPT ![x] = "available"]
      /\ UNCHANGED <<blobs, links, preferred>>
  BY DEF StartOperation
<1>2. x \in Records /\ x \notin States \cup Reps \cup Results
  BY <1>1, UnitAssumption, KindAssumption
<1> HIDE DEF x
<1>3. /\ retention'[x] = "available"
      /\ \A r \in Records : r # x => retention'[r] = retention[r]
  BY <1>1, <1>2 DEF IInv, TypeOK
<1>4. /\ Available \subseteq Available'
      /\ \A r \in Records : retention[r] # "none" => retention'[r] = retention[r]
      /\ Available' \subseteq Available \cup {x}
  BY <1>1, <1>3 DEF Available
<1>5. LinkInv'
  <2>1. \A r : Linked(r) => Linked(r)'
    BY <1>1 DEF Linked
  <2>2. \A r \in Results : retention'[r] # "none" => retention[r] # "none"
    BY <1>2, <1>3, UnitAssumption DEF Results
  <2> QED
    BY <1>1, <1>2, <1>4, <2>1, <2>2 DEF LinkInv
<1>6. ASSUME NEW r, Held(r) PROVE Held(r)'
  BY <1>1, <1>4, <1>6 DEF Held, Firm, Linked
<1>7. ASSUME NEW u \in Units, Publishable(u) PROVE Publishable(u)'
  <2>1. PICK choice \in Choosings :
          LET full == FullSet(choice, Roots[u]) IN
          /\ \A s \in States \cap full : choice[s] \in RepsOf[s] \cap full
          /\ \A s \in States : IF s \in full THEN May(In[u], Roots[u], s, choice[s])
                               ELSE choice[s] = None
          /\ \A r \in (RequiredSet(full) \ full) \cap Results : retention[r] # "none"
          /\ RequiredSet(full) \ In[u] \subseteq Available
          /\ \A r \in full : Content[r] \subseteq blobs
    BY <1>7, PublishableNow
  <2>2. PICK full : full = FullSet(choice, Roots[u])
    OBVIOUS
  <2>3. \A s \in States : May(In[u], Roots[u], s, choice[s]) => May(In[u], Roots[u], s, choice[s])'
    <3>1. \A s \in States : \A q \in Choices(In[u], Roots[u], s) :
            q \in Records /\ retention'[q] = retention[q]
      BY <1>2, <1>3, GraphAssumption DEF Choices, States, Reps
    <3>2. \A s : Choices(In[u], Roots[u], s)' = Choices(In[u], Roots[u], s)
      BY <1>1 DEF Choices
    <3> QED
      BY <1>4, <3>1, <3>2 DEF May
  <2>4. /\ \A r \in (RequiredSet(full) \ full) \cap Results : retention'[r] # "none"
        /\ RequiredSet(full) \ In[u] \subseteq Available'
        /\ \A r \in full : Content[r] \subseteq blobs'
    BY <1>1, <1>4, <2>1, <2>2, UnitAssumption DEF Results
  <2> QED
    BY <2>1, <2>2, <2>3, <2>4, PublishableLater
<1> QED
  BY <1>5, <1>6, <1>7

\* What a commit does to the rows, read off its check.
LEMMA CommitRows ==
    ASSUME IInv, ClosedInv, NEW p \in Publishers, Commit(p)
    PROVE  LET c == check[p] IN
           /\ Closed(c) /\ c \in CheckType
           /\ c.full \subseteq c.required /\ c.required \subseteq Available'
           /\ \A r \in Records \ c.required : retention'[r] = retention[r]
           /\ Available \subseteq Available'
           /\ links' = links \cup NewLinks(c.full)
           /\ \A s \in States : preferred'[s] = IF s \in c.full THEN c.choice[s] ELSE preferred[s]
           /\ UNCHANGED blobs
           /\ work[p] \in Units
<1> DEFINE c == check[p]
<1>1. /\ phase[p] = "checked" /\ Retain(c.required) /\ Prefer(c.choice)
      /\ links' = links \cup NewLinks(c.full) /\ UNCHANGED blobs
  BY DEF Commit
<1>2. /\ Closed(c) /\ c \in CheckType /\ work[p] \in Units
  BY <1>1 DEF ClosedInv, IInv, TypeOK, SessionInv
<1>3. c.full \in SUBSET Records /\ c.required \in SUBSET Records /\ c.full \subseteq c.required
  BY <1>2 DEF CheckType, Closed, RequiredSet
<1>4. /\ c.required \subseteq Available'
      /\ \A r \in Records \ c.required : retention'[r] = retention[r]
  BY <1>1, <1>3 DEF Retain, Available
<1>5. Available \subseteq Available'
  BY <1>4 DEF Available
<1>6. \A s \in States : preferred'[s] = IF s \in c.full THEN c.choice[s] ELSE preferred[s]
  <2>1. \A s \in States \cap c.full : c.choice[s] # None
    BY <1>2, GraphAssumption, UpdateAssumption DEF Closed, States
  <2>2. \A s \in States \ c.full : c.choice[s] = None
    BY <1>2 DEF Closed
  <2> QED
    BY <1>1, <2>1, <2>2 DEF Prefer
<1> QED
  BY <1>1, <1>2, <1>3, <1>4, <1>5, <1>6

\* A commit links everything it retains in full.
LEMMA CommitLinks ==
    ASSUME IInv, LinkInv, ClosedInv, NEW p \in Publishers, Commit(p)
    PROVE  /\ LinkInv'
           /\ \A r : Linked(r) => Linked(r)'
           /\ \A r \in check[p].full : Linked(r)'
<1> DEFINE c == check[p]
<1>1. /\ Closed(c) /\ c \in CheckType
      /\ c.full \subseteq c.required /\ c.required \subseteq Available'
      /\ \A r \in Records \ c.required : retention'[r] = retention[r]
      /\ Available \subseteq Available'
      /\ links' = links \cup NewLinks(c.full)
      /\ \A s \in States : preferred'[s] = IF s \in c.full THEN c.choice[s] ELSE preferred[s]
  BY CommitRows
<1>2. c.full \in SUBSET Records /\ c.required \in SUBSET Records
  BY <1>1 DEF CheckType
<1>3. /\ \A r \in c.full : Needs[r] \subseteq c.full
      /\ \A s \in States \cap c.full : c.choice[s] \in RepsOf[s] \cap c.full
      /\ c.required = RequiredSet(c.full)
      /\ \A r \in (c.required \ c.full) \cap Results : retention[r] # "none"
  BY <1>1 DEF Closed
<1> HIDE DEF c
<1>4. \A s \in States : None \notin RepsOf[s]
  BY GraphAssumption, UpdateAssumption DEF States
<1>5. \A r : Linked(r) => Linked(r)'
  BY <1>1, <1>3, <1>4 DEF Linked
<1>6. ASSUME NEW r \in c.full PROVE Linked(r)'
  <2>1. ASSUME NEW n \in Needs[r] PROVE <<r, n>> \in links'
    <3>1. PICK e : e = <<r, n>>
      OBVIOUS
    <3>2. n \in c.full /\ e \in c.full \X c.full /\ e[1] = r /\ e[2] = n
      BY <1>3, <3>1
    <3>3. e \in NewLinks(c.full)
      BY <3>2 DEF NewLinks
    <3> QED
      BY <1>1, <3>1, <3>3
  <2>2. r \in States => preferred'[r] # None
    BY <1>1, <1>3, <1>4
  <2> QED
    BY <2>1, <2>2 DEF Linked
<1>7. (\A e \in links : Linked(e[2]))'
  <2>1. \A e \in NewLinks(c.full) : e[2] \in c.full
    BY DEF NewLinks
  <2> QED
    BY <1>1, <1>5, <1>6, <2>1 DEF LinkInv
<1>8. ASSUME NEW s \in States, preferred'[s] # None
      PROVE  (preferred[s] \in RepsOf[s] /\ Linked(preferred[s]))'
  <2>1. CASE s \in c.full
    <3>1. preferred'[s] = c.choice[s] /\ c.choice[s] \in RepsOf[s] \cap c.full
      BY <1>1, <1>3, <2>1
    <3>2. PICK r : r = c.choice[s]
      OBVIOUS
    <3>3. Linked(r)'
      BY <1>6, <3>1, <3>2
    <3> QED
      BY <3>1, <3>2, <3>3 DEF Linked
  <2>2. CASE s \notin c.full
    <3>1. PICK r : r = preferred[s]
      OBVIOUS
    <3>2. preferred'[s] = r /\ r \in RepsOf[s] /\ Linked(r)
      BY <1>1, <1>8, <2>2, <3>1 DEF LinkInv
    <3>3. Linked(r)'
      BY <1>5, <3>2
    <3> QED
      BY <3>2, <3>3 DEF Linked
  <2> QED
    BY <2>1, <2>2
<1>9. ASSUME NEW r \in Results, retention'[r] # "none" PROVE Linked(r)'
  <2>1. r \in Records
    BY UnitAssumption DEF Results
  <2>2. CASE r \in c.full
    BY <1>6, <2>2
  <2>3. CASE r \notin c.full
    BY <1>1, <1>3, <1>5, <1>9, <2>1, <2>3 DEF LinkInv
  <2> QED
    BY <2>2, <2>3
<1>10. ASSUME NEW r \in Reps \cap Available'
       PROVE  Linked(r)' /\ Needs[r] \subseteq Available'
  <2>1. CASE r \in c.required
    <3>1. r \in c.full
      BY <1>2, <1>3, <2>1, RepresentationsAreFull
    <3> QED
      BY <1>1, <1>3, <1>6, <3>1
  <2>2. CASE r \notin c.required
    <3>1. r \in Available
      BY <1>1, <2>2 DEF Available
    <3> QED
      BY <1>1, <1>5, <3>1 DEF LinkInv
  <2> QED
    BY <2>1, <2>2
<1>11. LinkInv'
  BY <1>7, <1>8, <1>9, <1>10 DEF LinkInv
<1> QED
  BY <1>5, <1>6, <1>11 DEF c

\* What was held stays held by what it rested on and what the commit retains.
LEMMA CommitHeld ==
    ASSUME IInv, LinkInv, ClosedInv, NEW p \in Publishers, Commit(p), NEW r, Held(r)
    PROVE  Held(r)'
<1> DEFINE c == check[p]
<1>1. /\ Closed(c) /\ c \in CheckType
      /\ c.full \subseteq c.required /\ c.required \subseteq Available'
      /\ Available \subseteq Available'
      /\ \A s \in States : preferred'[s] = IF s \in c.full THEN c.choice[s] ELSE preferred[s]
  BY CommitRows
<1>2. /\ \A q : Linked(q) => Linked(q)'
      /\ \A q \in c.full : Linked(q)'
  BY CommitLinks
<1> HIDE DEF c
<1>3. PICK C \in SUBSET Available : r \in C /\ Firm(C)
  BY DEF Held
<1>4. PICK D : D = C \cup c.full
  OBVIOUS
<1>5. ASSUME NEW q \in D
      PROVE  /\ Linked(q)'
             /\ Needs[q] \subseteq D
             /\ q \in States => preferred'[q] \in D
  <2>1. CASE q \in c.full
    BY <1>1, <1>2, <1>4, <2>1 DEF Closed
  <2>2. CASE q \notin c.full
    BY <1>1, <1>2, <1>3, <1>4, <1>5, <2>2 DEF Firm
  <2> QED
    BY <2>1, <2>2
<1>6. Firm(D)'
  BY <1>5 DEF Firm
<1>7. D \in SUBSET Available' /\ r \in D
  BY <1>1, <1>3, <1>4
<1> QED
  BY <1>6, <1>7 DEF Held

\* A unit stays publishable when another commit moves representations it relies on: it
\* then relies on the new ones.
LEMMA CommitPublishable ==
    ASSUME IInv, LinkInv, ClosedInv, NEW p \in Publishers, Commit(p),
           NEW u \in Units, Publishable(u)
    PROVE  Publishable(u)'
<1> DEFINE c == check[p]
<1>1. /\ Closed(c) /\ c \in CheckType
      /\ c.full \subseteq c.required /\ c.required \subseteq Available'
      /\ \A r \in Records \ c.required : retention'[r] = retention[r]
      /\ Available \subseteq Available'
      /\ \A s \in States : preferred'[s] = IF s \in c.full THEN c.choice[s] ELSE preferred[s]
      /\ UNCHANGED blobs
  BY CommitRows
<1>2. /\ c.full \in SUBSET Records /\ c.required = RequiredSet(c.full)
      /\ \A r \in c.full : Needs[r] \subseteq c.full
      /\ \A s \in States \cap c.full : c.choice[s] \in RepsOf[s] \cap c.full
  BY <1>1 DEF Closed, CheckType
<1> HIDE DEF c
<1>3. ContentPresent'
  BY CommitInv DEF IInv
<1>4. PICK a \in Choosings :
        LET full == FullSet(a, Roots[u]) IN
        /\ Roots[u] \subseteq full /\ full \in SUBSET Records
        /\ \A r \in full : Needs[r] \subseteq full
        /\ \A s \in States \cap full : a[s] \in RepsOf[s] \cap full
        /\ \A s \in States : IF s \in full THEN May(In[u], Roots[u], s, a[s])
                             ELSE a[s] = None
        /\ \A r \in (RequiredSet(full) \ full) \cap Results : retention[r] # "none"
        /\ RequiredSet(full) \ In[u] \subseteq Available
        /\ \A r \in full : Content[r] \subseteq blobs
  BY PublishableNow
<1>5. PICK A : A = FullSet(a, Roots[u])
  OBVIOUS
<1> DEFINE Moves(s) == s \in c.full /\ a[s] = preferred[s] /\ a[s] \notin In[u] \cup Roots[u]
<1>6. PICK b : b = [s \in States |-> IF s \in A /\ Moves(s) THEN preferred'[s] ELSE a[s]]
  OBVIOUS
<1>7. PICK B : B = FullSet(b, Roots[u])
  OBVIOUS
<1>8. \A s \in States \cap c.full : preferred'[s] \in RepsOf[s] \cap c.full
  BY <1>1, <1>2
<1>9. b \in Choosings
  BY <1>4, <1>6, <1>8 DEF Choosings, Reps
<1>10. \A s \in States \cap A : a[s] \in RepsOf[s] /\ b[s] \in RepsOf[s]
  BY <1>4, <1>5, <1>6, <1>8
<1>11. /\ B \cap States = A \cap States
       /\ \A r \in B \ A : \E s \in States \cap A : r = b[s] \/ r \in Needs[b[s]] \ {s}
  BY <1>4, <1>5, <1>7, <1>9, <1>10, OtherChoice, UnitAssumption
<1>12. ASSUME NEW r \in B \ A
       PROVE  r \in c.full /\ r \notin Results
  <2>1. PICK s \in States \cap A : r = b[s] \/ r \in Needs[b[s]] \ {s}
    BY <1>11
  <2>2. b[s] # a[s]
    BY <1>4, <1>5, <1>12, <2>1
  <2>3. s \in c.full /\ b[s] = preferred'[s] /\ b[s] \in RepsOf[s] \cap c.full
    BY <1>6, <1>8, <2>1, <2>2
  <2>4. b[s] \in Reps /\ b[s] \in c.full
    BY <2>1, <2>3 DEF Reps
  <2> QED
    BY <1>2, <2>1, <2>3, <2>4, KindAssumption
<1>13. \A r \in Records : retention[r] # "none" => retention'[r] # "none"
  BY <1>1 DEF Available
<1>14. ASSUME NEW s \in States, s \in A, May(In[u], Roots[u], s, a[s])
       PROVE  May(In[u], Roots[u], s, b[s])'
  <2> DEFINE Was == Choices(In[u], Roots[u], s)
             Is == Choices(In[u], Roots[u], s)'
  <2>1. /\ Was = RepsOf[s] \cap (In[u] \cup Roots[u] \cup {preferred[s]})
        /\ Is = RepsOf[s] \cap (In[u] \cup Roots[u] \cup {preferred'[s]})
    BY DEF Choices
  <2>2. /\ a[s] \in Was
        /\ IF Was \cap In[u] # {} THEN a[s] \in In[u] ELSE a[s] \in Available
        /\ \A q \in Was : retention[q] # "none" =>
             \E k \in Was : retention[k] # "none" /\ k \in In[u] \cup Available \cup Inline
    BY <1>14 DEF May
  <2> HIDE DEF Was, Is
  <2>3. Was \subseteq Records /\ Is \subseteq Records
    BY <2>1, GraphAssumption DEF States
  <2>4. preferred'[s] # preferred[s] =>
          preferred'[s] \in Is /\ preferred'[s] \in Available' /\ retention'[preferred'[s]] # "none"
    BY <1>1, <1>8, <2>1 DEF Available
  <2>5. b[s] \in Is
    <3>1. CASE Moves(s)
      <4>1. b[s] = preferred'[s] /\ preferred'[s] \in RepsOf[s]
        BY <1>6, <1>8, <1>14, <3>1
      <4> QED
        BY <2>1, <4>1
    <3>2. CASE ~Moves(s)
      <4>1. b[s] = a[s] /\ a[s] \in Was
        BY <1>6, <2>2, <3>2
      <4>2. a[s] # preferred[s] \/ a[s] \in In[u] \cup Roots[u] \/ preferred'[s] = preferred[s]
        BY <1>1, <3>2
      <4> QED
        BY <2>1, <4>1, <4>2
    <3> QED
      BY <3>1, <3>2
  <2>6. IF Is \cap In[u] # {} THEN b[s] \in In[u] ELSE b[s] \in Available'
    <3>1. CASE Moves(s)
      <4>1. b[s] = preferred'[s] /\ b[s] \in Available'
        BY <1>1, <1>6, <1>8, <1>14, <3>1
      <4>2. Was \cap In[u] = {}
        BY <2>2, <3>1
      <4>3. Is \cap In[u] = {} \/ preferred'[s] \in In[u]
        BY <2>1, <4>2
      <4> QED
        BY <4>1, <4>3
    <3>2. CASE ~Moves(s)
      <4>1. b[s] = a[s]
        BY <1>6, <3>2
      <4>2. CASE a[s] \in In[u]
        BY <2>1, <2>2, <2>5, <4>1, <4>2
      <4>3. CASE a[s] \notin In[u]
        <5>1. Was \cap In[u] = {} /\ a[s] \in Available'
          BY <1>1, <2>2, <4>3
        <5>2. RepsOf[s] \cap In[u] = {}
          BY <2>1, <5>1
        <5> QED
          BY <2>1, <4>1, <5>1, <5>2
      <4> QED
        BY <4>2, <4>3
    <3> QED
      BY <3>1, <3>2
  <2>7. ASSUME NEW q \in Is, retention'[q] # "none"
        PROVE  \E k \in Is : retention'[k] # "none" /\ k \in In[u] \cup Available' \cup Inline
    <3>1. CASE preferred'[s] # preferred[s]
      BY <2>4, <3>1
    <3>2. CASE preferred'[s] = preferred[s]
      <4>1. Is = Was
        BY <2>1, <3>2
      <4>2. CASE retention[q] = "none"
        BY <1>1, <2>3, <2>7, <4>2 DEF Available
      <4>3. CASE retention[q] # "none"
        BY <1>1, <1>13, <2>2, <2>3, <4>1, <4>3
      <4> QED
        BY <4>2, <4>3
    <3> QED
      BY <3>1, <3>2
  <2> QED
    BY <2>5, <2>6, <2>7 DEF May, Is
<1>15. \A s \in States : IF s \in B THEN May(In[u], Roots[u], s, b[s])' ELSE b[s] = None
  BY <1>4, <1>5, <1>6, <1>11, <1>14
<1>16. B \in SUBSET Records /\ A \in SUBSET Records
  BY <1>4, <1>5, <1>7, ClosureType
<1>17. RequiredSet(B) \subseteq RequiredSet(A) \cup c.required
  <2>1. B \subseteq A \cup c.full
    BY <1>12
  <2> QED
    BY <1>2, <2>1 DEF RequiredSet
<1>18. RequiredSet(B) \ In[u] \subseteq Available'
  BY <1>1, <1>4, <1>5, <1>17
<1>19. ASSUME NEW r \in (RequiredSet(B) \ B) \cap Results PROVE retention'[r] # "none"
  <2>1. r \in Records
    BY <1>19, UnitAssumption DEF Results
  <2>2. CASE r \in c.required
    BY <1>1, <2>2 DEF Available
  <2>3. CASE r \notin c.required /\ r \notin A
    BY <1>4, <1>5, <1>13, <1>17, <1>19, <2>1, <2>3
  <2>4. CASE r \in A
    <3>2. \A s \in States \cap B : b[s] \in RepsOf[s] /\ a[s] \in RepsOf[s]
      BY <1>10, <1>11
    <3>3. \E s \in States \cap B : r = a[s] \/ r \in Needs[a[s]] \ {s}
      BY <1>4, <1>5, <1>7, <1>9, <1>19, <2>4, <3>2, OtherChoice, UnitAssumption
    <3> QED
      BY <1>10, <1>11, <1>19, <3>3, KindAssumption DEF Reps
  <2> QED
    BY <2>2, <2>3, <2>4
<1>20. \A r \in B : Content[r] \subseteq blobs'
  <2>1. \A r \in c.full : Content[r] \subseteq blobs'
    BY <1>1, <1>3 DEF ContentPresent
  <2>2. \A r \in A : Content[r] \subseteq blobs'
    BY <1>1, <1>4, <1>5
  <2> QED
    BY <1>12, <2>1, <2>2
<1> QED
  BY <1>7, <1>9, <1>15, <1>18, <1>19, <1>20, PublishableLater

\* What a removal does to the rows.
LEMMA RemovalRows ==
    ASSUME IInv, NEW d \in Removals, BeginRemoval(d)
    PROVE  /\ Available' = Available \ Scope[d]
           /\ \A r \in Records : retention'[r] # "none" <=> retention[r] # "none"
           /\ UNCHANGED <<blobs, links, preferred>>
           /\ ~Blocked(Scope[d])
           /\ RecoveryValid(Scope[d])
           /\ Frontier({})' = Frontier(Scope[d])
<1>1. /\ retention' = [r \in Records |->
           IF r \in Scope[d] \cap Available THEN "unavailable" ELSE retention[r]]
      /\ UNCHANGED <<blobs, links, preferred, journal>>
      /\ ~Blocked(Scope[d])
      /\ RecoveryValid(Scope[d])
  BY DEF BeginRemoval
<1>2. Available' = Available \ Scope[d]
  BY <1>1 DEF Available
<1>3. \A r \in Records : retention'[r] # "none" <=> retention[r] # "none"
  BY <1>1 DEF Available
<1>4. \A u \in Operations : Res[u] \in Records /\ Exec[u] \in Records
  BY UnitAssumption
<1>5. journal \subseteq Operations
  BY DEF IInv, TypeOK
<1>6. Frontier({})' = Frontier(Scope[d])
  BY <1>1, <1>2, <1>3, <1>4, <1>5 DEF Frontier
<1> QED
  BY <1>1, <1>2, <1>3, <1>6

\* A removal takes nothing a remaining record is linked to.
LEMMA RemovalLinks ==
    ASSUME IInv, LinkInv, NEW d \in Removals, BeginRemoval(d)
    PROVE  LinkInv'
<1>1. /\ Available' = Available \ Scope[d]
      /\ \A r \in Records : retention'[r] # "none" <=> retention[r] # "none"
      /\ UNCHANGED <<links, preferred>>
      /\ ~Blocked(Scope[d])
  BY RemovalRows
<1>2. \A r : Linked(r) => Linked(r)'
  BY <1>1 DEF Linked
<1>3. ASSUME NEW r \in Reps \cap Available' PROVE Linked(r)' /\ Needs[r] \subseteq Available'
  <2>1. r \in Available \ Scope[d] /\ Linked(r) /\ Needs[r] \subseteq Available
    BY <1>1, <1>3 DEF LinkInv
  <2>2. \A n \in Needs[r] : n \notin Scope[d]
    BY <1>1, <2>1 DEF Blocked, Linked
  <2> QED
    BY <1>1, <1>2, <2>1, <2>2
<1>4. \A r \in Results : r \in Records
  BY UnitAssumption DEF Results
<1>5. (\A e \in links : Linked(e[2]))'
  BY <1>1, <1>2 DEF LinkInv
<1>6. (\A s \in States : preferred[s] # None =>
         preferred[s] \in RepsOf[s] /\ Linked(preferred[s]))'
  BY <1>1 DEF LinkInv, Linked
<1>7. (\A r \in Results : retention[r] # "none" => Linked(r))'
  BY <1>1, <1>2, <1>4 DEF LinkInv
<1> QED
  BY <1>3, <1>5, <1>6, <1>7 DEF LinkInv

\* A removal leaves held what it does not remove itself.
LEMMA RemovalHeld ==
    ASSUME IInv, NEW d \in Removals, BeginRemoval(d), NEW r, r \notin Scope[d], Held(r)
    PROVE  Held(r)'
<1>1. /\ Available' = Available \ Scope[d]
      /\ UNCHANGED <<links, preferred>>
      /\ ~Blocked(Scope[d])
  BY RemovalRows
<1>2. PICK C \in SUBSET Available : r \in C /\ Firm(C)
  BY DEF Held
<1>3. PICK D : D = C \ Scope[d]
  OBVIOUS
<1>4. ASSUME NEW q \in D
      PROVE  /\ Linked(q)'
             /\ Needs[q] \subseteq D
             /\ q \in States => preferred'[q] \in D
  <2>1. /\ q \in C /\ q \in Available \ Scope[d]
        /\ Linked(q) /\ Needs[q] \subseteq C /\ (q \in States => preferred[q] \in C)
    BY <1>2, <1>3, <1>4 DEF Firm
  <2>2. \A n \in Needs[q] : n \notin Scope[d]
    BY <1>1, <2>1 DEF Blocked, Linked
  <2>3. q \in States => preferred[q] \notin Scope[d]
    BY <1>1, <2>1 DEF Blocked
  <2>4. Linked(q)'
    BY <1>1, <2>1 DEF Linked
  <2> QED
    BY <1>1, <1>3, <2>1, <2>2, <2>3, <2>4
<1>5. Firm(D)'
  BY <1>4 DEF Firm
<1>6. D \in SUBSET Available' /\ r \in D
  BY <1>1, <1>2, <1>3
<1> QED
  BY <1>5, <1>6 DEF Held

\* A removal leaves every recoverable unit publishable, with the choice its own
\* validation made: the representation a state prefers goes only with the state.
LEMMA RemovalPublishable ==
    ASSUME IInv, LinkInv, NEW d \in Removals, BeginRemoval(d),
           NEW u \in Operations, u \in Frontier(Scope[d])
    PROVE  Publishable(u)' /\ JBlob[u] \in blobs'
<1> DEFINE scope == Scope[d]
<1>1. /\ Available' = Available \ scope
      /\ \A r \in Records : retention'[r] # "none" <=> retention[r] # "none"
      /\ UNCHANGED <<blobs, links, preferred>>
      /\ ~Blocked(scope)
      /\ RecoveryValid(scope)
  BY RemovalRows
<1>2. PICK choice \in Checked(In[u], Roots[u]) :
        /\ RequiredSet(FullSet(choice, Roots[u])) \ In[u] \subseteq Available
        /\ \A r \in FullSet(choice, Roots[u]) : Content[r] \subseteq blobs
        /\ RequiredSet(FullSet(choice, Roots[u])) \cap scope = {}
  BY <1>1 DEF RecoveryValid
<1>3. JBlob[u] \in blobs'
  BY <1>1 DEF RecoveryValid
<1> HIDE DEF scope
<1>4. PICK full : full = FullSet(choice, Roots[u])
  OBVIOUS
<1>5. /\ u \in Units /\ In[u] \in SUBSET Records /\ Roots[u] \in SUBSET Records
  BY UnitAssumption
<1>6. /\ choice \in Choosings
      /\ Roots[u] \subseteq full /\ full \in SUBSET Records
      /\ \A s \in States \cap full :
           /\ choice[s] \in Eligible(In[u], Roots[u], s)
           /\ choice[s] \in RepsOf[s] \cap full
      /\ \A s \in States \ full : choice[s] = None
      /\ \A r \in (RequiredSet(full) \ full) \cap Results : retention[r] # "none"
  BY <1>4, <1>5, CheckedChoice, ClosureType
<1>7. full \subseteq RequiredSet(full)
  BY DEF RequiredSet
<1>8. ASSUME NEW s \in States, s \in full
      PROVE  May(In[u], Roots[u], s, choice[s])'
  <2> DEFINE Was == Choices(In[u], Roots[u], s)
  <2>1. May(In[u], Roots[u], s, choice[s])
    BY <1>6, <1>8, EligibleIff
  <2>2. /\ choice[s] \in Was
        /\ IF Was \cap In[u] # {} THEN choice[s] \in In[u] ELSE choice[s] \in Available
        /\ \A q \in Was : retention[q] # "none" =>
             \E k \in Was : retention[k] # "none" /\ k \in In[u] \cup Available \cup Inline
    BY <2>1 DEF May
  <2>3. Was = RepsOf[s] \cap (In[u] \cup Roots[u] \cup {preferred[s]})
    BY DEF Choices
  <2>4. Was = Choices(In[u], Roots[u], s)'
    BY <1>1 DEF Choices
  <2>5. Was \subseteq Records /\ s \in Records
    BY <2>3, GraphAssumption DEF States
  <2> HIDE DEF Was
  <2>6. choice[s] \in Available => choice[s] \in Available'
    BY <1>1, <1>2, <1>4, <1>6, <1>7, <1>8
  <2>7. ASSUME NEW k \in Was, k \in Available, k \notin In[u] PROVE k \in Available'
    <3>1. CASE k \in Roots[u]
      BY <1>1, <1>2, <1>4, <1>6, <1>7, <2>7, <3>1
    <3>2. CASE k = preferred[s]
      <4>1. k \in Reps \cap Available /\ s \in Needs[k]
        BY <2>3, <2>7, KindAssumption DEF Reps
      <4>2. s \in Available
        BY <4>1 DEF LinkInv
      <4>3. s \notin scope
        BY <1>2, <1>4, <1>7, <1>8
      <4> QED
        BY <1>1, <1>8, <2>7, <3>2, <4>2, <4>3 DEF Blocked
    <3> QED
      BY <2>3, <2>7, <3>1, <3>2
  <2>8. ASSUME NEW q \in Was, retention'[q] # "none"
        PROVE  \E k \in Was : retention'[k] # "none" /\ k \in In[u] \cup Available' \cup Inline
    BY <1>1, <2>2, <2>5, <2>7, <2>8
  <2> QED
    BY <2>2, <2>4, <2>6, <2>8 DEF May
<1>9. /\ \A r \in (RequiredSet(full) \ full) \cap Results : retention'[r] # "none"
      /\ RequiredSet(full) \ In[u] \subseteq Available'
      /\ \A r \in full : Content[r] \subseteq blobs'
  BY <1>1, <1>2, <1>4, <1>6, UnitAssumption DEF Results
<1>10. \A s \in States : IF s \in full THEN May(In[u], Roots[u], s, choice[s])'
                         ELSE choice[s] = None
  BY <1>6, <1>8
<1> QED
  BY <1>3, <1>4, <1>5, <1>6, <1>9, <1>10, PublishableLater

-----------------------------------------------------------------------------
(* Every step preserves the invariant                                       *)

\* Nothing is linked, selected, started or journaled at first.
LEMMA KeepInit == Init => KeepInv
<1> SUFFICES ASSUME Init PROVE KeepInv
  OBVIOUS
<1>1. LinkInv
  <2>1. Reps \cap Available = {}
    BY DEF Init, Available
  <2> QED
    BY <2>1, UnitAssumption DEF Init, LinkInv, Results
<1>2. ClosedInv /\ HeadInv /\ FusedInv /\ IndexInv
  BY DEF Init, ClosedInv, HeadInv, FusedInv, IndexInv
<1>3. StartedInv /\ RecoveryProtected
  BY DEF Init, StartedInv, RecoveryProtected, Frontier
<1> QED
  BY <1>1, <1>2, <1>3 DEF KeepInv

\* A step of p leaves the other sessions alone, or adds bytes to the store.
Others(p) ==
    \A q \in Publishers \ {p} :
        /\ phase'[q] = phase[q] /\ work'[q] = work[q] /\ check'[q] = check[q]
        /\ ready[q] \subseteq ready'[q]

\* What the invariant says of one session.
Claims(p) ==
    /\ phase[p] = "checked" => Closed(check[p])
    /\ phase[p] = "validated" => work[p] \in selected \/ Held(Args[work[p]].target)
    /\ phase[p] \in {"started", "prepared", "staged"} => retention[Exec[work[p]]] # "none"
    /\ phase[p] = "staged" => JBlob[work[p]] \in ready[p]
    /\ phase[p] \in {"prepared", "staged"} /\ work[p] \in Fused => Publishable(work[p])

\* What a step of a session has to show: what rests on the rows is kept, and what the
\* session itself now claims is true.
LEMMA SessionKeeps ==
    ASSUME IInv, KeepInv, NEW p \in Publishers,
           Others(p),
           LinkInv',
           \A r : Held(r) => Held(r)',
           \A u \in Units : Publishable(u) => Publishable(u)',
           \A r \in Records : retention[r] # "none" => retention'[r] # "none",
           \A d \in Datasets : heads'[d] = heads[d] \/ (heads[d] # None => Held(heads[d]))',
           selected \subseteq selected',
           \A u \in (prepared' \cup journal') \ (prepared \cup journal) :
               retention'[Exec[u]] # "none",
           \A u \in Fused \cap Frontier({})' :
               u \in Frontier({}) \/ (Publishable(u)' /\ JBlob[u] \in blobs'),
           blobs \subseteq blobs',
           Claims(p)',
           cleaner' = None
    PROVE  KeepInv'
<1> USE DEF Others, Claims
<1>1. ClosedInv'
  <2>1. ASSUME NEW q \in Publishers \ {p}, phase'[q] = "checked" PROVE Closed(check[q])'
    <3>1. PICK c \in CheckType : c = check[q] /\ Closed(c)
      BY <2>1 DEF KeepInv, ClosedInv, IInv, TypeOK
    <3>2. Closed(c)'
      BY <3>1 DEF Closed, RequiredSet, CheckType
    <3> QED
      BY <2>1, <3>1, <3>2 DEF Closed
  <2> QED
    BY <2>1 DEF ClosedInv
<1>2. HeadInv'
  <2>1. ASSUME NEW d \in Datasets PROVE (heads[d] # None => Held(heads[d]))'
    <3>1. CASE heads'[d] = heads[d] /\ heads[d] # None
      <4>1. PICK r : r = heads[d] /\ Held(r)
        BY <3>1 DEF KeepInv, HeadInv
      <4>2. Held(r)'
        BY <4>1
      <4> QED
        BY <3>1, <4>1, <4>2 DEF Held
    <3> QED
      BY <3>1
  <2>2. ASSUME NEW q \in Publishers, phase'[q] = "validated", work'[q] \notin selected'
        PROVE  Held(Args[work[q]].target)'
    <3>1. CASE q = p
      BY <2>2, <3>1
    <3>2. CASE q # p
      <4>1. PICK r : r = Args[work[q]].target /\ Held(r)
        BY <2>2, <3>2 DEF KeepInv, HeadInv
      <4>2. Held(r)'
        BY <4>1
      <4> QED
        BY <3>2, <4>1, <4>2 DEF Held
    <3> QED
      BY <3>1, <3>2
  <2> QED
    BY <2>1, <2>2 DEF HeadInv
<1>3. StartedInv'
  <2>1. \A u \in Operations : Exec[u] \in Records
    BY UnitAssumption
  <2>2. prepared \cup journal \subseteq Operations
    BY DEF IInv, TypeOK
  <2>3. \A u \in prepared' \cup journal' : retention'[Exec[u]] # "none"
    BY <2>1, <2>2 DEF KeepInv, StartedInv
  <2>4. ASSUME NEW q \in Publishers
        PROVE  /\ phase'[q] \in {"started", "prepared", "staged"} =>
                    retention'[Exec[work'[q]]] # "none"
               /\ phase'[q] = "staged" => JBlob[work'[q]] \in ready'[q]
    <3>1. CASE q = p
      BY <3>1
    <3>2. CASE q # p
      <4>1. phase[q] \in {"started", "prepared", "staged"} => work[q] \in Operations
        BY DEF IInv, SessionInv
      <4> QED
        BY <2>1, <3>2, <4>1 DEF KeepInv, StartedInv
    <3> QED
      BY <3>1, <3>2
  <2> QED
    BY <2>3, <2>4 DEF StartedInv
<1>4. FusedInv'
  <2>1. ASSUME NEW q \in Publishers, phase'[q] \in {"prepared", "staged"}, work'[q] \in Fused
        PROVE  Publishable(work[q])'
    <3>1. CASE q = p
      BY <2>1, <3>1
    <3>2. CASE q # p
      <4>1. PICK u \in Units : u = work[q] /\ Publishable(u)
        BY <2>1, <3>2, UnitAssumption DEF KeepInv, FusedInv
      <4>2. Publishable(u)'
        BY <4>1
      <4> QED
        BY <3>2, <4>1, <4>2 DEF Publishable
    <3> QED
      BY <3>1, <3>2
  <2> QED
    BY <2>1 DEF FusedInv
<1>5. RecoveryProtected'
  <2>1. ASSUME NEW u \in Fused, u \in Frontier({})'
        PROVE  JBlob[u] \in blobs' /\ Publishable(u)'
    <3>1. CASE u \in Frontier({})
      BY <3>1, UnitAssumption DEF KeepInv, RecoveryProtected, Publishable
    <3> QED
      BY <2>1, <3>1
  <2> QED
    BY <2>1 DEF RecoveryProtected, Publishable
<1>6. IndexInv'
  BY DEF IndexInv
<1> QED
  BY <1>1, <1>2, <1>3, <1>4, <1>5, <1>6 DEF KeepInv

\* Steps of a session that leave rows, heads and journals alone.
LEMMA QuietSession ==
    ASSUME IInv, KeepInv, NEW p \in Publishers,
           UNCHANGED <<retention, links, preferred, heads, selected, journal>>,
           blobs \subseteq blobs',
           Others(p),
           \/ prepared' = prepared
           \/ prepared' = prepared \cup {work[p]} /\ phase[p] = "started",
           Claims(p)',
           cleaner' = None
    PROVE  KeepInv'
<1>1. /\ LinkInv'
      /\ \A r : Held(r) => Held(r)'
      /\ \A u \in Units : Publishable(u) => Publishable(u)'
  BY SameLedger DEF KeepInv
<1>2. \A d \in Datasets : heads'[d] = heads[d] \/ (heads[d] # None => Held(heads[d]))'
  OBVIOUS
<1>3. \A u \in (prepared' \cup journal') \ (prepared \cup journal) : retention'[Exec[u]] # "none"
  BY DEF KeepInv, StartedInv
<1>4. Frontier({})' = Frontier({})
  BY DEF Frontier, Available
<1> QED
  BY <1>1, <1>2, <1>3, <1>4, SessionKeeps

\* A session that opens claims nothing, or the target it has just validated.
LEMMA OpenSessionKeeps ==
    ASSUME IInv, KeepInv, NEW p \in Publishers, NEW what, NEW where,
           where \in {"open", "journaled", "validated"},
           where = "validated" => what \in selected \/ Held(Args[what].target),
           Enter(p, what, where),
           UNCHANGED <<blobs, ledger, removals, ready, check, prepared, cleanup>>
    PROVE  KeepInv'
<1>1. /\ cleaner = None
      /\ phase' = [phase EXCEPT ![p] = where] /\ work' = [work EXCEPT ![p] = what]
      /\ UNCHANGED <<blobs, retention, links, preferred, heads, selected, journal, ready,
                     check, prepared, cleaner>>
  BY DEF Enter, ledger, cleanup
<1>2. phase'[p] = where /\ work'[p] = what
  BY <1>1 DEF IInv, TypeOK
<1>3. \A q \in Publishers \ {p} : phase'[q] = phase[q] /\ work'[q] = work[q]
  BY <1>1 DEF IInv, TypeOK
<1>4. \A r : Held(r) => Held(r)'
  BY <1>1, SameLedger
<1>5. where = "validated" => work'[p] \in selected' \/ Held(Args[work[p]].target)'
  <2> SUFFICES ASSUME where = "validated", what \notin selected
               PROVE  Held(Args[work[p]].target)'
    BY <1>1, <1>2
  <2>1. PICK r : r = Args[what].target /\ Held(r)
    OBVIOUS
  <2>2. Held(r)'
    BY <1>4, <2>1
  <2> QED
    BY <1>2, <2>1, <2>2 DEF Held
<1>6. Others(p)
  BY <1>1, <1>3 DEF Others
<1>7. Claims(p)'
  BY <1>2, <1>5 DEF Claims
<1> QED
  BY <1>1, <1>6, <1>7, QuietSession

\* What a session validates with an empty batch is held: nothing but the preferred
\* representation can stand for a state, and the links lead wherever it needs.
LEMMA ValidHeld ==
    ASSUME LinkInv, NEW r \in States \cup Results, Valid({}, {r})
    PROVE  Held(r)
<1>1. r \in Records
  BY UnitAssumption DEF States, Results
<1>2. PICK choice \in Checked({}, {r}) :
        RequiredSet(FullSet(choice, {r})) \subseteq Available
  BY DEF Valid
<1>3. PICK full : full = FullSet(choice, {r})
  OBVIOUS
<1>4. /\ choice \in Choosings /\ r \in full /\ full \in SUBSET Records
      /\ \A q \in full : Needs[q] \subseteq full
      /\ \A s \in States \cap full :
           choice[s] \in Eligible({}, {r}, s) /\ choice[s] \in RepsOf[s] \cap full
  <2>1. {} \in SUBSET Records /\ {r} \in SUBSET Records
    BY <1>1
  <2>2. PICK incoming, roots \in SUBSET Records : incoming = {} /\ roots = {r}
    BY <2>1
  <2>3. choice \in Checked(incoming, roots) /\ full = FullSet(choice, roots)
    BY <1>3, <2>2
  <2>4. /\ choice \in Choosings /\ roots \subseteq full
        /\ \A q \in full : Needs[q] \subseteq full
        /\ \A s \in States \cap full :
             choice[s] \in Eligible(incoming, roots, s) /\ choice[s] \in RepsOf[s] \cap full
    BY <2>3, CheckedChoice
  <2>5. full \in SUBSET Records
    BY <2>3, ClosureType
  <2> QED
    BY <2>2, <2>4, <2>5
<1>5. full \subseteq Available
  BY <1>2, <1>3 DEF RequiredSet
<1>6. \A s \in States \cap full : choice[s] = preferred[s]
  <2> SUFFICES ASSUME NEW s \in States \cap full PROVE choice[s] = preferred[s]
    OBVIOUS
  <2>1. choice[s] \in Choices({}, {r}, s)
    BY <1>4, EligibleIff DEF May
  <2>2. choice[s] \in Reps /\ r \notin Reps
    BY <1>4, KindAssumption DEF Reps
  <2> QED
    BY <2>1, <2>2 DEF Choices
<1> DEFINE F == {q \in full : Linked(q)}
<1>7. r \in F
  <2>1. CASE r \in Results
    BY <1>4, <1>5, <2>1 DEF LinkInv, Available
  <2>2. CASE r \in States
    <3>1. preferred[r] # None
      BY <1>1, <1>4, <1>6, <2>2, UpdateAssumption
    <3> QED
      BY <1>4, <2>2, <3>1, KindAssumption DEF Linked
  <2> QED
    BY <2>1, <2>2
<1>8. ASSUME NEW q \in F, NEW n \in Needs[q] PROVE n \in F
  <2>1. PICK e : e = <<q, n>>
    OBVIOUS
  <2>2. e \in links /\ e[2] = n
    BY <2>1 DEF Linked
  <2>3. Linked(n)
    BY <2>2 DEF LinkInv
  <2> QED
    BY <1>4, <2>3
<1>9. ASSUME NEW s \in States \cap F PROVE preferred[s] \in F
  <2>1. preferred[s] # None /\ preferred[s] \in full
    BY <1>4, <1>6 DEF Linked
  <2> QED
    BY <2>1 DEF LinkInv
<1>10. Firm(F)
  BY <1>8, <1>9 DEF Firm
<1>11. F \in SUBSET Available
  BY <1>5
<1> QED
  BY <1>7, <1>10, <1>11 DEF Held

\* Reading and retaining bytes, in a session that stays where it is.
LEMMA RetainBytesKeeps ==
    ASSUME IInv, KeepInv, NEW p \in Publishers, NEW b \in Blobs, RetainBytes(p, b)
    PROVE  KeepInv'
<1>1. /\ phase[p] \in {"open", "started"} /\ cleaner = None
      /\ blobs' = blobs \cup {b} /\ ready' = [ready EXCEPT ![p] = @ \cup {b}]
      /\ UNCHANGED <<retention, links, preferred, heads, selected, journal, phase, work,
                     check, prepared, cleaner>>
  BY SessionExcludesCleanup DEF RetainBytes, ledger, cleanup
<1>2. \A q \in Publishers : ready[q] \subseteq ready'[q]
  BY <1>1 DEF IInv, TypeOK
<1>3. phase'[p] = "started" => retention'[Exec[work'[p]]] # "none"
  BY <1>1 DEF KeepInv, StartedInv
<1>4. Others(p)
  BY <1>1, <1>2 DEF Others
<1>5. Claims(p)'
  BY <1>1, <1>3 DEF Claims
<1> QED
  BY <1>1, <1>4, <1>5, QuietSession

\* The execution that starts is retained.
LEMMA StartOperationKeeps ==
    ASSUME IInv, KeepInv, NEW p \in Publishers, StartOperation(p)
    PROVE  KeepInv'
<1>1. /\ phase[p] = "open" /\ work[p] \in Operations /\ cleaner = None
      /\ retention[Exec[work[p]]] = "none"
      /\ retention' = [retention EXCEPT ![Exec[work[p]]] = "available"]
      /\ phase' = [phase EXCEPT ![p] = "started"]
      /\ UNCHANGED <<blobs, heads, selected, journal, work, ready, check, prepared, cleaner>>
  BY SessionExcludesCleanup DEF StartOperation, cleanup
<1>2. /\ LinkInv'
      /\ \A r : Held(r) => Held(r)'
      /\ \A u \in Units : Publishable(u) => Publishable(u)'
  BY StartLedger DEF KeepInv
<1>3. /\ Exec[work[p]] \in Records
      /\ retention'[Exec[work[p]]] = "available"
      /\ \A r \in Records : r # Exec[work[p]] => retention'[r] = retention[r]
  BY <1>1, UnitAssumption DEF IInv, TypeOK
<1>4. \A r \in Records : retention[r] # "none" => retention'[r] # "none"
  BY <1>1, <1>3
<1>5. /\ phase'[p] = "started"
      /\ \A q \in Publishers \ {p} : phase'[q] = phase[q]
  BY <1>1 DEF IInv, TypeOK
<1>6. ASSUME NEW u \in Fused, u \in Frontier({})' PROVE u \in Frontier({})
  <2>1. u \in journal /\ u \in Operations /\ Exec[u] \in Records /\ Res[u] \in Records
    BY <1>1, <1>6, UnitAssumption DEF Frontier
  <2>2. retention[Exec[u]] # "none"
    BY <2>1 DEF KeepInv, StartedInv
  <2>3. Exec[u] # Exec[work[p]]
    BY <1>1, <2>2
  <2>4. Res[u] # Exec[work[p]]
    BY <1>1, <2>1, KindAssumption DEF Results
  <2> QED
    BY <1>3, <1>6, <2>1, <2>3, <2>4 DEF Frontier, Available
<1>7. Others(p)
  BY <1>1, <1>5 DEF Others
<1>8. Claims(p)'
  BY <1>1, <1>3, <1>5 DEF Claims
<1> QED
  BY <1>1, <1>2, <1>4, <1>6, <1>7, <1>8, SessionKeeps

\* A producer that finished has read what its publication needs.
LEMMA FinishProducerKeeps ==
    ASSUME IInv, KeepInv, NEW p \in Publishers, FinishProducer(p)
    PROVE  KeepInv'
<1>1. /\ phase[p] = "started" /\ cleaner = None
      /\ Publishable(work[p])
      /\ prepared' = prepared \cup {work[p]}
      /\ phase' = [phase EXCEPT ![p] = "prepared"]
      /\ UNCHANGED <<blobs, retention, links, preferred, heads, selected, journal, work,
                     ready, check, cleaner>>
  BY SessionExcludesCleanup DEF FinishProducer, Publishable, ledger, cleanup
<1>2. /\ phase'[p] = "prepared"
      /\ \A q \in Publishers \ {p} : phase'[q] = phase[q]
  BY <1>1 DEF IInv, TypeOK
<1>3. PICK u \in Units : u = work[p] /\ Publishable(u)
  BY <1>1, UnitAssumption DEF IInv, SessionInv
<1>4. Publishable(u)'
  BY <1>1, <1>3, SameLedger
<1>5. Publishable(work[p])'
  BY <1>1, <1>3, <1>4 DEF Publishable
<1>6. retention'[Exec[work'[p]]] # "none"
  BY <1>1 DEF KeepInv, StartedInv
<1>7. Others(p)
  BY <1>1, <1>2 DEF Others
<1>8. Claims(p)'
  BY <1>2, <1>5, <1>6 DEF Claims
<1> QED
  BY <1>1, <1>7, <1>8, QuietSession

\* The journal of a unit is retained before it is recorded.
LEMMA RetainJournalKeeps ==
    ASSUME IInv, KeepInv, NEW p \in Publishers, RetainJournal(p)
    PROVE  KeepInv'
<1>1. /\ \/ phase[p] = "prepared"
         \/ phase[p] = "open" /\ work[p] \in prepared \ Fused
      /\ cleaner = None
      /\ blobs' = blobs \cup {JBlob[work[p]]}
      /\ ready' = [ready EXCEPT ![p] = @ \cup {JBlob[work[p]]}]
      /\ phase' = [phase EXCEPT ![p] = "staged"]
      /\ UNCHANGED <<retention, links, preferred, heads, selected, journal, work, check,
                     prepared, cleaner>>
  BY SessionExcludesCleanup DEF RetainJournal, ledger, cleanup
<1>2. /\ phase'[p] = "staged" /\ JBlob[work'[p]] \in ready'[p]
      /\ \A q \in Publishers \ {p} : phase'[q] = phase[q]
      /\ \A q \in Publishers : ready[q] \subseteq ready'[q]
  BY <1>1 DEF IInv, TypeOK
<1>3. retention'[Exec[work'[p]]] # "none"
  BY <1>1 DEF KeepInv, StartedInv
<1>4. work[p] \in Fused => Publishable(work[p])'
  <2> SUFFICES ASSUME work[p] \in Fused PROVE Publishable(work[p])'
    OBVIOUS
  <2>1. PICK u \in Units : u = work[p] /\ Publishable(u)
    BY <1>1, UnitAssumption DEF KeepInv, FusedInv
  <2>2. Publishable(u)'
    BY <1>1, <2>1, SameLedger
  <2> QED
    BY <1>1, <2>1, <2>2 DEF Publishable
<1>5. Others(p)
  BY <1>1, <1>2 DEF Others
<1>6. Claims(p)'
  BY <1>1, <1>2, <1>3, <1>4 DEF Claims
<1> QED
  BY <1>1, <1>5, <1>6, QuietSession

\* Recording the journal makes the unit recoverable: its session can still publish it.
LEMMA RecordJournalKeeps ==
    ASSUME IInv, KeepInv, NEW p \in Publishers, RecordJournal(p)
    PROVE  KeepInv'
<1>1. /\ phase[p] = "staged" /\ cleaner = None
      /\ journal' = journal \cup {work[p]}
      /\ phase' = [phase EXCEPT ![p] = "journaled"]
      /\ UNCHANGED <<blobs, retention, links, preferred, heads, selected, work, ready, check,
                     prepared, cleaner>>
  BY SessionExcludesCleanup DEF RecordJournal, cleanup
<1>2. /\ phase'[p] = "journaled"
      /\ \A q \in Publishers \ {p} : phase'[q] = phase[q]
  BY <1>1 DEF IInv, TypeOK
<1>3. /\ LinkInv'
      /\ \A r : Held(r) => Held(r)'
      /\ \A u \in Units : Publishable(u) => Publishable(u)'
  BY <1>1, SameLedger DEF KeepInv
<1>4. \A u \in (prepared' \cup journal') \ (prepared \cup journal) : retention'[Exec[u]] # "none"
  BY <1>1 DEF KeepInv, StartedInv
<1>5. ASSUME NEW u \in Fused, u \in Frontier({})'
      PROVE  u \in Frontier({}) \/ (Publishable(u)' /\ JBlob[u] \in blobs')
  <2>1. CASE u \in journal
    BY <1>1, <1>5, <2>1 DEF Frontier, Available
  <2>2. CASE u \notin journal
    <3>1. u = work[p]
      BY <1>1, <1>5, <2>2 DEF Frontier
    <3>2. Publishable(u) /\ u \in Units
      BY <1>1, <3>1, UnitAssumption DEF KeepInv, FusedInv
    <3>3. JBlob[u] \in blobs
      BY <1>1, <3>1 DEF KeepInv, StartedInv, IInv, ReadyPresent
    <3> QED
      BY <1>1, <1>3, <3>2, <3>3
  <2> QED
    BY <2>1, <2>2
<1>6. Others(p)
  BY <1>1, <1>2 DEF Others
<1>7. Claims(p)'
  BY <1>2 DEF Claims
<1> QED
  BY <1>1, <1>3, <1>4, <1>5, <1>6, <1>7, SessionKeeps

\* The check hands a closed set of obligations to the commit.
LEMMA CheckPublicationKeeps ==
    ASSUME IInv, KeepInv, NEW p \in Publishers, CheckPublication(p)
    PROVE  KeepInv'
<1> DEFINE u == work[p]
<1>1. /\ phase[p] \in {"open", "journaled"}
      /\ phase' = [phase EXCEPT ![p] = "checked"]
      /\ UNCHANGED <<blobs, retention, links, preferred, heads, selected, journal, work,
                     prepared, cleaner>>
  BY DEF CheckPublication, ledger, cleanup
<1>2. cleaner = None /\ u \in Units
  BY <1>1, SessionExcludesCleanup, UnitAssumption DEF IInv, SessionInv
<1>3. PICK choice \in Checked(In[u], Roots[u]) :
        LET full == FullSet(choice, Roots[u]) IN
        /\ ready' = [ready EXCEPT ![p] = @ \cup
             IF receipt[u] = None THEN UNION {Content[r] : r \in full} ELSE {}]
        /\ check' = [check EXCEPT ![p] = [full |-> full, required |-> RequiredSet(full),
                                          seen |-> version, choice |-> choice]]
  BY DEF CheckPublication
<1>4. PICK full : full = FullSet(choice, Roots[u])
  OBVIOUS
<1>5. PICK c : c = [full |-> full, required |-> RequiredSet(full), seen |-> version,
                    choice |-> choice]
  OBVIOUS
<1>6. /\ check'[p] = c
      /\ \A q \in Publishers \ {p} : check'[q] = check[q] /\ phase'[q] = phase[q]
      /\ \A q \in Publishers : ready[q] \subseteq ready'[q]
      /\ phase'[p] = "checked"
  BY <1>1, <1>3, <1>4, <1>5 DEF IInv, TypeOK
<1>7. In[u] \in SUBSET Records /\ Roots[u] \in SUBSET Records
  BY <1>2, UnitAssumption
<1>8. /\ \A r \in full : Needs[r] \subseteq full
      /\ \A s \in States \cap full : choice[s] \in RepsOf[s] \cap full
      /\ \A s \in States \ full : choice[s] = None
      /\ \A r \in (RequiredSet(full) \ full) \cap Results : retention[r] # "none"
  BY <1>4, <1>7, CheckedChoice
<1>9. /\ c.full = full /\ c.required = RequiredSet(full) /\ c.choice = choice
  BY <1>5
<1>10. full \in SUBSET Records
  BY <1>4, ClosureType
<1>11. Closed(c)'
  BY <1>1, <1>8, <1>9, <1>10 DEF Closed
<1>12. Closed(check[p])'
  BY <1>6, <1>11 DEF Closed
<1>13. Others(p)
  BY <1>1, <1>6 DEF Others
<1>14. Claims(p)'
  BY <1>6, <1>12 DEF Claims
<1> QED
  BY <1>1, <1>2, <1>13, <1>14, QuietSession

\* A commit changes rows only as its check foresaw.
LEMMA CommitKeeps ==
    ASSUME IInv, KeepInv, NEW p \in Publishers, Commit(p)
    PROVE  KeepInv'
<1>1. /\ phase[p] = "checked" /\ cleaner = None
      /\ Fresh(work[p], check[p]) /\ Retain(check[p].required)
      /\ phase' = [phase EXCEPT ![p] = "done"]
      /\ UNCHANGED <<blobs, journal, heads, selected, work, ready, check, prepared, cleaner>>
  BY SessionExcludesCleanup DEF Commit, cleanup
<1>2. /\ LinkInv'
      /\ \A r : Held(r) => Held(r)'
      /\ \A u \in Units : Publishable(u) => Publishable(u)'
  BY CommitLinks, CommitHeld, CommitPublishable DEF KeepInv
<1>3. /\ \A r \in Records : r \notin check[p].required => retention'[r] = retention[r]
      /\ \A r \in check[p].required : r \in Records => retention'[r] = "available"
      /\ \A r \in check[p].required \ In[work[p]] : retention[r] = "available"
  BY <1>1 DEF Retain, Fresh
<1>4. \A r \in Records : retention[r] # "none" => retention'[r] # "none"
  BY <1>3
<1>5. /\ phase'[p] = "done"
      /\ \A q \in Publishers \ {p} : phase'[q] = phase[q]
  BY <1>1 DEF IInv, TypeOK
<1>6. ASSUME NEW u \in Fused, u \in Frontier({})' PROVE u \in Frontier({})
  <2>1. /\ u \in journal /\ u \in Operations /\ Exec[u] \in Records /\ Res[u] \in Records
        /\ retention'[Exec[u]] = "available" /\ retention'[Res[u]] = "none"
    BY <1>1, <1>6, UnitAssumption DEF Frontier, Available
  <2>2. Exec[u] \notin In[work[p]]
    BY <1>1, <2>1, ExecutionAssumption DEF IInv, SessionInv
  <2>3. retention[Exec[u]] = "available"
    BY <1>3, <2>1, <2>2
  <2>4. retention[Res[u]] = "none"
    BY <1>4, <2>1
  <2> QED
    BY <2>1, <2>3, <2>4 DEF Frontier, Available
<1>7. Others(p)
  BY <1>1, <1>5 DEF Others
<1>8. Claims(p)'
  BY <1>5 DEF Claims
<1> QED
  BY <1>1, <1>2, <1>4, <1>6, <1>7, <1>8, SessionKeeps

\* A retry and the end of a session claim nothing more.
LEMMA LeaveKeeps ==
    ASSUME IInv, KeepInv, NEW p \in Publishers, Retry(p) \/ EndSession(p)
    PROVE  KeepInv'
<1>1. /\ phase[p] # "idle"
      /\ UNCHANGED <<blobs, retention, links, preferred, heads, selected, journal, prepared,
                     cleaner>>
  BY DEF Retry, EndSession, Idle, ledger, cleanup
<1>2. cleaner' = None
  BY <1>1, SessionExcludesCleanup
<1>3. /\ phase'[p] \in {"done", "conflict", "idle"}
      /\ Others(p)
  BY DEF Retry, EndSession, Others, IInv, TypeOK
<1>4. Claims(p)'
  BY <1>3 DEF Claims
<1> QED
  BY <1>1, <1>2, <1>3, <1>4, QuietSession

\* The head moves to a target its session validated.
LEMMA SelectCurrentKeeps ==
    ASSUME IInv, KeepInv, NEW p \in Publishers, SelectCurrent(p)
    PROVE  KeepInv'
<1> DEFINE a == Args[work[p]]
<1>1. /\ phase[p] = "validated" /\ cleaner = None
      /\ phase' = [phase EXCEPT ![p] = "done"]
      /\ UNCHANGED <<blobs, retention, links, preferred, journal, work, ready, check, prepared,
                     cleaner>>
      /\ \/ UNCHANGED <<heads, selected>>
         \/ /\ work[p] \notin selected
            /\ heads' = [heads EXCEPT ![a.dataset] = a.target]
            /\ selected' = selected \cup {work[p]}
  BY SessionExcludesCleanup DEF SelectCurrent, cleanup
<1>2. /\ LinkInv'
      /\ \A r : Held(r) => Held(r)'
      /\ \A u \in Units : Publishable(u) => Publishable(u)'
  BY <1>1, SameLedger DEF KeepInv
<1>3. /\ phase'[p] = "done"
      /\ \A q \in Publishers \ {p} : phase'[q] = phase[q]
  BY <1>1 DEF IInv, TypeOK
<1>4. ASSUME NEW d \in Datasets
      PROVE  heads'[d] = heads[d] \/ (heads[d] # None => Held(heads[d]))'
  <2>1. CASE UNCHANGED heads
    BY <2>1
  <2>2. CASE work[p] \notin selected /\ heads' = [heads EXCEPT ![a.dataset] = a.target]
    <3>1. PICK r : r = a.target /\ Held(r)
      BY <1>1, <2>2 DEF KeepInv, HeadInv
    <3>2. Held(r)'
      BY <1>2, <3>1
    <3>3. heads'[d] = heads[d] \/ heads'[d] = r
      BY <2>2, <3>1 DEF IInv, TypeOK
    <3> QED
      BY <3>2, <3>3 DEF Held
  <2> QED
    BY <1>1, <2>1, <2>2
<1>5. Frontier({})' = Frontier({})
  BY <1>1 DEF Frontier, Available
<1>6. Others(p)
  BY <1>1, <1>3 DEF Others
<1>7. Claims(p)'
  BY <1>3 DEF Claims
<1>8. selected \subseteq selected'
  BY <1>1
<1> QED
  BY <1>1, <1>2, <1>4, <1>5, <1>6, <1>7, <1>8, SessionKeeps

\* Every step of a session preserves the invariant.
LEMMA PublisherKeeps ==
    ASSUME IInv, KeepInv, NEW p \in Publishers, PublisherStep(p)
    PROVE  KeepInv'
<1>1. ASSUME NEW u \in Units, OpenSession(p, u) PROVE KeepInv'
  BY <1>1, OpenSessionKeeps DEF OpenSession
<1>2. ASSUME NEW u \in Operations, Recover(p, u) PROVE KeepInv'
  BY <1>2, OpenSessionKeeps DEF Recover
<1>3. ASSUME NEW q \in Selects, ValidateTarget(p, q) PROVE KeepInv'
  <2>1. q \in selected \/ Held(Args[q].target)
    BY <1>3, ValidHeld, TargetAssumption DEF ValidateTarget, KeepInv
  <2> QED
    BY <1>3, <2>1, OpenSessionKeeps DEF ValidateTarget
<1>4. ASSUME NEW b \in Blobs, RetainBytes(p, b) PROVE KeepInv'
  BY <1>4, RetainBytesKeeps
<1> QED
  BY <1>1, <1>2, <1>3, <1>4, StartOperationKeeps, FinishProducerKeeps, RetainJournalKeeps,
     RecordJournalKeeps, CheckPublicationKeeps, CommitKeeps, LeaveKeeps, SelectCurrentKeeps
     DEF PublisherStep

\* A removal begins: what it takes is neither a head's nor a recoverable unit's.
LEMMA BeginRemovalKeeps ==
    ASSUME IInv, KeepInv, NEW d \in Removals, BeginRemoval(d)
    PROVE  KeepInv'
<1>1. /\ shared = {} /\ index' = Protected(Scope[d])
      /\ UNCHANGED <<journal, heads, selected, phase, work, check, ready, prepared>>
  BY DEF BeginRemoval, GuardFree, sessions
<1>2. /\ \A r \in Records : retention'[r] # "none" <=> retention[r] # "none"
      /\ UNCHANGED blobs
      /\ ~Blocked(Scope[d])
      /\ Frontier({})' = Frontier(Scope[d])
  BY RemovalRows
<1>3. \A p \in Publishers : phase[p] = "idle"
  BY <1>1, CleanupExcludesSessions
<1>4. LinkInv'
  BY RemovalLinks DEF KeepInv
<1>5. ClosedInv' /\ FusedInv'
  BY <1>1, <1>3 DEF ClosedInv, FusedInv
<1>6. HeadInv'
  <2>1. ASSUME NEW e \in Datasets, heads[e] # None PROVE Held(heads[e])'
    <3>1. PICK r : r = heads[e] /\ Held(r) /\ r \notin Scope[d]
      BY <1>2, <2>1 DEF KeepInv, HeadInv, Blocked
    <3>2. Held(r)'
      BY <3>1, RemovalHeld
    <3> QED
      BY <1>1, <3>1, <3>2 DEF Held
  <2> QED
    BY <1>1, <1>3, <2>1 DEF HeadInv
<1>7. StartedInv'
  <2>1. \A u \in Operations : Exec[u] \in Records
    BY UnitAssumption
  <2>2. prepared \cup journal \subseteq Operations
    BY DEF IInv, TypeOK
  <2> QED
    BY <1>1, <1>2, <1>3, <2>1, <2>2 DEF KeepInv, StartedInv
<1>8. RecoveryProtected'
  <2>1. ASSUME NEW u \in Fused, u \in Frontier(Scope[d])
        PROVE  JBlob[u] \in blobs' /\ Publishable(u)'
    BY <2>1, RemovalPublishable, UnitAssumption DEF KeepInv
  <2> QED
    BY <1>2, <2>1 DEF RecoveryProtected, Publishable
<1>9. IndexInv'
  <2>1. ASSUME NEW u, u \in Frontier(Scope[d])
        PROVE  JBlob[u] \in Protected(Scope[d]) /\
               \A r \in In[u] : Content[r] \subseteq Protected(Scope[d])
    <3>1. {JBlob[u]} \subseteq Protected(Scope[d])
      BY <2>1 DEF Protected
    <3>2. UNION {Content[r] : r \in In[u]} \subseteq Protected(Scope[d])
      BY <2>1 DEF Protected
    <3> QED
      BY <3>1, <3>2
  <2> QED
    BY <1>1, <1>2, <2>1 DEF IndexInv
<1> QED
  BY <1>4, <1>5, <1>6, <1>7, <1>8, <1>9 DEF KeepInv

\* The other steps of a removal delete at most a blob outside its plan.
LEMMA CleanupKeeps ==
    ASSUME IInv, KeepInv, cleaner # None,
           blobs' = blobs \/ (\E b \in Blobs \ index : blobs' = blobs \ {b}),
           UNCHANGED <<cleaner, index>> \/ cleaner' = None,
           UNCHANGED <<ledger, sessions>>
    PROVE  KeepInv'
<1> USE DEF ledger, sessions
<1>1. \A p \in Publishers : phase[p] = "idle"
  BY CleanupExcludesSessions DEF IInv, CleanerInv
<1>2. LinkInv' /\ Frontier({})' = Frontier({})
  BY DEF KeepInv, LinkInv, Linked, Available, Frontier
<1>3. ClosedInv' /\ FusedInv' /\ StartedInv'
  BY <1>1 DEF ClosedInv, FusedInv, KeepInv, StartedInv
<1>4. HeadInv'
  BY <1>1 DEF HeadInv, KeepInv, Held, Firm, Linked, Available
<1>5. IndexInv'
  BY <1>2 DEF KeepInv, IndexInv
<1>6. RecoveryProtected'
  <2> SUFFICES ASSUME NEW u \in Fused, u \in Frontier({})
               PROVE  JBlob[u] \in blobs' /\ Publishable(u)'
    BY <1>2 DEF RecoveryProtected, Publishable
  <2>1. u \in Units /\ JBlob[u] \in blobs /\ Publishable(u)
    BY UnitAssumption DEF KeepInv, RecoveryProtected, Publishable
  <2>2. JBlob[u] \in index /\ \A r \in In[u] : Content[r] \subseteq index
    BY DEF KeepInv, IndexInv
  <2>3. PICK choice \in Choosings :
          LET full == FullSet(choice, Roots[u]) IN
          /\ full \in SUBSET Records
          /\ \A s \in States : IF s \in full THEN May(In[u], Roots[u], s, choice[s])
                               ELSE choice[s] = None
          /\ \A r \in (RequiredSet(full) \ full) \cap Results : retention[r] # "none"
          /\ RequiredSet(full) \ In[u] \subseteq Available
          /\ \A r \in full : Content[r] \subseteq blobs
    BY <2>1, PublishableNow
  <2>4. PICK full : full = FullSet(choice, Roots[u])
    OBVIOUS
  <2>5. \A r \in full : Content[r] \subseteq index
    <3>1. full \subseteq In[u] \cup Available
      BY <2>3, <2>4 DEF RequiredSet
    <3> QED
      BY <2>2, <3>1 DEF IInv, CleanerInv
  <2>6. blobs \cap index \subseteq blobs'
    OBVIOUS
  <2>7. \A s \in States : IF s \in full THEN May(In[u], Roots[u], s, choice[s])'
                          ELSE choice[s] = None
    BY <2>3, <2>4 DEF May, Choices, Available
  <2>8. /\ \A r \in (RequiredSet(full) \ full) \cap Results : retention'[r] # "none"
        /\ RequiredSet(full) \ In[u] \subseteq Available'
        /\ \A r \in full : Content[r] \subseteq blobs'
    BY <2>3, <2>4, <2>5, <2>6 DEF Available
  <2> QED
    BY <2>1, <2>2, <2>4, <2>6, <2>7, <2>8, PublishableLater
<1> QED
  BY <1>2, <1>3, <1>4, <1>5, <1>6 DEF KeepInv

\* Every step of a removal preserves the invariant.
LEMMA CleanerKeeps ==
    ASSUME IInv, KeepInv, NEW d \in Removals, CleanerStep(d)
    PROVE  KeepInv'
<1>1. CASE BeginRemoval(d)
  BY <1>1, BeginRemovalKeeps
<1>2. CASE ResumeRemoval(d)
  <2>1. /\ shared = {} /\ index' = Protected({})
        /\ UNCHANGED <<blobs, retention, links, preferred, journal, heads, selected, phase,
                       work, check, ready, prepared>>
    BY <1>2 DEF ResumeRemoval, GuardFree, sessions, ledger
  <2>2. /\ LinkInv'
        /\ \A r : Held(r) => Held(r)'
        /\ \A u \in Units : Publishable(u) => Publishable(u)'
        /\ Frontier({})' = Frontier({})
    BY <2>1, SameLedger DEF KeepInv, Frontier, Available
  <2>3. \A p \in Publishers : phase[p] = "idle"
    BY <2>1, CleanupExcludesSessions
  <2>4. ClosedInv' /\ FusedInv' /\ StartedInv'
    BY <2>1, <2>3 DEF ClosedInv, FusedInv, KeepInv, StartedInv
  <2>5. HeadInv'
    BY <2>1, <2>3 DEF HeadInv, KeepInv, Held, Firm, Linked, Available
  <2>6. RecoveryProtected'
    <3>1. ASSUME NEW u \in Fused, u \in Frontier({})
          PROVE  JBlob[u] \in blobs' /\ Publishable(u)'
      BY <2>1, <2>2, <3>1, UnitAssumption DEF KeepInv, RecoveryProtected, Publishable
    <3> QED
      BY <2>2, <3>1 DEF RecoveryProtected, Publishable
  <2>7. IndexInv'
    <3>1. ASSUME NEW u, u \in Frontier({})
          PROVE  JBlob[u] \in Protected({}) /\ \A r \in In[u] : Content[r] \subseteq Protected({})
      <4>1. {JBlob[u]} \subseteq Protected({})
        BY <3>1 DEF Protected
      <4>2. UNION {Content[r] : r \in In[u]} \subseteq Protected({})
        BY <3>1 DEF Protected
      <4> QED
        BY <4>1, <4>2
    <3> QED
      BY <2>1, <2>2, <3>1 DEF IndexInv
  <2> QED
    BY <2>2, <2>4, <2>5, <2>6, <2>7 DEF KeepInv
<1>3. ASSUME NEW b \in Blobs,
             KeepContent(d, b) \/ DeleteContent(d, b) \/ FailDeletion(d, b)
      PROVE  KeepInv'
  <2>1. cleaner # None /\ UNCHANGED <<ledger, sessions>>
    BY <1>3, UpdateAssumption DEF KeepContent, DeleteContent, FailDeletion
  <2>2. UNCHANGED <<cleaner, index>> \/ cleaner' = None
    BY <1>3 DEF KeepContent, DeleteContent, FailDeletion, cleanup
  <2>3. blobs' = blobs \/ (\E c \in Blobs \ index : blobs' = blobs \ {c})
    BY <1>3 DEF KeepContent, DeleteContent, FailDeletion
  <2> QED
    BY <2>1, <2>2, <2>3, CleanupKeeps
<1>4. CASE RecordDeletion(d) \/ FinishRemoval(d)
  <2>1. /\ cleaner # None /\ UNCHANGED <<ledger, sessions>> /\ blobs' = blobs
        /\ UNCHANGED <<cleaner, index>> \/ cleaner' = None
    BY <1>4, UpdateAssumption DEF RecordDeletion, FinishRemoval
  <2> QED
    BY <2>1, CleanupKeeps
<1> QED
  BY <1>1, <1>2, <1>3, <1>4 DEF CleanerStep

\* Every step preserves the invariant.
LEMMA KeepNext == IInv /\ KeepInv /\ [Next]_vars => KeepInv'
<1> SUFFICES ASSUME IInv, KeepInv, [Next]_vars PROVE KeepInv'
  OBVIOUS
<1>1. CASE \E p \in Publishers : PublisherStep(p)
  BY <1>1, PublisherKeeps
<1>2. CASE \E d \in Removals : CleanerStep(d)
  BY <1>2, CleanerKeeps
<1>3. CASE CrashRemoval
  BY <1>3, CleanupKeeps DEF CrashRemoval
<1>4. CASE UNCHANGED vars
  <2> USE <1>4 DEF vars, ledger, sessions, cleanup
  <2>1. /\ LinkInv'
        /\ \A r : Held(r) => Held(r)'
        /\ \A u \in Units : Publishable(u) => Publishable(u)'
        /\ Frontier({})' = Frontier({})
    BY SameLedger DEF KeepInv, Frontier, Available
  <2>2. ClosedInv' /\ StartedInv'
    BY DEF KeepInv, ClosedInv, Closed, StartedInv
  <2>3. HeadInv'
    BY DEF KeepInv, HeadInv, Held, Firm, Linked, Available
  <2>4. FusedInv'
    <3>1. ASSUME NEW p \in Publishers, phase[p] \in {"prepared", "staged"}, work[p] \in Fused
          PROVE  Publishable(work[p])'
      <4>1. PICK u \in Units : u = work[p] /\ Publishable(u)
        BY <3>1, UnitAssumption DEF KeepInv, FusedInv
      <4>2. Publishable(u)'
        BY <2>1, <4>1
      <4> QED
        BY <4>1, <4>2 DEF Publishable
    <3> QED
      BY <3>1 DEF FusedInv
  <2>5. RecoveryProtected'
    <3>1. ASSUME NEW u \in Fused, u \in Frontier({})
          PROVE  JBlob[u] \in blobs' /\ Publishable(u)'
      BY <2>1, <3>1, UnitAssumption DEF KeepInv, RecoveryProtected, Publishable
    <3> QED
      BY <2>1, <3>1 DEF RecoveryProtected, Publishable
  <2>6. IndexInv'
    BY <2>1 DEF KeepInv, IndexInv
  <2> QED
    BY <2>1, <2>2, <2>3, <2>4, <2>5, <2>6 DEF KeepInv
<1> QED
  BY <1>1, <1>2, <1>3, <1>4 DEF Next

\* The invariant holds in every reachable state.
LEMMA Kept == Spec => []KeepInv
BY KeepInit, KeepNext, Invariance, PTL DEF Spec

-----------------------------------------------------------------------------
(* The theorems                                                             *)

\* Whatever is published, moved, removed or resumed, everything a dataset's current
\* target needs stays available through the representations now preferred.
THEOREM HeadsStayComplete == Spec => []HeadIntact
<1>1. KeepInv => HeadIntact
  <2> SUFFICES ASSUME KeepInv, NEW d \in Datasets, heads[d] # None
               PROVE  Intact({heads[d]})
    BY DEF HeadIntact
  <2>1. PICK C \in SUBSET Available : heads[d] \in C /\ Firm(C)
    BY DEF KeepInv, HeadInv, Held
  <2> QED
    BY <2>1 DEF Firm, Intact
<1> QED
  BY <1>1, Kept, PTL

\* The journal of an operation produced in the session that journaled it can be
\* published until its result is retained or its execution removed.  (One produced in an
\* earlier session than its journal has no such guarantee: see RemovalFinishes.)
THEOREM RecoveryKept == Spec => []RecoveryProtected
<1>1. KeepInv => RecoveryProtected
  BY DEF KeepInv
<1> QED
  BY <1>1, Kept, PTL
=============================================================================
