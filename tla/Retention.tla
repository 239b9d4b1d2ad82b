------------------------------ MODULE Retention ------------------------------
(***************************************************************************)
(* Retained records, the content they need, and who may remove it.         *)
(*                                                                         *)
(* Publishers open sessions (application/core_publication.py), put bytes   *)
(* in the blob store, compute the exact retention closure of a unit and    *)
(* commit it to the ledger (adapters/storage/ledger.py).  Operations       *)
(* journal a finished unit before they publish it, so that another process *)
(* can recover it (application/core_execution.py).  Maintenance            *)
(* (application/core_maintenance.py) moves dataset heads and removes       *)
(* records and bytes under a policy, resumably.  A shared/exclusive file   *)
(* lock, the content guard, separates publishers from cleanup.             *)
(*                                                                         *)
(* This is the ledger configured without a record store: entity values are *)
(* inline in its rows.  A record is immutable, so what it needs is a       *)
(* constant; the one edge that moves is a state's preferred                *)
(* representation.                                                         *)
(***************************************************************************)
EXTENDS Naturals, FiniteSets

CONSTANTS
    Records,     \* record keys (kind, identity)
    Blobs,       \* locators of the content-addressed blob store
    Units,       \* identities of publication units
    Publishers,  \* processes or threads that open publication sessions
    Selects,     \* update identities of select_current calls
    Removals,    \* update identities of remove_under_policy calls
    Datasets,    \* named heads
    Needs,       \* record -> records it requires in full
    Names,       \* record -> records it requires as descriptions only
    Content,     \* record -> blobs its value is in
    RepsOf,      \* record -> its representations (none unless it is a state)
    Inline,      \* representations whose membership is a list in the row
    In,          \* unit -> records of the batch
    Roots,       \* unit -> records the batch asks to retain
    Operations,  \* units that are operation publications
    Fused,       \* operations prepared and published in one session
    Exec,        \* operation -> execution record
    Res,         \* operation -> result record
    JBlob,       \* operation -> blob of its journal
    Args,        \* select -> [dataset, target, expected]
    Scope,       \* removal -> records the policy removes
    Orphans,     \* removal -> blobs named explicitly as orphans
    None

States == {s \in Records : RepsOf[s] # {}}
Reps == UNION {RepsOf[s] : s \in States}
Results == {Res[o] : o \in Operations}

ASSUME GraphAssumption ==
    /\ Needs \in [Records -> SUBSET Records]
    /\ Names \in [Records -> SUBSET Records]
    /\ Content \in [Records -> SUBSET Blobs]
    /\ RepsOf \in [Records -> SUBSET Records]
    /\ Inline \subseteq Records

\* Only records without content are ever required as a mere description
\* (results, executions, requests, definitions and base states).
ASSUME DescriptionAssumption ==
    \A r \in Records : \A t \in Names[r] : Content[t] = {}

ASSUME UnitAssumption ==
    /\ In \in [Units -> SUBSET Records]
    /\ Roots \in [Units -> SUBSET Records]
    /\ Operations \subseteq Units
    /\ Fused \subseteq Operations
    /\ Exec \in [Operations -> Records]
    /\ Res \in [Operations -> Records]
    /\ JBlob \in [Operations -> Blobs]

\* An execution identity is minted for one attempt: no unit carries its record
\* and no other attempt has it.  Its value is in its row.
ASSUME ExecutionAssumption ==
    /\ \A o \in Operations : Content[Exec[o]] = {}
    /\ \A o \in Operations : \A u \in Units : Exec[o] \notin In[u]
    /\ \A o1, o2 \in Operations : Exec[o1] = Exec[o2] => o1 = o2

\* What the kinds of records are.  A state is in full only through one of its
\* representations, which requires that state, member entities and a revision:
\* records that require nothing in full themselves.  Nothing names a representation.
ASSUME KindAssumption ==
    /\ \A s \in States :
         /\ Needs[s] = {}
         /\ \A p \in RepsOf[s] :
              /\ s \in Needs[p]
              /\ \A r \in Needs[p] \ {s} : r \notin States \cup Results /\ Needs[r] = {}
    /\ \A r \in Records : Names[r] \cap Reps = {}
    /\ Reps \cap (States \cup Results) = {}
    /\ \A o \in Operations : Exec[o] \notin States \cup Reps \cup Results

\* A dataset's head is a state or a result.
ASSUME TargetAssumption == \A q \in Selects : Args[q].target \in States \cup Results

ASSUME UpdateAssumption ==
    /\ Args \in [Selects -> [dataset : Datasets, target : Records,
                             expected : Records \cup {None}]]
    /\ Scope \in [Removals -> SUBSET Records]
    /\ Orphans \in [Removals -> SUBSET Blobs]
    /\ None \notin Records \cup Blobs \cup Units \cup Selects \cup Removals

VARIABLES
    blobs,      \* blobs physically present
    retention,  \* record -> "none" | "available" | "unavailable"
    version,    \* record -> evidence version of its retention row
    links,      \* "requires" links, owner to target
    preferred,  \* state -> its linked representation, or None
    receipt,    \* unit -> what its committed row digests, or None
    journal,    \* operations with a publication entry in their progress
    heads,      \* dataset -> current target, or None
    selected,   \* committed select_current updates
    removal,    \* removal -> "none" | "begun" | "complete"
    outcome,    \* removal -> blob -> status of its removal_content row
    shared,     \* holders of the shared content guard
    cleaner,    \* holder of the exclusive content guard, or None
    phase,      \* publisher -> where its session stands
    work,       \* publisher -> the unit or select it works on
    prepared,   \* operations whose producer finished in some session
    ready,      \* publisher -> blobs its session knows to be retained
    check,      \* publisher -> result of its last publication check
    index,      \* blobs the cleaner's physical index protects
    deleted     \* blob the cleaner unlinked but has not recorded, or None

ledger == <<retention, version, links, preferred, receipt, journal, heads, selected>>
removals == <<removal, outcome>>
sessions == <<shared, phase, work, prepared, ready, check>>
cleanup == <<cleaner, index, deleted>>
vars == <<blobs, ledger, removals, sessions, cleanup>>

Available == {r \in Records : retention[r] = "available"}

-----------------------------------------------------------------------------
(* The retention closure of a batch                                         *)

\* The least set that holds r and follows the edges E.
Closure(E, r) ==
    {t \in Records : \A C \in SUBSET Records :
        (r \in C /\ \A o \in C : E[o] \subseteq C) => t \in C}

\* A choice of one representation for each state a batch retains in full.
Choosings == [States -> Reps \cup {None}]

\* Full requirement edges once the representations are chosen.
FullEdges(choice) ==
    [r \in Records |-> Needs[r] \cup (IF r \in States THEN {choice[r]} ELSE {})]

\* The same set, which TLC then computes once.
Listed(S) == {e : e \in S}

\* A choice, a record, and a record it then requires in full.
Obliges == Listed({e \in Choosings \X Records \X Records :
                       e[3] \in Closure(FullEdges(e[1]), e[2])})

Describes == Listed({e \in Records \X Records : e[2] \in Closure(Names, e[1])})

FullSet(choice, roots) == {t \in Records : \E r \in roots : <<choice, r, t>> \in Obliges}

\* Everything the unit retains: its full obligations and what those describe.
RequiredSet(full) ==
    full \cup {t \in Records : \E o \in full : \E r \in Names[o] : <<r, t>> \in Describes}

\* Representations of s that a check of this batch has loaded.
Choices(incoming, roots, s) ==
    RepsOf[s] \cap (incoming \cup roots \cup {preferred[s]})

\* The representations a batch may prefer: its own, else an available one.
\* When only reclaimed external representations are known, none restores it.
Eligible(incoming, roots, s) ==
    LET choices == Choices(incoming, roots, s)
        stored  == {r \in choices : retention[r] # "none"}
        known   == {r \in stored : r \in incoming \cup Available \cup Inline}
        own     == choices \cap incoming
    IN  IF stored # {} /\ known = {} THEN {}
        ELSE IF own # {} THEN own ELSE choices \cap Available

\* Every choice of representations for the states among the full obligations.  A
\* result that is only described must have been retained before.
Checked(incoming, roots) ==
    {choice \in Choosings :
        LET full == FullSet(choice, roots) IN
        /\ \A s \in States :
             IF s \in full
             THEN choice[s] \in Eligible(incoming, roots, s)
             ELSE choice[s] = None
        /\ \A r \in (RequiredSet(full) \ full) \cap Results : retention[r] # "none"}

\* The whole obligation of a retained root is available and its content present.
Valid(incoming, roots) ==
    \E choice \in Checked(incoming, roots) :
        LET full == FullSet(choice, roots)
        IN  /\ RequiredSet(full) \ incoming \subseteq Available
            /\ \A r \in full : Content[r] \subseteq blobs

NewLinks(full) == {e \in full \X full : e[2] \in Needs[e[1]]}

-----------------------------------------------------------------------------
(* The content guard                                                        *)

Idle(p) == phase[p] = "idle"

\* publisher.session(): a shared, non-blocking file lock.
Enter(p, what, where) ==
    /\ Idle(p)
    /\ cleaner = None
    /\ shared' = shared \cup {p}
    /\ phase' = [phase EXCEPT ![p] = where]
    /\ work' = [work EXCEPT ![p] = what]

NoCheck == [full |-> {}, required |-> {}, seen |-> [r \in Records |-> 0],
            choice |-> [s \in States |-> None]]

\* The session ends: it is done, an exception left it, or its process died and
\* the kernel dropped its lock.  Nothing it knew survives.
EndSession(p) ==
    /\ ~Idle(p)
    /\ shared' = shared \ {p}
    /\ phase' = [phase EXCEPT ![p] = "idle"]
    /\ work' = [work EXCEPT ![p] = None]
    /\ ready' = [ready EXCEPT ![p] = {}]
    /\ check' = [check EXCEPT ![p] = NoCheck]
    /\ UNCHANGED <<blobs, ledger, removals, prepared, cleanup>>

-----------------------------------------------------------------------------
(* Publication                                                              *)

OpenSession(p, u) ==
    /\ Enter(p, u, "open")
    /\ UNCHANGED <<blobs, ledger, removals, ready, check, prepared, cleanup>>

\* retain_bytes: put_if_absent, and the session knows the bytes are ready.
RetainBytes(p, b) ==
    /\ phase[p] \in {"open", "started"}
    /\ b \in UNION {Content[r] : r \in In[work[p]]} \ ready[p]
    /\ blobs' = blobs \cup {b}
    /\ ready' = [ready EXCEPT ![p] = @ \cup {b}]
    /\ UNCHANGED <<ledger, removals, shared, phase, work, check, prepared, cleanup>>

\* prepare: the start unit retains the fresh execution.
StartOperation(p) ==
    /\ phase[p] = "open"
    /\ work[p] \in Operations
    /\ retention[Exec[work[p]]] = "none"
    /\ retention' = [retention EXCEPT ![Exec[work[p]]] = "available"]
    /\ phase' = [phase EXCEPT ![p] = "started"]
    /\ UNCHANGED <<blobs, version, links, preferred, receipt, journal, heads,
                   selected, removals, shared, work, ready, check, prepared, cleanup>>

\* _perform: the producer finished.  It retained the bytes of its outputs and read
\* the inputs it is bound to in this session; its outputs are still in memory.
FinishProducer(p) ==
    LET u == work[p] IN
    /\ phase[p] = "started"
    /\ UNION {Content[r] : r \in In[u]} \subseteq ready[p]
    /\ Valid(In[u], Roots[u])
    /\ prepared' = prepared \cup {u}
    /\ phase' = [phase EXCEPT ![p] = "prepared"]
    /\ UNCHANGED <<blobs, ledger, removals, shared, work, ready, check, cleanup>>

\* operations.publish: the outputs are staged and the journal document retained.
\* A prepared operation may be published from a later session than it ran in.
RetainJournal(p) ==
    LET u == work[p] IN
    /\ \/ phase[p] = "prepared"
       \/ phase[p] = "open" /\ u \in prepared \ Fused
    /\ u \notin journal
    /\ blobs' = blobs \cup {JBlob[u]}
    /\ ready' = [ready EXCEPT ![p] = @ \cup {JBlob[u]}]
    /\ phase' = [phase EXCEPT ![p] = "staged"]
    /\ UNCHANGED <<ledger, removals, shared, work, prepared, check, cleanup>>

\* The progress entry that makes the journal a recovery frontier.
RecordJournal(p) ==
    /\ phase[p] = "staged"
    /\ journal' = journal \cup {work[p]}
    /\ phase' = [phase EXCEPT ![p] = "journaled"]
    /\ UNCHANGED <<blobs, retention, version, links, preferred, receipt, heads,
                   selected, removals, shared, work, ready, check, prepared, cleanup>>

\* recover: no retained result yet, so the journal is read and published.
Recover(p, u) ==
    /\ u \in journal
    /\ retention[Res[u]] = "none"
    /\ JBlob[u] \in blobs
    /\ Enter(p, u, "journaled")
    /\ UNCHANGED <<blobs, ledger, removals, ready, check, prepared, cleanup>>

\* _PublicationCheck.publish up to the commit: the closure, the versions it was
\* computed against, and the content of every full obligation.
CheckPublication(p) ==
    LET u == work[p] IN
    /\ IF u \in Operations THEN phase[p] = "journaled" ELSE phase[p] = "open"
    /\ \E choice \in Checked(In[u], Roots[u]) :
         LET full == FullSet(choice, Roots[u])
             required == RequiredSet(full)
         IN /\ \A r \in required \ In[u] : retention[r] # "none"
            /\ receipt[u] = None =>
                 \A r \in full : Content[r] \subseteq ready[p] \cup blobs
            /\ ready' = [ready EXCEPT ![p] = @ \cup
                 IF receipt[u] = None THEN UNION {Content[r] : r \in full} ELSE {}]
            /\ check' = [check EXCEPT ![p] =
                 [full |-> full, required |-> required, seen |-> version,
                  choice |-> choice]]
    /\ phase' = [phase EXCEPT ![p] = "checked"]
    /\ UNCHANGED <<blobs, ledger, removals, shared, work, prepared, cleanup>>

\* What a unit's row digests: the retained keys and the links.
Receipts == [required : SUBSET Records, links : SUBSET (Records \X Records), choice : Choosings]

ASSUME ReceiptAssumption == None \notin Receipts

Receipt(c) == [required |-> c.required, links |-> NewLinks(c.full), choice |-> c.choice]

\* Mutant: a restored row keeps the version that its removal left.
RetainUnversioned(required) ==
    /\ retention' = [r \in Records |-> IF r \in required THEN "available" ELSE retention[r]]
    /\ UNCHANGED version

\* The retention rows after the unit: a reclaimed row becomes available again
\* under a new version.
Retain(required) ==
    /\ retention' = [r \in Records |-> IF r \in required THEN "available" ELSE retention[r]]
    /\ version' = [r \in Records |->
         IF r \in required /\ retention[r] = "unavailable" THEN version[r] + 1 ELSE version[r]]

\* The preferred representation moves; older ones keep their rows and content.
Prefer(choice) ==
    preferred' = [s \in States |-> IF choice[s] # None THEN choice[s] ELSE preferred[s]]

\* Every existing obligation is available at the version the check read.
Fresh(u, c) ==
    \A r \in c.required \ In[u] : retention[r] = "available" /\ version[r] = c.seen[r]

\* Mutant: the unit's own row is not looked up, so a retry applies it again.
CommitAgain(p) ==
    LET u == work[p]
        c == check[p]
    IN
    /\ phase[p] = "checked"
    /\ Fresh(u, c)
    /\ Retain(c.required)
    /\ Prefer(c.choice)
    /\ links' = links \cup NewLinks(c.full)
    /\ receipt' = [receipt EXCEPT ![u] = Receipt(c)]
    /\ phase' = [phase EXCEPT ![p] = "done"]
    /\ UNCHANGED <<blobs, journal, heads, selected, removals, shared, work, ready,
                   check, prepared, cleanup>>

\* ledger.commit, one write transaction.
Commit(p) ==
    LET u == work[p]
        c == check[p]
    IN
    /\ phase[p] = "checked"
    /\ receipt[u] = None
    /\ Fresh(u, c)
    /\ Retain(c.required)
    /\ Prefer(c.choice)
    /\ links' = links \cup NewLinks(c.full)
    /\ receipt' = [receipt EXCEPT ![u] = Receipt(c)]
    /\ phase' = [phase EXCEPT ![p] = "done"]
    /\ UNCHANGED <<blobs, journal, heads, selected, removals, shared, work, ready,
                   check, prepared, cleanup>>

\* The unit was committed before: an identical retry returns False, one whose
\* closure differs is refused as a conflicting update identity.
Retry(p) ==
    LET u == work[p] IN
    /\ phase[p] = "checked"
    /\ receipt[u] # None
    /\ phase' = [phase EXCEPT ![p] =
         IF receipt[u] = Receipt(check[p]) THEN "done" ELSE "conflict"]
    /\ UNCHANGED <<blobs, ledger, removals, shared, work, ready, check, prepared, cleanup>>

-----------------------------------------------------------------------------
(* Current selection                                                        *)

\* maintenance.select_current: validated in a session unless it is a retry.
ValidateTarget(p, q) ==
    /\ Enter(p, q, "validated")
    /\ q \notin selected => Valid({}, {Args[q].target})
    /\ UNCHANGED <<blobs, ledger, removals, ready, check, prepared, cleanup>>

\* ledger.select_current: compare and set, refusing a stale expectation.
SelectCurrent(p) ==
    LET q == work[p]
        a == Args[q]
    IN
    /\ phase[p] = "validated"
    /\ \/ q \in selected /\ UNCHANGED <<heads, selected>>
       \/ /\ q \notin selected
          /\ heads[a.dataset] = a.expected
          /\ a.target \in Available
          /\ heads' = [heads EXCEPT ![a.dataset] = a.target]
          /\ selected' = selected \cup {q}
    /\ phase' = [phase EXCEPT ![p] = "done"]
    /\ UNCHANGED <<blobs, retention, version, links, preferred, receipt, journal,
                   removals, shared, work, ready, check, prepared, cleanup>>

-----------------------------------------------------------------------------
(* Removal under a policy                                                   *)

\* recovery_progress: journaled, its execution available and outside the scope,
\* and its result never retained.  (Checkpoints, the other kind of frontier, are the
\* subject of Operations; their records are retained by a unit of their own.)
Frontier(scope) ==
    {u \in journal : /\ Exec[u] \in Available \ scope
                     /\ retention[Res[u]] = "none"}

\* Mutant: only "requires" links block, not a state's representation.
BlockedByRequires(scope) ==
    \/ \E d \in Datasets : heads[d] \in scope
    \/ \E o \in Available \ scope : \E t \in scope : <<o, t>> \in links

\* removal_blockers: a head, or a commitment outside the scope.
Blocked(scope) ==
    \/ \E d \in Datasets : heads[d] \in scope
    \/ \E o \in Available \ scope :
         \/ \E t \in scope : <<o, t>> \in links
         \/ o \in States /\ preferred[o] \in scope

\* A retained inline membership outside the scope names a member inside it.
MembershipBlocked(scope) ==
    \E o \in (Available \cap Inline) \ scope : (Needs[o] \ States) \cap scope # {}

\* Mutant: what a recoverable operation requires is not compared with the scope.
RecoveryValidAnyScope(scope) ==
    \A u \in Frontier(scope) : JBlob[u] \in blobs /\ Valid(In[u], Roots[u])

\* A recoverable operation must still validate, and need nothing in the scope.
RecoveryValid(scope) ==
    \A u \in Frontier(scope) :
        /\ JBlob[u] \in blobs
        /\ \E choice \in Checked(In[u], Roots[u]) :
             LET full == FullSet(choice, Roots[u])
                 required == RequiredSet(full)
             IN /\ required \ In[u] \subseteq Available
                /\ \A r \in full : Content[r] \subseteq blobs
                /\ required \cap scope = {}

\* _inventory: what retained records outside the scope and recoverable journals own.
Protected(scope) ==
    UNION ({Content[r] : r \in Available \ scope}
           \cup {{JBlob[u]} : u \in Frontier(scope)}
           \cup {UNION {Content[r] : r \in In[u]} : u \in Frontier(scope)})

\* The bytes a removal plans to delete; shared ones are kept when their turn comes.
Candidates(scope, orphans) ==
    UNION {Content[r] : r \in Available \cap scope} \cup orphans

\* Mutant: cleanup excludes only other cleanup.
GuardFreeOfCleanup == cleaner = None

GuardFree == shared = {} /\ cleaner = None

\* remove_under_policy of a new update: plan under the exclusive guard, then
\* record the intent and make the targets unavailable in one transaction.
BeginRemoval(d) ==
    LET scope == Scope[d] IN
    /\ GuardFree
    /\ removal[d] = "none"
    /\ \A r \in scope : retention[r] # "none"
    /\ ~Blocked(scope)
    /\ ~MembershipBlocked(scope)
    /\ RecoveryValid(scope)
    /\ Orphans[d] \cap Protected(scope) = {}
    /\ Candidates(scope, Orphans[d]) \cup scope # {}
    /\ cleaner' = d
    /\ index' = Protected(scope)
    /\ removal' = [removal EXCEPT ![d] = "begun"]
    /\ outcome' = [outcome EXCEPT ![d] = [b \in Blobs |->
         IF b \in Candidates(scope, Orphans[d]) THEN "pending" ELSE "none"]]
    /\ retention' = [r \in Records |->
         IF r \in scope \cap Available THEN "unavailable" ELSE retention[r]]
    /\ version' = [r \in Records |->
         IF r \in scope \cap Available THEN version[r] + 1 ELSE version[r]]
    /\ UNCHANGED <<blobs, links, preferred, receipt, journal, heads, selected,
                   sessions, deleted>>

\* resume: the targets are unavailable already, so nothing is excluded.
ResumeRemoval(d) ==
    /\ GuardFree
    /\ removal[d] = "begun"
    /\ RecoveryValid({})
    /\ cleaner' = d
    /\ index' = Protected({})
    /\ UNCHANGED <<blobs, ledger, removals, sessions, deleted>>

Unfinished(d) == {b \in Blobs : outcome[d][b] \in {"pending", "failed"}}

\* Mutant: kept content is skipped without an outcome.
KeepContentSilently(d, b) ==
    /\ cleaner = d
    /\ deleted = None
    /\ b \in Unfinished(d) \cap index
    /\ UNCHANGED vars

\* A protected blob is kept.
KeepContent(d, b) ==
    /\ cleaner = d
    /\ deleted = None
    /\ b \in Unfinished(d) \cap index
    /\ outcome' = [outcome EXCEPT ![d][b] = "retained"]
    /\ UNCHANGED <<blobs, ledger, removal, sessions, cleanup>>

\* Mutant: shared content is deleted with its target.
DeleteShared(d, b) ==
    /\ cleaner = d
    /\ deleted = None
    /\ b \in Unfinished(d)
    /\ IF b \in blobs
       THEN deleted' = b /\ blobs' = blobs \ {b} /\ UNCHANGED outcome
       ELSE outcome' = [outcome EXCEPT ![d][b] = "absent"] /\ UNCHANGED <<blobs, deleted>>
    /\ UNCHANGED <<ledger, removal, sessions, cleaner, index>>

\* An unprotected one is unlinked, if it is still there.
DeleteContent(d, b) ==
    /\ cleaner = d
    /\ deleted = None
    /\ b \in Unfinished(d) \ index
    /\ IF b \in blobs
       THEN deleted' = b /\ blobs' = blobs \ {b} /\ UNCHANGED outcome
       ELSE outcome' = [outcome EXCEPT ![d][b] = "absent"] /\ UNCHANGED <<blobs, deleted>>
    /\ UNCHANGED <<ledger, removal, sessions, cleaner, index>>

RecordDeletion(d) ==
    /\ cleaner = d
    /\ deleted # None
    /\ outcome' = [outcome EXCEPT ![d][deleted] = "deleted"]
    /\ deleted' = None
    /\ UNCHANGED <<blobs, ledger, removal, sessions, cleaner, index>>

\* The store refuses the deletion: the outcome is recorded and the error leaves
\* the guarded scope.
FailDeletion(d, b) ==
    /\ cleaner = d
    /\ deleted = None
    /\ b \in Unfinished(d) \ index
    /\ outcome' = [outcome EXCEPT ![d][b] = "failed"]
    /\ cleaner' = None
    /\ index' = {}
    /\ UNCHANGED <<blobs, ledger, removal, sessions, deleted>>

FinishRemoval(d) ==
    /\ cleaner = d
    /\ deleted = None
    /\ Unfinished(d) = {}
    /\ removal' = [removal EXCEPT ![d] = "complete"]
    /\ cleaner' = None
    /\ index' = {}
    /\ UNCHANGED <<blobs, ledger, outcome, sessions, deleted>>

\* The cleaning process dies; a deletion it had not recorded stays pending.
CrashRemoval ==
    /\ cleaner # None
    /\ cleaner' = None
    /\ index' = {}
    /\ deleted' = None
    /\ UNCHANGED <<blobs, ledger, removals, sessions>>

-----------------------------------------------------------------------------

Init ==
    /\ blobs = {}
    /\ retention = [r \in Records |-> "none"]
    /\ version = [r \in Records |-> 0]
    /\ links = {}
    /\ preferred = [s \in States |-> None]
    /\ receipt = [u \in Units |-> None]
    /\ journal = {}
    /\ heads = [d \in Datasets |-> None]
    /\ selected = {}
    /\ removal = [d \in Removals |-> "none"]
    /\ outcome = [d \in Removals |-> [b \in Blobs |-> "none"]]
    /\ shared = {}
    /\ cleaner = None
    /\ phase = [p \in Publishers |-> "idle"]
    /\ work = [p \in Publishers |-> None]
    /\ prepared = {}
    /\ ready = [p \in Publishers |-> {}]
    /\ check = [p \in Publishers |-> NoCheck]
    /\ index = {}
    /\ deleted = None

PublisherStep(p) ==
    \/ \E u \in Units : OpenSession(p, u)
    \/ \E b \in Blobs : RetainBytes(p, b)
    \/ StartOperation(p)
    \/ FinishProducer(p)
    \/ RetainJournal(p)
    \/ RecordJournal(p)
    \/ \E u \in Operations : Recover(p, u)
    \/ CheckPublication(p)
    \/ Commit(p)
    \/ Retry(p)
    \/ \E q \in Selects : ValidateTarget(p, q)
    \/ SelectCurrent(p)
    \/ EndSession(p)

CleanerStep(d) ==
    \/ BeginRemoval(d)
    \/ ResumeRemoval(d)
    \/ \E b \in Blobs : KeepContent(d, b) \/ DeleteContent(d, b) \/ FailDeletion(d, b)
    \/ RecordDeletion(d)
    \/ FinishRemoval(d)

Next ==
    \/ \E p \in Publishers : PublisherStep(p)
    \/ \E d \in Removals : CleanerStep(d)
    \/ CrashRemoval

Spec == Init /\ [][Next]_vars

-----------------------------------------------------------------------------
(* Properties                                                               *)

Phases == {"idle", "open", "started", "prepared", "staged", "journaled", "checked", "done",
           "conflict", "validated"}

CheckType == [full : SUBSET Records, required : SUBSET Records,
              seen : [Records -> Nat], choice : [States -> Reps \cup {None}]]

\* The tables, the guard and the sessions of the code keep their types: a retention
\* status, an outcome or a phase the code does not know is never stored.
TypeOK ==
    /\ blobs \subseteq Blobs
    /\ retention \in [Records -> {"none", "available", "unavailable"}]
    /\ version \in [Records -> Nat]
    /\ links \subseteq Records \X Records
    /\ preferred \in [States -> Reps \cup {None}]
    /\ receipt \in [Units -> Receipts \cup {None}]
    /\ journal \subseteq Operations
    /\ heads \in [Datasets -> Records \cup {None}]
    /\ selected \subseteq Selects
    /\ removal \in [Removals -> {"none", "begun", "complete"}]
    /\ outcome \in [Removals -> [Blobs -> {"none", "pending", "deleted", "absent",
                                           "retained", "failed"}]]
    /\ shared \subseteq Publishers
    /\ cleaner \in Removals \cup {None}
    /\ phase \in [Publishers -> Phases]
    /\ work \in [Publishers -> Units \cup Selects \cup {None}]
    /\ prepared \subseteq Operations
    /\ ready \in [Publishers -> SUBSET Blobs]
    /\ check \in [Publishers -> CheckType]
    /\ index \subseteq Blobs
    /\ deleted \in Blobs \cup {None}

\* Content named by an available record is in the store, whatever publications,
\* removals, crashes and resumed removals came before.
ContentPresent == \A r \in Available : Content[r] \subseteq blobs

\* A session never rechecks bytes it has found ready; they stay until it ends.
ReadyPresent == \A p \in Publishers : ready[p] \subseteq blobs

\* The obligations of S are all available through the preferred representations.
Intact(S) ==
    \E C \in SUBSET Available :
        /\ S \subseteq C
        /\ \A r \in C : Needs[r] \subseteq C /\ (r \in States => preferred[r] \in C)

\* A dataset's current target stays complete: no removal takes a record it needs.
HeadIntact == \A d \in Datasets : heads[d] # None => Intact({heads[d]})

\* The unit's whole obligation could be retained as things are.
Publishable(u) == Valid(In[u], Roots[u])

\* A journaled operation that was produced in one session stays publishable until
\* its result is retained or its execution is removed: its journal, its outputs'
\* bytes and its inputs remain.
RecoveryProtected ==
    \A u \in Fused \cap Frontier({}) :
        JBlob[u] \in blobs /\ Publishable(u)

\* Repeating a committed publication unit is never refused.
RetryAccepted == \A p \in Publishers : phase[p] # "conflict"

\* A record whose availability changes gets a higher version, so no check that
\* read it before can commit against it afterwards; history is never erased.
AvailabilityVersioned ==
    [][\A r \in Records : retention[r] # "none" =>
         /\ retention'[r] # "none"
         /\ version'[r] >= version[r]
         /\ retention'[r] # retention[r] => version'[r] > version[r]]_vars

\* Only a unit never committed before brings removed records back: a retried
\* publication does not resurrect what a policy removed.
NoResurrection ==
    [][(\E r \in Records : retention[r] = "unavailable" /\ retention'[r] = "available")
         => \E u \in Units : receipt[u] = None /\ receipt'[u] # None]_vars

-----------------------------------------------------------------------------
(* Liveness.  Sessions end; an operator who keeps resuming an interrupted    *)
(* removal gets past crashes and store errors that do not repeat forever.    *)

Advance(d) ==
    \/ \E b \in Blobs : KeepContent(d, b) \/ DeleteContent(d, b)
    \/ FinishRemoval(d)

Fairness ==
    /\ \A p \in Publishers : WF_vars(EndSession(p))
    /\ \A d \in Removals :
         SF_vars(ResumeRemoval(d)) /\ SF_vars(Advance(d)) /\ SF_vars(RecordDeletion(d))

FairSpec == Spec /\ Fairness

\* Journals recorded in a later session than their producer ran in.  A removal may
\* have begun between the two, and then took what they need: every resumption of any
\* removal is refused until a unit restores it or a policy removes the execution.
Split == Frontier({}) \ Fused

\* An authorised removal that began is eventually complete, unless such a journal stays
\* unpublishable for ever; operations journaled in the session of their producer never
\* stop one.
RemovalFinishes ==
    \A d \in Removals :
        []<>(\A u \in Split : Publishable(u)) => (removal[d] = "begun" ~> removal[d] = "complete")
=============================================================================
