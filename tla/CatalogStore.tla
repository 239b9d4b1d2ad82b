----------------------------- MODULE CatalogStore -----------------------------
(***************************************************************************)
(* Immutable source catalogs, the blobs they share, and the current one.   *)
(*                                                                         *)
(* A build stages payload blobs and an artifact root beside the store      *)
(* (adapters/source_catalog_store/staging.py), links the blobs into the    *)
(* store's content-addressed directory, syncs it, and renames the root     *)
(* into place.  Builds run concurrently: in the store of a workspace, or   *)
(* each in a private store that a command renames to its destination       *)
(* (store.py) and that reuses blobs of a common directory.  The current    *)
(* catalog of a series is a pointer file, advanced by compare and swap     *)
(* under the series lock (current.py).                                     *)
(*                                                                         *)
(* Any process may die at any step.  For a power loss the model keeps the  *)
(* directory entries that a sync has made durable; file data is synced     *)
(* before a file gets its name.                                            *)
(***************************************************************************)
EXTENDS Naturals, FiniteSets

CONSTANTS
    Builders,    \* processes that build a catalog
    Advancers,   \* processes that advance the series pointer
    Artifacts,   \* artifact digests
    Blobs,       \* payload blob references
    Payload,     \* artifact -> blobs its partitions are in
    Supersedes,  \* artifact -> the artifact it succeeds, or None
    Main,        \* the store of the workspace, where the pointer's reader looks
    Private,     \* stores below one command's staging session
    Dest,        \* private store -> destination it is to be renamed to
    Common,      \* the common blob directory of private stores
    MaxBuilds,   \* bound on the builds ever started
    None

Stores == {Main} \cup Private
Places == Stores \cup {Common}

ASSUME CatalogAssumption ==
    /\ Payload \in [Artifacts -> SUBSET Blobs]
    /\ Supersedes \in [Artifacts -> Artifacts \cup {None}]
    /\ None \notin Artifacts \cup Places \cup Builders \cup Advancers
    /\ Main \notin Private
    /\ Common \notin Stores
    /\ MaxBuilds \in Nat

VARIABLES
    linked,    \* place -> blobs named in its sha256 directory
    synced,    \* place -> those whose names a power loss cannot take back
    roots,     \* store -> artifacts renamed into it
    status,    \* private store -> "unused" | "private" | "published" | "removed"
    session,   \* builder -> its staging transaction
    builds,    \* builds started so far
    pointer,   \* the series pointer file: [cat, prev], both None without a file
    lock,      \* advancer that holds the series lock, or None
    advance    \* advancer -> its call of advance

files == <<linked, synced, roots, status>>
vars == <<files, session, builds, pointer, lock, advance>>

NoSession == [pc |-> "idle", store |-> None, art |-> None,
              done |-> {}, staged |-> {}, todo |-> {}]

NoCall == [pc |-> "idle", cand |-> None, expected |-> None, seen |-> None]

-----------------------------------------------------------------------------
(* Building a catalog                                                       *)

\* The directories that receive the blobs of a build into s.
Targets(s) == IF s \in Private THEN {s, Common} ELSE {s}

\* A destination is never replaced: the command looks before it stages.
DestinationFree(s) ==
    \A t \in Private : Dest[t] = Dest[s] => status[t] # "published"

\* stage: a new randomly named session, for a command below a new private store.
Stage(b, s, a) ==
    /\ session[b].pc = "idle"
    /\ builds < MaxBuilds
    /\ builds' = builds + 1
    /\ IF s \in Private
       THEN /\ status[s] = "unused"
            /\ DestinationFree(s)
            /\ status' = [status EXCEPT ![s] = "private"]
       ELSE UNCHANGED status
    /\ session' = [session EXCEPT ![b] =
         [pc |-> "staging", store |-> s, art |-> a, done |-> {}, staged |-> {}, todo |-> {}]]
    /\ UNCHANGED <<linked, synced, roots, pointer, lock, advance>>

\* put_blob: nothing to do for a blob the store has; otherwise the session gets
\* it, as a link to the common one or as a new synced file.
PutBlob(b, x) ==
    LET t == session[b] IN
    /\ t.pc = "staging"
    /\ x \in Payload[t.art] \ t.done
    /\ session' = [session EXCEPT
         ![b].done = @ \cup {x},
         ![b].staged = @ \cup (IF x \in linked[t.store] THEN {} ELSE {x})]
    /\ UNCHANGED <<files, builds, pointer, lock, advance>>

\* The build gate reads every payload back, staged or published; commit follows.
Gate(b) ==
    LET t == session[b] IN
    /\ t.pc = "staging"
    /\ t.done = Payload[t.art]
    /\ t.done \subseteq t.staged \cup linked[t.store]
    /\ session' = [session EXCEPT ![b].pc = "linking",
                                  ![b].todo = Targets(t.store) \X t.staged]
    /\ UNCHANGED <<files, builds, pointer, lock, advance>>

\* _publish_blob: an entry that is already there is verified and kept.
LinkBlob(b, p, x) ==
    LET t == session[b] IN
    /\ t.pc = "linking"
    /\ <<p, x>> \in t.todo
    /\ p # t.store => <<t.store, x>> \notin t.todo
    /\ linked' = [linked EXCEPT ![p] = @ \cup {x}]
    /\ session' = [session EXCEPT ![b].todo = @ \ {<<p, x>>}]
    /\ UNCHANGED <<synced, roots, status, builds, pointer, lock, advance>>

\* Mutant: only the common directory is synced.
SyncBlobsCommon(b) ==
    LET t == session[b] IN
    /\ t.pc = "linking"
    /\ t.todo = {}
    /\ synced' = [p \in Places |->
         IF t.staged # {} /\ p \in Targets(t.store) \ {t.store} THEN linked[p] ELSE synced[p]]
    /\ session' = [session EXCEPT ![b].pc = "linked"]
    /\ UNCHANGED <<linked, roots, status, builds, pointer, lock, advance>>

\* The sha256 directories are synced, unless the session staged no blob at all.
SyncBlobs(b) ==
    LET t == session[b] IN
    /\ t.pc = "linking"
    /\ t.todo = {}
    /\ synced' = [p \in Places |->
         IF t.staged # {} /\ p \in Targets(t.store) THEN linked[p] ELSE synced[p]]
    /\ session' = [session EXCEPT ![b].pc = "linked"]
    /\ UNCHANGED <<linked, roots, status, builds, pointer, lock, advance>>

\* The rename that makes the artifact visible; an existing one is not replaced.
PublishRoot(b) ==
    LET t == session[b] IN
    /\ t.pc = "linked"
    /\ t.art \notin roots[t.store]
    /\ roots' = [roots EXCEPT ![t.store] = @ \cup {t.art}]
    /\ session' = [session EXCEPT ![b].pc = "committed"]
    /\ UNCHANGED <<linked, synced, status, builds, pointer, lock, advance>>

\* publish: the private store becomes the destination, if there still is none.
PublishDestination(b) ==
    LET t == session[b] IN
    /\ t.pc = "committed"
    /\ t.store \in Private
    /\ status[t.store] = "private"
    /\ DestinationFree(t.store)
    /\ status' = [status EXCEPT ![t.store] = "published"]
    /\ UNCHANGED <<linked, synced, roots, session, builds, pointer, lock, advance>>

\* Mutant: a failed build takes the blobs back that it linked.
CloseSessionUnlinking(b) ==
    LET t == session[b] IN
    /\ t.pc # "idle"
    /\ linked' = [linked EXCEPT ![t.store] =
         IF t.pc \in {"linking", "linked"} THEN @ \ t.staged ELSE @]
    /\ session' = [session EXCEPT ![b] = NoSession]
    /\ UNCHANGED <<synced, roots, status, builds, pointer, lock, advance>>

\* The session ends, by return or exception, and its directory is cleaned.  A
\* private store goes with it unless it was published; common links stay.
CloseSession(b) ==
    LET s == session[b].store
        gone == {t \in Private : t = s /\ status[t] = "private"}
        Emptied(f) == [p \in DOMAIN f |-> IF p \in gone THEN {} ELSE f[p]]
    IN
    /\ session[b].pc # "idle"
    /\ linked' = Emptied(linked)
    /\ synced' = Emptied(synced)
    /\ roots' = Emptied(roots)
    /\ status' = [t \in Private |-> IF t \in gone THEN "removed" ELSE status[t]]
    /\ session' = [session EXCEPT ![b] = NoSession]
    /\ UNCHANGED <<builds, pointer, lock, advance>>

\* The build is killed: what it linked and renamed stays, the session is litter.
KillBuild(b) ==
    /\ session[b].pc # "idle"
    /\ session' = [session EXCEPT ![b] = NoSession]
    /\ UNCHANGED <<files, builds, pointer, lock, advance>>

-----------------------------------------------------------------------------
(* The current catalog of the series                                        *)

\* _admit: verify_snapshot finds the artifact and reads all of its payload.
Admitted(a) == a \in roots[Main] /\ Payload[a] \subseteq linked[Main]

\* _admitted_current: an initial root supersedes nothing, a successor supersedes
\* the predecessor the pointer names.
PointerAdmitted ==
    pointer.cat # None =>
        /\ Admitted(pointer.cat)
        /\ Supersedes[pointer.cat] = pointer.prev
        /\ pointer.prev # None => Admitted(pointer.prev)

\* advance admits the candidate before it takes the lock.
Admit(v, a, e) ==
    /\ advance[v].pc = "idle"
    /\ Admitted(a)
    /\ advance' = [advance EXCEPT ![v] =
         [pc |-> "admitted", cand |-> a, expected |-> e, seen |-> None]]
    /\ UNCHANGED <<files, session, builds, pointer, lock>>

\* Mutant: the series lock does not exclude another advance.
TakeLockAnyway(v) ==
    /\ advance[v].pc = "admitted"
    /\ lock' = v
    /\ advance' = [advance EXCEPT ![v].pc = "locked"]
    /\ UNCHANGED <<files, session, builds, pointer>>

\* A busy lock is an error at once, never a wait.
TakeLock(v) ==
    /\ advance[v].pc = "admitted"
    /\ lock = None
    /\ lock' = v
    /\ advance' = [advance EXCEPT ![v].pc = "locked"]
    /\ UNCHANGED <<files, session, builds, pointer>>

\* Mutant: an initial candidate may supersede something.
CompareAnyInitial(v) ==
    LET c == advance[v] IN
    /\ c.pc = "locked"
    /\ PointerAdmitted
    /\ pointer.cat # c.cand
    /\ pointer.cat = c.expected
    /\ pointer.cat # None => Supersedes[c.cand] = pointer.cat
    /\ advance' = [advance EXCEPT ![v].pc = "writing", ![v].seen = pointer.cat]
    /\ UNCHANGED <<files, session, builds, pointer, lock>>

\* Under the lock: nothing to write for the root that is current, else the current
\* root must be the expected one and the candidate its declared successor.
Compare(v) ==
    LET c == advance[v] IN
    /\ c.pc = "locked"
    /\ PointerAdmitted
    /\ pointer.cat # c.cand
    /\ pointer.cat = c.expected
    /\ Supersedes[c.cand] = pointer.cat
    /\ advance' = [advance EXCEPT ![v].pc = "writing", ![v].seen = pointer.cat]
    /\ UNCHANGED <<files, session, builds, pointer, lock>>

\* _write_current: a temporary file replaces the pointer in one rename.  The pointer
\* is then read back before the call returns.
WriteCurrent(v) ==
    LET c == advance[v] IN
    /\ c.pc = "writing"
    /\ pointer' = [cat |-> c.cand, prev |-> c.seen]
    /\ advance' = [advance EXCEPT ![v].pc = "written"]
    /\ UNCHANGED <<files, session, builds, lock>>

\* The call returns or raises, or its process dies: the kernel drops the lock.
LeaveAdvance(v) ==
    /\ advance[v].pc # "idle"
    /\ advance' = [advance EXCEPT ![v] = NoCall]
    /\ lock' = IF lock = v THEN None ELSE lock
    /\ UNCHANGED <<files, session, builds, pointer>>

-----------------------------------------------------------------------------

Init ==
    /\ linked = [p \in Places |-> {}]
    /\ synced = [p \in Places |-> {}]
    /\ roots = [s \in Stores |-> {}]
    /\ status = [s \in Private |-> "unused"]
    /\ session = [b \in Builders |-> NoSession]
    /\ builds = 0
    /\ pointer = [cat |-> None, prev |-> None]
    /\ lock = None
    /\ advance = [v \in Advancers |-> NoCall]

Build(b) ==
    \/ \E s \in Stores, a \in Artifacts : Stage(b, s, a)
    \/ \E x \in Blobs : PutBlob(b, x)
    \/ Gate(b)
    \/ \E p \in Places, x \in Blobs : LinkBlob(b, p, x)
    \/ SyncBlobs(b) \/ PublishRoot(b) \/ PublishDestination(b)
    \/ CloseSession(b) \/ KillBuild(b)

Move(v) ==
    \/ \E a \in Artifacts, e \in Artifacts \cup {None} : Admit(v, a, e)
    \/ TakeLock(v) \/ Compare(v) \/ WriteCurrent(v) \/ LeaveAdvance(v)

Next ==
    \/ \E b \in Builders : Build(b)
    \/ \E v \in Advancers : Move(v)

Spec == Init /\ [][Next]_vars

-----------------------------------------------------------------------------
(* Properties                                                               *)

SessionType ==
    [pc : {"idle", "staging", "linking", "linked", "committed"},
     store : Stores \cup {None}, art : Artifacts \cup {None},
     done : SUBSET Blobs, staged : SUBSET Blobs, todo : SUBSET (Places \X Blobs)]

CallType ==
    [pc : {"idle", "admitted", "locked", "writing", "written"},
     cand : Artifacts \cup {None}, expected : Artifacts \cup {None},
     seen : Artifacts \cup {None}]

\* Stores, sessions, the pointer file and the lock keep their types: the pointer names
\* two catalogs at most and builds stay within their bound.
TypeOK ==
    /\ linked \in [Places -> SUBSET Blobs]
    /\ synced \in [Places -> SUBSET Blobs]
    /\ roots \in [Stores -> SUBSET Artifacts]
    /\ status \in [Private -> {"unused", "private", "published", "removed"}]
    /\ session \in [Builders -> SessionType]
    /\ builds \in 0 .. MaxBuilds
    /\ pointer \in [cat : Artifacts \cup {None}, prev : Artifacts \cup {None}]
    /\ lock \in Advancers \cup {None}
    /\ advance \in [Advancers -> CallType]

\* A catalog that can be seen has every payload blob in its own store, whichever
\* builds shared the blobs, failed, were cleaned up or were killed.
RootComplete ==
    \A s \in Stores : \A a \in roots[s] : Payload[a] \subseteq linked[s]

\* The catalog of a private store also survives a power loss complete: its blobs'
\* names were durable before its own.
PrivatePersistent ==
    \A s \in Private : \A a \in roots[s] : Payload[a] \subseteq synced[s]

\* The series pointer can always be admitted, so current() never refuses it, and an
\* advance that wrote it reads its own candidate back.
CurrentAdmitted ==
    /\ PointerAdmitted
    /\ \A v \in Advancers : advance[v].pc = "written" => pointer.cat = advance[v].cand

\* The pointer moves from a catalog to its declared successor only, and records
\* that catalog: no concurrent or late advance is lost or overwritten.
SuccessionChain ==
    [][pointer' # pointer =>
         /\ pointer'.prev = pointer.cat
         /\ Supersedes[pointer'.cat] = pointer.cat]_vars
=============================================================================
