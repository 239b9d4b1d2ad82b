--------------------------- MODULE CatalogStoreProof ---------------------------
(***************************************************************************)
(* Proofs about CatalogStore, for any processes, catalogs and blobs.       *)
(*                                                                         *)
(* A catalog is complete when it appears because of what its session       *)
(* established on the way (Sound), and stays so because blobs leave a      *)
(* store only with a private store that no other session uses (Owned).     *)
(***************************************************************************)
EXTENDS CatalogStore, TLAPS

Active(b) == session[b].pc # "idle"

\* What the transaction of b has established so far.
Sound(b) ==
    LET t == session[b] IN
    Active(b) =>
        /\ t.store \in Stores
        /\ t.art \in Artifacts
        /\ t.store \in Private => status[t.store] \in {"private", "published"}
        /\ t.pc = "staging" => t.done \subseteq t.staged \cup linked[t.store]
        /\ t.pc = "linking" =>
             /\ Payload[t.art] \subseteq t.staged \cup linked[t.store]
             /\ t.todo \subseteq Targets(t.store) \X t.staged
             /\ \A x \in t.staged : x \in linked[t.store] \/ <<t.store, x>> \in t.todo
        /\ t.pc \in {"linked", "committed"} => Payload[t.art] \subseteq linked[t.store]

\* Only its own session puts blobs into a private store, and it links all of them.
Alone(b) ==
    LET t == session[b] IN
    Active(b) /\ t.store \in Private =>
        /\ t.pc = "staging" => linked[t.store] = {}
        /\ t.pc = "linking" => linked[t.store] \subseteq t.staged
        /\ t.pc \in {"linked", "committed"} => Payload[t.art] \subseteq synced[t.store]

\* A private store belongs to one session, and is empty before it.
Owned ==
    /\ \A b, c \in Builders :
         b # c /\ Active(b) /\ Active(c) /\ session[b].store \in Private
            => session[c].store # session[b].store
    /\ \A s \in Private : status[s] = "unused" => linked[s] = {}

BuildInv ==
    /\ \A b \in Builders : Sound(b)
    /\ \A b \in Builders : Alone(b)
    /\ Owned
    /\ RootComplete
    /\ PrivatePersistent

\* What the call of v knows while it holds the lock.
Holding(v) ==
    LET c == advance[v] IN
    /\ c.pc # "idle" => c.cand \in Artifacts /\ Admitted(c.cand)
    /\ c.pc \in {"locked", "writing", "written"} => lock = v
    /\ c.pc = "writing" => c.seen = pointer.cat /\ Supersedes[c.cand] = pointer.cat
    /\ c.pc = "written" => pointer.cat = c.cand

AdvanceInv ==
    /\ \A v \in Advancers : Holding(v)
    /\ PointerAdmitted

IInv == TypeOK /\ BuildInv /\ AdvanceInv

-----------------------------------------------------------------------------

\* Nothing is visible, staged or current at first.
LEMMA InitInv == Init => IInv
<1> SUFFICES ASSUME Init PROVE IInv
    OBVIOUS
<1> USE DEF Init
<1>1. TypeOK
    BY CatalogAssumption DEF TypeOK, SessionType, CallType, NoSession, NoCall
<1>2. BuildInv
    BY DEF BuildInv, Sound, Alone, Active, Owned, RootComplete, PrivatePersistent, NoSession,
           Stores, Places
<1>3. AdvanceInv
    BY DEF AdvanceInv, Holding, PointerAdmitted, NoCall
<1> QED
    BY <1>1, <1>2, <1>3 DEF IInv

-----------------------------------------------------------------------------
(* What a step leaves of another session                                    *)

\* A session keeps what it established while directories only grow and no store
\* it may use changes hands.
LEMMA SoundKept ==
    ASSUME NEW c \in Builders, Sound(c),
           session'[c] = session[c],
           Active(c) /\ session[c].store \in Stores =>
             /\ linked[session[c].store] \subseteq linked'[session[c].store]
             /\ session[c].store \in Private => status'[session[c].store] = status[session[c].store]
    PROVE  Sound(c)'
BY DEF Sound, Active

\* The private store of a session is its own while nobody else touches it.
LEMMA AloneKept ==
    ASSUME NEW c \in Builders, Alone(c),
           session'[c] = session[c],
           Active(c) /\ session[c].store \in Private =>
             /\ linked'[session[c].store] = linked[session[c].store]
             /\ synced'[session[c].store] = synced[session[c].store]
    PROVE  Alone(c)'
BY DEF Alone, Active

\* With no file changed, every other session stands.
LEMMA OthersStand ==
    ASSUME IInv, NEW b \in Builders, NEW t, session' = [session EXCEPT ![b] = t],
           UNCHANGED <<linked, synced, status>>
    PROVE  \A c \in Builders : c # b => session'[c] = session[c] /\ Sound(c)' /\ Alone(c)'
<1>1. \A c \in Builders : c # b => session'[c] = session[c]
    BY DEF IInv, TypeOK
<1>2. \A c \in Builders : Sound(c) /\ Alone(c)
    BY DEF IInv, BuildInv
<1> QED
    BY <1>1, <1>2, SoundKept, AloneKept

-----------------------------------------------------------------------------
(* The steps of a build                                                     *)

\* Opening a session takes a private store out of use by others.
LEMMA StageInv ==
    ASSUME IInv, NEW b \in Builders, NEW s \in Stores, NEW a \in Artifacts, Stage(b, s, a)
    PROVE  TypeOK' /\ BuildInv'
<1> USE DEF Stage
<1>1. /\ UNCHANGED <<linked, synced, roots>>
      /\ session[b].pc = "idle"
      /\ session' = [session EXCEPT ![b] =
             [pc |-> "staging", store |-> s, art |-> a, done |-> {}, staged |-> {}, todo |-> {}]]
      /\ s \in Private => status[s] = "unused" /\ status' = [status EXCEPT ![s] = "private"]
      /\ s \notin Private => status' = status
    BY DEF NoSession
<1>2. TypeOK'
    <2>1. session' \in [Builders -> SessionType]
        BY <1>1 DEF IInv, TypeOK, SessionType
    <2> QED
        BY <1>1, <2>1, CatalogAssumption DEF IInv, TypeOK
<1>3. \A c \in Builders : Sound(c)'
    BY <1>1 DEF IInv, TypeOK, BuildInv, Sound, Active, Stores
<1>4. Owned'
    <2>1. \A c \in Builders : c # b /\ Active(c) /\ s \in Private => session[c].store # s
        BY <1>1 DEF IInv, BuildInv, Sound
    <2>2. \A t \in Private : status'[t] = "unused" => linked'[t] = {}
        BY <1>1 DEF IInv, TypeOK, BuildInv, Owned
    <2> QED
        BY <1>1, <2>1, <2>2 DEF IInv, TypeOK, BuildInv, Owned, Active
<1>5. \A c \in Builders : Alone(c)'
    BY <1>1 DEF IInv, TypeOK, BuildInv, Alone, Owned, Active
<1>6. RootComplete' /\ PrivatePersistent'
    BY <1>1 DEF IInv, BuildInv, RootComplete, PrivatePersistent
<1> QED
    BY <1>2, <1>3, <1>4, <1>5, <1>6 DEF BuildInv

\* A blob put is staged, or was found in the store.
LEMMA PutBlobInv ==
    ASSUME IInv, NEW b \in Builders, NEW x \in Blobs, PutBlob(b, x)
    PROVE  TypeOK' /\ BuildInv'
<1> DEFINE t == session[b]
           found == x \in linked[t.store]
<1>1. /\ UNCHANGED <<linked, synced, roots, status, builds, pointer, lock, advance>>
      /\ t.pc = "staging" /\ t \in SessionType
      /\ session' = [session EXCEPT ![b] =
             [t EXCEPT !.done = @ \cup {x}, !.staged = @ \cup (IF found THEN {} ELSE {x})]]
    BY DEF PutBlob, files, IInv, TypeOK
<1> DEFINE u == [t EXCEPT !.done = @ \cup {x}, !.staged = @ \cup (IF found THEN {} ELSE {x})]
<1>a. /\ u \in SessionType
      /\ u.pc = t.pc /\ u.store = t.store /\ u.art = t.art
      /\ u.done = t.done \cup {x} /\ x \in u.staged \cup linked[t.store]
      /\ t.staged \subseteq u.staged
    BY <1>1 DEF SessionType
<1>b. session'[b] = u /\ session \in [Builders -> SessionType]
    BY <1>1 DEF IInv, TypeOK
<1>c. \A c \in Builders : c # b => session'[c] = session[c] /\ Sound(c)' /\ Alone(c)'
    <2> HIDE DEF u
    <2> QED
        BY <1>1, OthersStand
<1>d. Sound(b) /\ Alone(b)
    BY DEF IInv, BuildInv
<1> HIDE DEF u
<1>2. TypeOK'
    <2>1. session' \in [Builders -> SessionType]
        BY <1>1, <1>a, <1>b DEF u
    <2> QED
        BY <1>1, <2>1 DEF IInv, TypeOK
<1>3. \A c \in Builders : Sound(c)'
    <2>1. Sound(b)'
        BY <1>1, <1>a, <1>b, <1>d DEF Sound, Active
    <2> QED
        BY <1>c, <2>1
<1>4. Owned'
    BY <1>1, <1>a, <1>b, <1>c DEF IInv, BuildInv, Owned, Active
<1>5. \A c \in Builders : Alone(c)'
    <2>1. Alone(b)'
        BY <1>1, <1>a, <1>b, <1>d DEF Alone, Active
    <2> QED
        BY <1>c, <2>1
<1>6. RootComplete' /\ PrivatePersistent'
    BY <1>1 DEF IInv, BuildInv, RootComplete, PrivatePersistent
<1> QED
    BY <1>2, <1>3, <1>4, <1>5, <1>6 DEF BuildInv

\* The gate passes with every payload blob staged or in the store.
LEMMA GateInv ==
    ASSUME IInv, NEW b \in Builders, Gate(b)
    PROVE  TypeOK' /\ BuildInv'
<1> DEFINE t == session[b]
<1>1. /\ UNCHANGED <<linked, synced, roots, status, builds, pointer, lock, advance>>
      /\ t.pc = "staging" /\ t \in SessionType
      /\ Payload[t.art] \subseteq t.staged \cup linked[t.store]
      /\ session' = [session EXCEPT ![b] =
             [t EXCEPT !.pc = "linking", !.todo = Targets(t.store) \X t.staged]]
    BY DEF Gate, files, IInv, TypeOK
<1>2. t.store \in Stores /\ t.store \in Targets(t.store) /\ Targets(t.store) \subseteq Places
    BY <1>1 DEF IInv, BuildInv, Sound, Active, Targets, Places
<1>3. TypeOK'
    <2>1. session' \in [Builders -> SessionType]
        BY <1>1, <1>2 DEF IInv, TypeOK, SessionType
    <2> QED
        BY <1>1, <2>1 DEF IInv, TypeOK
<1>4. \A c \in Builders : Sound(c)'
    BY <1>1, <1>2 DEF IInv, TypeOK, BuildInv, Sound, Active, SessionType
<1>5. Owned'
    BY <1>1 DEF IInv, TypeOK, BuildInv, Owned, Active, SessionType
<1>6. \A c \in Builders : Alone(c)'
    BY <1>1 DEF IInv, TypeOK, BuildInv, Alone, Active, SessionType
<1>7. RootComplete' /\ PrivatePersistent'
    BY <1>1 DEF IInv, BuildInv, RootComplete, PrivatePersistent
<1> QED
    BY <1>3, <1>4, <1>5, <1>6, <1>7 DEF BuildInv

\* A link adds to a directory; a private one receives its own session's blobs.
LEMMA LinkBlobInv ==
    ASSUME IInv, NEW b \in Builders, NEW p \in Places, NEW x \in Blobs, LinkBlob(b, p, x)
    PROVE  TypeOK' /\ BuildInv'
<1> DEFINE t == session[b]
<1>1. /\ UNCHANGED <<synced, roots, status, builds, pointer, lock, advance>>
      /\ t.pc = "linking" /\ t \in SessionType
      /\ <<p, x>> \in t.todo
      /\ linked' = [linked EXCEPT ![p] = @ \cup {x}]
      /\ session' = [session EXCEPT ![b] = [t EXCEPT !.todo = @ \ {<<p, x>>}]]
    BY DEF LinkBlob, IInv, TypeOK
<1>2. TypeOK'
    <2>1. session' \in [Builders -> SessionType]
        BY <1>1 DEF IInv, TypeOK, SessionType
    <2> QED
        BY <1>1, <2>1 DEF IInv, TypeOK
<1>3. \A q \in Places : linked[q] \subseteq linked'[q]
    BY <1>1 DEF IInv, TypeOK
<1>4. \A c \in Builders : Sound(c)'
    <2>1. \A c \in Builders : c # b => Sound(c)'
        BY <1>1, <1>3 DEF IInv, TypeOK, BuildInv, Sound, Active, Places
    <2>2. Sound(b)'
        BY <1>1, <1>3 DEF IInv, TypeOK, BuildInv, Sound, Active, Places, SessionType
    <2> QED
        BY <2>1, <2>2
<1>5. /\ x \in t.staged
      /\ p \in Private => p = t.store /\ status[p] # "unused"
    <2>1. Sound(b)
        BY DEF IInv, BuildInv
    <2>2. <<p, x>> \in Targets(t.store) \X t.staged
        BY <1>1, <2>1 DEF Sound, Active
    <2>3. p \in Private => p = t.store
        BY <2>2, CatalogAssumption DEF Targets, Stores
    <2> QED
        BY <1>1, <2>1, <2>2, <2>3 DEF Sound, Active
<1>6. Owned'
    BY <1>1, <1>5 DEF IInv, TypeOK, BuildInv, Owned, Active, SessionType
<1>7. \A c \in Builders : Alone(c)'
    BY <1>1, <1>5 DEF IInv, TypeOK, BuildInv, Owned, Alone, Active, SessionType, Places, Stores
<1>8. RootComplete' /\ PrivatePersistent'
    BY <1>1, <1>3 DEF IInv, BuildInv, RootComplete, PrivatePersistent, Places
<1> QED
    BY <1>2, <1>4, <1>6, <1>7, <1>8 DEF BuildInv

\* With every link made, the sync makes a private store's payload durable.
LEMMA SyncBlobsInv ==
    ASSUME IInv, NEW b \in Builders, SyncBlobs(b)
    PROVE  TypeOK' /\ BuildInv'
<1> DEFINE t == session[b]
<1>1. /\ UNCHANGED <<linked, roots, status, builds, pointer, lock, advance>>
      /\ t.pc = "linking" /\ t \in SessionType
      /\ t.todo = {}
      /\ synced' = [p \in Places |->
             IF t.staged # {} /\ p \in Targets(t.store) THEN linked[p] ELSE synced[p]]
      /\ session' = [session EXCEPT ![b] = [t EXCEPT !.pc = "linked"]]
    BY DEF SyncBlobs, IInv, TypeOK
<1>2. TypeOK'
    <2>1. session' \in [Builders -> SessionType]
        BY <1>1 DEF IInv, TypeOK, SessionType
    <2> QED
        BY <1>1, <2>1 DEF IInv, TypeOK
<1>3. Payload[t.art] \subseteq linked[t.store] /\ t.store \in Places
    BY <1>1 DEF IInv, BuildInv, Sound, Active, Places
<1>4. \A c \in Builders : Sound(c)'
    BY <1>1, <1>3 DEF IInv, TypeOK, BuildInv, Sound, Active, SessionType
<1>5. Owned'
    BY <1>1 DEF IInv, TypeOK, BuildInv, Owned, Active, SessionType
<1>6. t.store \in Private => Payload[t.art] \subseteq synced'[t.store]
    <2>1. t.store \in Private => linked[t.store] \subseteq t.staged
        BY <1>1 DEF IInv, BuildInv, Alone, Active
    <2> QED
        BY <1>1, <1>3, <2>1 DEF Targets
<1>7. \A c \in Builders : c # b /\ Active(c) /\ session[c].store \in Private
                            => synced'[session[c].store] = synced[session[c].store]
    <2>1. \A c \in Builders : c # b /\ Active(c) /\ session[c].store \in Private
                                => session[c].store \notin Targets(t.store)
        BY <1>1, CatalogAssumption DEF IInv, BuildInv, Owned, Active, Targets, Stores
    <2> QED
        BY <1>1, <2>1 DEF Places, Stores
<1>8. \A c \in Builders : Alone(c)'
    <2>1. \A c \in Builders : Alone(c) /\ (c # b => session'[c] = session[c])
        BY <1>1 DEF IInv, TypeOK, BuildInv
    <2>2. \A c \in Builders : c # b => Alone(c)'
        BY <1>1, <1>7, <2>1, AloneKept
    <2>3. session'[b].pc = "linked" /\ session'[b].store = t.store /\ session'[b].art = t.art
        BY <1>1 DEF IInv, TypeOK, SessionType
    <2>4. Alone(b)'
        BY <1>6, <2>3 DEF Alone, Active
    <2> QED
        BY <2>2, <2>4
<1>9. RootComplete' /\ PrivatePersistent'
    BY <1>1 DEF IInv, BuildInv, RootComplete, PrivatePersistent, Places, Stores
<1> QED
    BY <1>2, <1>4, <1>5, <1>8, <1>9 DEF BuildInv

\* The root appears when its payload is linked, and synced if the store is private.
LEMMA PublishRootInv ==
    ASSUME IInv, NEW b \in Builders, PublishRoot(b)
    PROVE  TypeOK' /\ BuildInv'
<1> DEFINE t == session[b]
<1>1. /\ UNCHANGED <<linked, synced, status, builds, pointer, lock, advance>>
      /\ t.pc = "linked" /\ t \in SessionType
      /\ roots' = [roots EXCEPT ![t.store] = @ \cup {t.art}]
      /\ session' = [session EXCEPT ![b] = [t EXCEPT !.pc = "committed"]]
    BY DEF PublishRoot, IInv, TypeOK
<1>2. /\ t.store \in Stores /\ t.art \in Artifacts
      /\ Payload[t.art] \subseteq linked[t.store]
      /\ t.store \in Private => Payload[t.art] \subseteq synced[t.store]
    BY <1>1 DEF IInv, BuildInv, Sound, Alone, Active
<1>3. TypeOK'
    <2>1. session' \in [Builders -> SessionType]
        BY <1>1 DEF IInv, TypeOK, SessionType
    <2> QED
        BY <1>1, <1>2, <2>1 DEF IInv, TypeOK
<1> DEFINE u == [t EXCEPT !.pc = "committed"]
<1>a. /\ session'[b] = u
      /\ u.pc = "committed" /\ u.store = t.store /\ u.art = t.art
    BY <1>1 DEF IInv, TypeOK, SessionType
<1>b. \A c \in Builders : c # b => session'[c] = session[c] /\ Sound(c)' /\ Alone(c)'
    BY <1>1, OthersStand
<1>c. Sound(b) /\ Alone(b)
    BY DEF IInv, BuildInv
<1> HIDE DEF u
<1>4. \A c \in Builders : Sound(c)'
    <2>1. Sound(b)'
        BY <1>1, <1>2, <1>a, <1>c DEF Sound, Active
    <2> QED
        BY <1>b, <2>1
<1>5. Owned'
    BY <1>1, <1>a, <1>b DEF IInv, BuildInv, Owned, Active
<1>6. \A c \in Builders : Alone(c)'
    <2>1. Alone(b)'
        BY <1>1, <1>2, <1>a DEF Alone, Active
    <2> QED
        BY <1>b, <2>1
<1>7. RootComplete' /\ PrivatePersistent'
    BY <1>1, <1>2 DEF IInv, TypeOK, BuildInv, RootComplete, PrivatePersistent, Stores
<1> QED
    BY <1>3, <1>4, <1>5, <1>6, <1>7 DEF BuildInv

\* Publishing a private store moves no file in it.
LEMMA PublishDestinationInv ==
    ASSUME IInv, NEW b \in Builders, PublishDestination(b)
    PROVE  TypeOK' /\ BuildInv'
<1>1. /\ UNCHANGED <<linked, synced, roots, session, builds, pointer, lock, advance>>
      /\ session[b].store \in Private
      /\ status' = [status EXCEPT ![session[b].store] = "published"]
    BY DEF PublishDestination
<1>2. TypeOK'
    BY <1>1 DEF IInv, TypeOK
<1>3. \A c \in Builders : Sound(c)'
    BY <1>1 DEF IInv, TypeOK, BuildInv, Sound, Active
<1>4. Owned' /\ \A c \in Builders : Alone(c)'
    BY <1>1 DEF IInv, TypeOK, BuildInv, Owned, Alone, Active
<1>5. RootComplete' /\ PrivatePersistent'
    BY <1>1 DEF IInv, BuildInv, RootComplete, PrivatePersistent
<1> QED
    BY <1>2, <1>3, <1>4, <1>5 DEF BuildInv

\* Cleanup empties at most the session's own private store.
LEMMA CloseSessionInv ==
    ASSUME IInv, NEW b \in Builders, CloseSession(b)
    PROVE  TypeOK' /\ BuildInv'
<1> DEFINE s == session[b].store
           gone == {t \in Private : t = s /\ status[t] = "private"}
<1>1. /\ UNCHANGED <<builds, pointer, lock, advance>>
      /\ session[b].pc # "idle"
      /\ linked' = [p \in DOMAIN linked |-> IF p \in gone THEN {} ELSE linked[p]]
      /\ synced' = [p \in DOMAIN synced |-> IF p \in gone THEN {} ELSE synced[p]]
      /\ roots' = [p \in DOMAIN roots |-> IF p \in gone THEN {} ELSE roots[p]]
      /\ status' = [p \in Private |-> IF p \in gone THEN "removed" ELSE status[p]]
      /\ session' = [session EXCEPT ![b] = NoSession]
    BY DEF CloseSession
<1>2. TypeOK'
    <2>1. session' \in [Builders -> SessionType]
        BY <1>1 DEF IInv, TypeOK, SessionType, NoSession
    <2>2. linked' \in [Places -> SUBSET Blobs] /\ synced' \in [Places -> SUBSET Blobs]
        BY <1>1 DEF IInv, TypeOK
    <2>3. roots' \in [Stores -> SUBSET Artifacts]
        BY <1>1 DEF IInv, TypeOK
    <2> QED
        BY <1>1, <2>1, <2>2, <2>3 DEF IInv, TypeOK
<1>3. ~Active(b)' /\ \A c \in Builders : c # b => session'[c] = session[c]
    BY <1>1 DEF IInv, TypeOK, Active, NoSession
<1>4. \A c \in Builders : c # b /\ Active(c) => session[c].store \notin gone
    BY <1>1 DEF IInv, BuildInv, Owned, Active
<1>5. \A p \in Places : p \notin gone => linked'[p] = linked[p] /\ synced'[p] = synced[p]
    BY <1>1 DEF IInv, TypeOK
<1>6. \A p \in Stores : roots'[p] = IF p \in gone THEN {} ELSE roots[p]
    BY <1>1 DEF IInv, TypeOK
<1>7. \A c \in Builders : Sound(c)'
    <2>1. \A c \in Builders : Sound(c)
        BY DEF IInv, BuildInv
    <2>2. \A p \in Private : p \notin gone => status'[p] = status[p]
        BY <1>1
    <2>3. \A c \in Builders : c # b => Sound(c)'
        BY <1>3, <1>4, <1>5, <2>1, <2>2, SoundKept DEF Places
    <2> QED
        BY <1>3, <2>3 DEF Sound
<1>8. \A c \in Builders : Alone(c)'
    <2>1. \A c \in Builders : c # b => Alone(c)'
        BY <1>3, <1>4, <1>5 DEF IInv, BuildInv, Alone, Active, Places, Stores
    <2> QED
        BY <1>3, <2>1 DEF Alone
<1>9. Owned'
    <2>1. \A p \in Private : status'[p] = "unused" => linked'[p] = {}
        BY <1>1, <1>5 DEF IInv, TypeOK, BuildInv, Owned, Places, Stores
    <2> QED
        BY <1>3, <2>1 DEF IInv, BuildInv, Owned, Active
<1>10. RootComplete' /\ PrivatePersistent'
    BY <1>5, <1>6 DEF IInv, BuildInv, RootComplete, PrivatePersistent, Places, Stores
<1> QED
    BY <1>2, <1>7, <1>8, <1>9, <1>10 DEF BuildInv

\* A killed build leaves every file where it is.
LEMMA KillBuildInv ==
    ASSUME IInv, NEW b \in Builders, KillBuild(b)
    PROVE  TypeOK' /\ BuildInv'
<1>1. /\ UNCHANGED <<linked, synced, roots, status, builds, pointer, lock, advance>>
      /\ session' = [session EXCEPT ![b] = NoSession]
    BY DEF KillBuild, files
<1>2. ~Active(b)' /\ \A c \in Builders : c # b => session'[c] = session[c]
    BY <1>1 DEF IInv, TypeOK, Active, NoSession
<1>3. TypeOK'
    <2>1. session' \in [Builders -> SessionType]
        BY <1>1 DEF IInv, TypeOK, SessionType, NoSession
    <2> QED
        BY <1>1, <2>1 DEF IInv, TypeOK
<1>4. \A c \in Builders : Sound(c)' /\ Alone(c)'
    BY <1>1, <1>2 DEF IInv, BuildInv, Sound, Alone, Active
<1>5. Owned'
    BY <1>1, <1>2 DEF IInv, BuildInv, Owned, Active
<1>6. RootComplete' /\ PrivatePersistent'
    BY <1>1 DEF IInv, BuildInv, RootComplete, PrivatePersistent
<1> QED
    BY <1>3, <1>4, <1>5, <1>6 DEF BuildInv

-----------------------------------------------------------------------------
(* The series pointer                                                       *)

\* Builds leave the pointer alone, and an admitted catalog of the workspace stays
\* admitted: its store loses neither roots nor blobs.
LEMMA BuildKeepsAdmitted ==
    ASSUME IInv, NEW b \in Builders, Build(b)
    PROVE  /\ UNCHANGED <<pointer, lock, advance>>
           /\ \A a \in Artifacts : Admitted(a) => Admitted(a)'
<1> SUFFICES /\ UNCHANGED <<pointer, lock, advance>>
             /\ roots[Main] \subseteq roots'[Main]
             /\ linked[Main] \subseteq linked'[Main]
    BY DEF Admitted
<1>1. CASE \E s \in Stores, a \in Artifacts : Stage(b, s, a)
    BY <1>1 DEF Stage
<1>2. CASE \E x \in Blobs : PutBlob(b, x)
    BY <1>2 DEF PutBlob, files
<1>3. CASE Gate(b)
    BY <1>3 DEF Gate, files
<1>4. CASE \E p \in Places, x \in Blobs : LinkBlob(b, p, x)
    BY <1>4 DEF LinkBlob, IInv, TypeOK, Places, Stores
<1>5. CASE SyncBlobs(b)
    BY <1>5 DEF SyncBlobs
<1>6. CASE PublishRoot(b)
    BY <1>6 DEF PublishRoot, IInv, TypeOK, Stores
<1>7. CASE PublishDestination(b)
    BY <1>7 DEF PublishDestination
<1>8. CASE CloseSession(b)
    BY <1>8, CatalogAssumption DEF CloseSession, IInv, TypeOK, Places, Stores
<1>9. CASE KillBuild(b)
    BY <1>9 DEF KillBuild, files
<1> QED
    BY <1>1, <1>2, <1>3, <1>4, <1>5, <1>6, <1>7, <1>8, <1>9 DEF Build

\* Each step of a build preserves the whole invariant.
LEMMA BuildStepInv ==
    ASSUME IInv, NEW b \in Builders, Build(b)
    PROVE  IInv'
<1>1. TypeOK' /\ BuildInv'
    BY StageInv, PutBlobInv, GateInv, LinkBlobInv, SyncBlobsInv, PublishRootInv,
       PublishDestinationInv, CloseSessionInv, KillBuildInv DEF Build
<1>2. /\ UNCHANGED <<pointer, lock, advance>>
      /\ \A a \in Artifacts : Admitted(a) => Admitted(a)'
    BY BuildKeepsAdmitted
<1>3. \A v \in Advancers : Holding(v)'
    BY <1>2 DEF IInv, AdvanceInv, Holding
<1>4. PointerAdmitted'
    BY <1>2 DEF IInv, TypeOK, AdvanceInv, PointerAdmitted
<1> QED
    BY <1>1, <1>3, <1>4 DEF IInv, AdvanceInv

\* An advance touches no catalog, so what builds established stands.
LEMMA AdvanceKeepsBuilds ==
    ASSUME IInv, UNCHANGED <<linked, synced, roots, status, session, builds>>
    PROVE  BuildInv' /\ \A a \in Artifacts : Admitted(a) <=> Admitted(a)'
BY DEF IInv, BuildInv, Sound, Alone, Active, Owned, RootComplete, PrivatePersistent, Admitted

\* The lock makes what Compare read still true when WriteCurrent replaces it.
LEMMA MoveStepInv ==
    ASSUME IInv, NEW v \in Advancers, Move(v)
    PROVE  IInv'
<1>1. UNCHANGED <<linked, synced, roots, status, session, builds>>
    BY DEF Move, Admit, TakeLock, Compare, WriteCurrent, LeaveAdvance, files
<1>2. BuildInv' /\ \A a \in Artifacts : Admitted(a) <=> Admitted(a)'
    BY <1>1, AdvanceKeepsBuilds
<1>3. advance \in [Advancers -> CallType] /\ lock \in Advancers \cup {None}
    BY DEF IInv, TypeOK
<1>4. CASE \E a \in Artifacts, e \in Artifacts \cup {None} : Admit(v, a, e)
    <2>1. PICK a \in Artifacts, e \in Artifacts \cup {None} : Admit(v, a, e)
        BY <1>4
    <2>2. TypeOK'
        BY <1>1, <1>3, <2>1 DEF IInv, TypeOK, Admit, CallType
    <2>3. \A u \in Advancers : Holding(u)'
        BY <1>2, <1>3, <2>1 DEF IInv, AdvanceInv, Holding, Admit
    <2>4. PointerAdmitted'
        BY <1>2, <2>1 DEF IInv, TypeOK, AdvanceInv, PointerAdmitted, Admit
    <2> QED
        BY <1>2, <2>2, <2>3, <2>4 DEF IInv, AdvanceInv
<1>5. CASE TakeLock(v)
    <2>1. TypeOK'
        BY <1>1, <1>3, <1>5 DEF IInv, TypeOK, TakeLock, CallType
    <2>2. \A u \in Advancers : Holding(u)'
        BY <1>2, <1>3, <1>5, CatalogAssumption DEF IInv, AdvanceInv, Holding, TakeLock, CallType
    <2>3. PointerAdmitted'
        BY <1>2, <1>5 DEF IInv, TypeOK, AdvanceInv, PointerAdmitted, TakeLock
    <2> QED
        BY <1>2, <2>1, <2>2, <2>3 DEF IInv, AdvanceInv
<1>6. CASE Compare(v)
    <2>1. TypeOK'
        <3>1. /\ advance[v] \in CallType /\ pointer.cat \in Artifacts \cup {None}
              /\ UNCHANGED <<pointer, lock>>
              /\ advance' = [advance EXCEPT ![v] =
                     [@ EXCEPT !.pc = "writing", !.seen = pointer.cat]]
            BY <1>3, <1>6 DEF IInv, TypeOK, Compare
        <3>2. [advance[v] EXCEPT !.pc = "writing", !.seen = pointer.cat] \in CallType
            BY <3>1 DEF CallType
        <3>3. advance' \in [Advancers -> CallType]
            BY <1>3, <3>1, <3>2
        <3> QED
            BY <1>1, <3>1, <3>3 DEF IInv, TypeOK
    <2>2. \A u \in Advancers : Holding(u)'
        BY <1>2, <1>3, <1>6 DEF IInv, AdvanceInv, Holding, Compare, CallType
    <2>3. PointerAdmitted'
        BY <1>2, <1>6 DEF IInv, TypeOK, AdvanceInv, PointerAdmitted, Compare
    <2> QED
        BY <1>2, <2>1, <2>2, <2>3 DEF IInv, AdvanceInv
<1>7. CASE WriteCurrent(v)
    <2>1. /\ advance[v].cand \in Artifacts /\ Admitted(advance[v].cand)
          /\ lock = v
          /\ advance[v].seen = pointer.cat
          /\ Supersedes[advance[v].cand] = pointer.cat
        BY <1>7 DEF IInv, AdvanceInv, Holding, WriteCurrent
    <2>2. \A u \in Advancers : u # v => advance[u].pc \notin {"locked", "writing", "written"}
        BY <2>1 DEF IInv, AdvanceInv, Holding
    <2>3. TypeOK'
        BY <1>1, <1>3, <1>7, <2>1 DEF IInv, TypeOK, WriteCurrent, CallType
    <2>4. \A u \in Advancers : Holding(u)'
        <3>1. \A u \in Advancers : u # v => Holding(u)'
            BY <1>2, <1>3, <1>7, <2>2 DEF IInv, AdvanceInv, Holding, WriteCurrent
        <3>2. Holding(v)'
            BY <1>2, <1>3, <1>7, <2>1 DEF Holding, WriteCurrent, CallType
        <3> QED
            BY <3>1, <3>2
    <2>5. PointerAdmitted'
        BY <1>2, <1>7, <2>1 DEF IInv, TypeOK, AdvanceInv, PointerAdmitted, WriteCurrent
    <2> QED
        BY <1>2, <2>3, <2>4, <2>5 DEF IInv, AdvanceInv
<1>8. CASE LeaveAdvance(v)
    <2>1. TypeOK'
        BY <1>1, <1>3, <1>8 DEF IInv, TypeOK, LeaveAdvance, CallType, NoCall
    <2>2. \A u \in Advancers : Holding(u)'
        BY <1>2, <1>3, <1>8 DEF IInv, AdvanceInv, Holding, LeaveAdvance, NoCall
    <2>3. PointerAdmitted'
        BY <1>2, <1>8 DEF IInv, TypeOK, AdvanceInv, PointerAdmitted, LeaveAdvance
    <2> QED
        BY <1>2, <2>1, <2>2, <2>3 DEF IInv, AdvanceInv
<1> QED
    BY <1>4, <1>5, <1>6, <1>7, <1>8 DEF Move

-----------------------------------------------------------------------------

\* Every step preserves the invariant.
LEMMA NextInv == IInv /\ [Next]_vars => IInv'
<1> SUFFICES ASSUME IInv, [Next]_vars PROVE IInv'
    OBVIOUS
<1>1. CASE \E b \in Builders : Build(b)
    BY <1>1, BuildStepInv
<1>2. CASE \E v \in Advancers : Move(v)
    BY <1>2, MoveStepInv
<1>3. CASE UNCHANGED vars
    <2>1. BuildInv' /\ \A a \in Artifacts : Admitted(a) <=> Admitted(a)'
        BY <1>3, AdvanceKeepsBuilds DEF vars, files
    <2>2. TypeOK'
        BY <1>3 DEF vars, files, IInv, TypeOK
    <2>3. AdvanceInv'
        BY <1>3, <2>1 DEF vars, files, IInv, TypeOK, AdvanceInv, Holding, PointerAdmitted
    <2> QED
        BY <2>1, <2>2, <2>3 DEF IInv
<1> QED
    BY <1>1, <1>2, <1>3 DEF Next

\* The invariant holds in every reachable state.
LEMMA Invariance == Spec => []IInv
<1>1. Init => IInv
    BY InitInv
<1>2. IInv /\ [Next]_vars => IInv'
    BY NextInv
<1> QED
    BY <1>1, <1>2, PTL DEF Spec

\* The stores, the sessions and the pointer are well formed.
THEOREM TypeCorrect == Spec => []TypeOK
<1>1. IInv => TypeOK
    BY DEF IInv
<1> QED
    BY Invariance, <1>1, PTL

\* A visible catalog has its whole payload in its store, for any number of builds
\* that share blobs, fail, are cleaned up or are killed.
THEOREM CatalogsComplete == Spec => []RootComplete
<1>1. IInv => RootComplete
    BY DEF IInv, BuildInv
<1> QED
    BY Invariance, <1>1, PTL

\* A catalog published from a private store survives a power loss complete.
THEOREM PrivateCatalogsPersist == Spec => []PrivatePersistent
<1>1. IInv => PrivatePersistent
    BY DEF IInv, BuildInv
<1> QED
    BY Invariance, <1>1, PTL

\* The series pointer is always admissible, and read back as it was written.
THEOREM PointerAdmissible == Spec => []CurrentAdmitted
<1>1. IInv => CurrentAdmitted
    BY DEF IInv, AdvanceInv, Holding, CurrentAdmitted
<1> QED
    BY Invariance, <1>1, PTL

\* The pointer follows the declared succession, whatever advances compete.
THEOREM PointerFollowsSuccession == Spec => SuccessionChain
<1> DEFINE Step == pointer' # pointer =>
                     /\ pointer'.prev = pointer.cat
                     /\ Supersedes[pointer'.cat] = pointer.cat
<1>1. IInv /\ [Next]_vars => [Step]_vars
    <2> SUFFICES ASSUME IInv, [Next]_vars PROVE Step
        OBVIOUS
    <2>1. CASE \E b \in Builders : Build(b)
        BY <2>1, BuildKeepsAdmitted
    <2>2. CASE \E v \in Advancers : Move(v)
        BY <2>2 DEF IInv, TypeOK, AdvanceInv, Holding, Move, Admit, TakeLock, Compare,
                    WriteCurrent, LeaveAdvance
    <2>3. CASE UNCHANGED vars
        BY <2>3 DEF vars
    <2> QED
        BY <2>1, <2>2, <2>3 DEF Next
<1> QED
    BY Invariance, <1>1, PTL DEF Spec, SuccessionChain
=============================================================================
