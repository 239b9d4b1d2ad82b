--------------------------- MODULE DocumentsProof ---------------------------
(***************************************************************************)
(* Where the bytes of documents come from and are kept, for every value of *)
(* the constants: one address of a blob store, one acquisition, what the   *)
(* recognition of a file's pages keeps, and what the bounded segmenter     *)
(* makes of a text.  The four share no state.                              *)
(***************************************************************************)
EXTENDS Blobs, Transfers, Extraction, FiniteSetTheorems, SequenceTheorems, WellFoundedInduction, TLAPS

(***************************************************************************)
(* One address of a blob store, for every set of writers and media types   *)
(* and both backends.                                                      *)
(***************************************************************************)
Objects == [whole : BOOLEAN, media : Media \cup {Nil}]
BlobPCs == {"idle", "link", "sync", "head", "put", "head-again", "delete"}

BlobTypeOK ==
    /\ backend \in {"local", "s3"}
    /\ object \in Objects \cup {Nil}
    /\ disk \in Objects \cup {Nil}
    /\ writer \in [Writers -> [pc : BlobPCs, media : Media \cup {Nil}]]
    /\ ready \subseteq Media
    /\ erased \in BOOLEAN

\* A call follows the steps of its backend for one media type, and what S3 answered
\* is durable.
BlobRouted ==
    /\ backend = "s3" => disk = object
    /\ \A w \in Writers :
        /\ ~Doing(w, "idle") => writer[w].media \in Media
        /\ Doing(w, "link") => backend = "local"
        /\ writer[w].pc \in {"head", "put", "head-again"} => backend = "s3"

\* A writer that is about to hand out its reference has seen the object, and nothing
\* took it away since.
Seen == \A w \in Writers : Doing(w, "sync") => Matches(writer[w].media)

\* A deletion has the address to itself: no object, no reference, no other call.
Exclusive ==
    \A w \in Writers : Doing(w, "delete") =>
        /\ object = Nil /\ ready = {}
        /\ \A v \in Writers \ {w} : Doing(v, "idle")

\* After a completed deletion there were only deletions.
Untouched == erased => \A w \in Writers : writer[w].pc \in {"idle", "delete"}

BlobInv == BlobTypeOK /\ BlobRouted /\ Seen /\ Exclusive /\ Untouched /\ PutReady

-----------------------------------------------------------------------------
\* What a name is given is an object.
LEMMA ObjectIsObject ==
    ASSUME NEW whole \in BOOLEAN, NEW m \in Media \cup {Nil}
    PROVE  /\ Object(whole, m) \in Objects
           /\ Object(whole, m) # Nil
           /\ Object(whole, m).whole = whole
           /\ Object(whole, m).media = m
BY NilAssumption DEF Object, Objects

\* A step of one call leaves the others where they are.
LEMMA OneMoves ==
    ASSUME BlobTypeOK, NEW w \in Writers, NEW pc \in BlobPCs, NEW m \in Media \cup {Nil},
           writer' = [writer EXCEPT ![w] = [pc |-> pc, media |-> m]]
    PROVE  /\ writer' \in [Writers -> [pc : BlobPCs, media : Media \cup {Nil}]]
           /\ writer'[w].pc = pc /\ writer'[w].media = m
           /\ \A v \in Writers \ {w} : writer'[v] = writer[v]
BY DEF BlobTypeOK

LEMMA GoesAway ==
    ASSUME BlobTypeOK, NEW w \in Writers, writer' = Away(w)
    PROVE  /\ writer' \in [Writers -> [pc : BlobPCs, media : Media \cup {Nil}]]
           /\ writer'[w].pc = "idle"
           /\ \A v \in Writers \ {w} : writer'[v] = writer[v]
<1>1. writer' = [writer EXCEPT ![w] = [pc |-> "idle", media |-> Nil]]
  BY DEF Away, Rest
<1> QED
  BY <1>1, OneMoves DEF BlobPCs

LEMMA MovesOn ==
    ASSUME BlobTypeOK, NEW w \in Writers, NEW pc \in BlobPCs, writer' = Moved(w, pc)
    PROVE  /\ writer' \in [Writers -> [pc : BlobPCs, media : Media \cup {Nil}]]
           /\ writer'[w].pc = pc /\ writer'[w].media = writer[w].media
           /\ \A v \in Writers \ {w} : writer'[v] = writer[v]
BY DEF BlobTypeOK, Moved

\* A reference that was handed out stays ready while its object stays and is durable,
\* and so does the evidence of a writer.
LEMMA Unchanged ==
    ASSUME UNCHANGED <<backend, object>>, NEW m
    PROVE  Matches(m)' <=> Matches(m)
BY DEF Matches

-----------------------------------------------------------------------------
LEMMA BlobStarts == BlobsInit => BlobInv
<1> SUFFICES ASSUME BlobsInit PROVE BlobInv
  OBVIOUS
<1>1. object \in Objects \cup {Nil}
  BY ObjectIsObject DEF BlobsInit
<1>2. \A w \in Writers : writer[w] = Rest
  BY DEF BlobsInit
<1>3. BlobTypeOK
  BY <1>1 DEF BlobsInit, BlobTypeOK, Rest, BlobPCs
<1>4. BlobRouted /\ Seen /\ Exclusive /\ Untouched /\ PutReady
  BY <1>2 DEF BlobsInit, BlobRouted, Seen, Exclusive, Untouched, PutReady, Doing, Rest
<1> QED
  BY <1>3, <1>4 DEF BlobInv

LEMMA StageKeeps ==
    ASSUME BlobInv, NEW w \in Writers, NEW m \in Media, Stage(w, m)
    PROVE  BlobInv'
<1> DEFINE pc == IF backend = "local" THEN "link" ELSE "head"
<1> USE DEF BlobInv, Stage
<1>1. pc \in BlobPCs /\ pc \in {"link", "head"}
  BY DEF BlobPCs
<1>2. /\ writer' \in [Writers -> [pc : BlobPCs, media : Media \cup {Nil}]]
      /\ writer'[w].pc = pc /\ writer'[w].media = m
      /\ \A v \in Writers \ {w} : writer'[v] = writer[v]
  BY <1>1, OneMoves
<1>3. BlobTypeOK'
  BY <1>2 DEF BlobTypeOK
<1>4. BlobRouted'
  BY <1>2 DEF BlobRouted, Doing, BlobTypeOK
<1>5. Seen'
  BY <1>1, <1>2, Unchanged DEF Seen, Doing
<1>6. Exclusive' /\ Untouched'
  BY <1>1, <1>2 DEF Exclusive, Untouched, Doing
<1>7. PutReady'
  BY Unchanged DEF PutReady
<1> QED
  BY <1>3, <1>4, <1>5, <1>6, <1>7

LEMMA EnsureKeeps ==
    ASSUME BlobInv, NEW w \in Writers, NEW m \in Media, EnsureReady(w, m)
    PROVE  BlobInv'
<1> USE DEF BlobInv, EnsureReady
<1>1. /\ writer' \in [Writers -> [pc : BlobPCs, media : Media \cup {Nil}]]
      /\ writer'[w].pc = "sync" /\ writer'[w].media = m
      /\ \A v \in Writers \ {w} : writer'[v] = writer[v]
  BY OneMoves DEF BlobPCs
<1>2. ~erased
  BY DEF Matches, PutReady
<1>3. BlobTypeOK'
  BY <1>1 DEF BlobTypeOK
<1>4. BlobRouted'
  BY <1>1 DEF BlobRouted, Doing
<1>5. Seen'
  BY <1>1, Unchanged DEF Seen, Doing
<1>6. Exclusive' /\ Untouched'
  BY <1>1, <1>2 DEF Exclusive, Untouched, Doing
<1>7. PutReady'
  BY Unchanged DEF PutReady
<1> QED
  BY <1>3, <1>4, <1>5, <1>6, <1>7

LEMMA LinkKeeps ==
    ASSUME BlobInv, NEW w \in Writers, Link(w)
    PROVE  BlobInv'
<1> USE DEF BlobInv, Link
<1>1. /\ backend = "local" /\ backend' = backend
      /\ writer[w].media \in Media
      /\ \A v \in Writers : ~Doing(v, "delete")
      /\ ~erased /\ ~erased'
  BY DEF BlobRouted, Exclusive, Untouched, Doing
<1>2. CASE object = Nil
  <2>1. object' = Object(TRUE, Nil) /\ writer' = Moved(w, "sync")
    BY <1>2
  <2>2. /\ writer' \in [Writers -> [pc : BlobPCs, media : Media \cup {Nil}]]
        /\ writer'[w].pc = "sync" /\ writer'[w].media = writer[w].media
        /\ \A v \in Writers \ {w} : writer'[v] = writer[v]
    BY <2>1, MovesOn DEF BlobPCs
  <2>3. object' \in Objects /\ object' # Nil /\ object'.whole = TRUE
    BY <2>1, ObjectIsObject
  <2>4. ready = {}
    BY <1>2 DEF PutReady, Matches
  <2>5. \A m : Matches(m)'
    BY <1>1, <2>3 DEF Matches
  <2>6. BlobTypeOK'
    BY <2>2, <2>3 DEF BlobTypeOK
  <2>7. BlobRouted'
    BY <1>1, <2>2 DEF BlobRouted, Doing
  <2>8. Seen'
    BY <2>5 DEF Seen
  <2>9. Exclusive' /\ Untouched' /\ PutReady'
    BY <1>1, <2>2, <2>4 DEF Exclusive, Untouched, PutReady, Doing
  <2> QED
    BY <2>6, <2>7, <2>8, <2>9
<1>3. CASE object # Nil
  <2>1. UNCHANGED <<backend, object, disk, ready, erased>>
    BY <1>3
  <2>2. /\ writer' \in [Writers -> [pc : BlobPCs, media : Media \cup {Nil}]]
        /\ \A v \in Writers \ {w} : writer'[v] = writer[v]
        /\ \/ writer'[w].pc = "idle"
           \/ /\ writer'[w].pc = "sync" /\ writer'[w].media = writer[w].media
              /\ Matches(writer[w].media)
    <3>1. CASE Matches(Nil)
      <4>1. Matches(writer[w].media)
        BY <1>1, <3>1 DEF Matches
      <4> QED
        BY <1>3, <3>1, <4>1, MovesOn DEF BlobPCs
    <3>2. CASE ~Matches(Nil)
      BY <1>3, <3>2, GoesAway
    <3> QED
      BY <3>1, <3>2
  <2>3. BlobTypeOK' /\ BlobRouted'
    BY <1>1, <2>1, <2>2 DEF BlobTypeOK, BlobRouted, Doing
  <2>4. Seen'
    BY <2>1, <2>2, Unchanged DEF Seen, Doing
  <2>5. Exclusive' /\ Untouched'
    BY <1>1, <2>1, <2>2 DEF Exclusive, Untouched, Doing
  <2>6. PutReady'
    <3>1. \A m \in ready : Matches(m)'
      BY <2>1, Unchanged DEF PutReady
    <3> QED
      BY <1>1, <2>1, <3>1 DEF PutReady
  <2> QED
    BY <2>3, <2>4, <2>5, <2>6
<1> QED
  BY <1>2, <1>3

\* The name that is persisted is the object that the writer saw.
LEMMA PersistKeeps ==
    ASSUME BlobInv, NEW w \in Writers, Persist(w)
    PROVE  BlobInv'
<1> USE DEF BlobInv, Persist
<1>1. /\ writer[w].media \in Media
      /\ Matches(writer[w].media)
      /\ \A v \in Writers : ~Doing(v, "delete")
      /\ ~erased /\ ~erased'
  BY DEF BlobRouted, Seen, Exclusive, Untouched, Doing
<1>2. /\ writer' \in [Writers -> [pc : BlobPCs, media : Media \cup {Nil}]]
      /\ writer'[w].pc = "idle"
      /\ \A v \in Writers \ {w} : writer'[v] = writer[v]
  BY GoesAway
<1>3. BlobTypeOK'
  BY <1>1, <1>2 DEF BlobTypeOK
<1>4. BlobRouted'
  BY <1>2 DEF BlobRouted, Doing
<1>5. Seen'
  BY <1>2, Unchanged DEF Seen, Doing
<1>6. Exclusive' /\ Untouched'
  BY <1>1, <1>2 DEF Exclusive, Untouched, Doing
<1>7. PutReady'
  BY <1>1, Unchanged DEF PutReady
<1> QED
  BY <1>3, <1>4, <1>5, <1>6, <1>7

\* The two times S3 is asked what is there.
LEMMA HeadKeeps ==
    ASSUME BlobInv, NEW w \in Writers, HeadObject(w) \/ HeadAgain(w)
    PROVE  BlobInv'
<1> USE DEF BlobInv
<1>1. UNCHANGED <<backend, object, disk, ready, erased>>
  BY DEF HeadObject, HeadAgain
<1>2. /\ backend = "s3"
      /\ writer[w].media \in Media
      /\ \A v \in Writers : ~Doing(v, "delete")
      /\ ~erased
  BY DEF BlobRouted, Exclusive, Untouched, Doing, HeadObject, HeadAgain
<1>3. /\ writer' \in [Writers -> [pc : BlobPCs, media : Media \cup {Nil}]]
      /\ \A v \in Writers \ {w} : writer'[v] = writer[v]
      /\ \/ writer'[w].pc = "idle"
         \/ writer'[w].pc = "put" /\ writer'[w].media = writer[w].media
         \/ /\ writer'[w].pc = "sync" /\ writer'[w].media = writer[w].media
            /\ Matches(writer[w].media)
  <2>1. \/ writer' = Moved(w, "put")
        \/ writer' = Moved(w, "sync") /\ Matches(writer[w].media)
        \/ writer' = Away(w)
    BY DEF HeadObject, HeadAgain
  <2>2. CASE writer' = Moved(w, "put")
    BY <2>2, MovesOn DEF BlobPCs
  <2>3. CASE writer' = Moved(w, "sync") /\ Matches(writer[w].media)
    BY <2>3, MovesOn DEF BlobPCs
  <2>4. CASE writer' = Away(w)
    BY <2>4, GoesAway
  <2> QED
    BY <2>1, <2>2, <2>3, <2>4
<1>4. BlobTypeOK' /\ BlobRouted'
  BY <1>1, <1>2, <1>3 DEF BlobTypeOK, BlobRouted, Doing
<1>5. Seen'
  BY <1>1, <1>3, Unchanged DEF Seen, Doing
<1>6. Exclusive' /\ Untouched'
  BY <1>1, <1>2, <1>3 DEF Exclusive, Untouched, Doing
<1>7. PutReady'
  BY <1>1, Unchanged DEF PutReady
<1> QED
  BY <1>4, <1>5, <1>6, <1>7

\* A conditional request creates the object or leaves it, and what is there is durable.
LEMMA PutObjectKeeps ==
    ASSUME BlobInv, NEW w \in Writers, NEW answered \in BOOLEAN, PutObject(w, answered)
    PROVE  BlobInv'
<1> USE DEF BlobInv, PutObject
<1>1. /\ backend = "s3" /\ backend' = backend /\ disk' = object'
      /\ writer[w].media \in Media
      /\ \A v \in Writers : ~Doing(v, "delete")
      /\ ~erased /\ ~erased'
  BY DEF BlobRouted, Exclusive, Untouched, Doing
<1>2. /\ writer' \in [Writers -> [pc : BlobPCs, media : Media \cup {Nil}]]
      /\ \A v \in Writers \ {w} : writer'[v] = writer[v]
      /\ \/ writer'[w].pc = "idle"
         \/ writer'[w].pc = "head-again" /\ writer'[w].media = writer[w].media
  <2>1. CASE answered
    BY <2>1, MovesOn DEF BlobPCs
  <2>2. CASE ~answered
    BY <2>2, GoesAway
  <2> QED
    BY <2>1, <2>2
<1>3. /\ object' \in Objects
      /\ object # Nil => object' = object
      /\ object = Nil => ready = {} /\ \A v \in Writers : ~Doing(v, "sync")
  BY <1>1, ObjectIsObject DEF BlobTypeOK, PutReady, Seen, Matches
<1>4. BlobTypeOK' /\ BlobRouted'
  BY <1>1, <1>2, <1>3 DEF BlobTypeOK, BlobRouted, Doing
<1>5. Seen'
  BY <1>1, <1>2, <1>3, Unchanged DEF Seen, Doing
<1>6. Exclusive' /\ Untouched'
  BY <1>1, <1>2 DEF Exclusive, Untouched, Doing
<1>7. PutReady'
  BY <1>1, <1>3, Unchanged DEF PutReady
<1> QED
  BY <1>4, <1>5, <1>6, <1>7

LEMMA DeleteKeeps ==
    ASSUME BlobInv, NEW w \in Writers, NEW m \in Media, Delete(w, m)
    PROVE  BlobInv'
<1> USE DEF BlobInv, Delete
<1>1. /\ writer' \in [Writers -> [pc : BlobPCs, media : Media \cup {Nil}]]
      /\ writer'[w].pc = "delete" /\ writer'[w].media = m
      /\ \A v \in Writers \ {w} : writer'[v] = writer[v]
  BY OneMoves DEF BlobPCs
<1>2. \A v \in Writers \ {w} : writer'[v].pc = "idle"
  BY <1>1 DEF Quiet, Doing
<1>3. BlobTypeOK'
  BY <1>1 DEF BlobTypeOK
<1>4. BlobRouted'
  BY <1>1, <1>2 DEF BlobRouted, Doing
<1>5. Seen' /\ Exclusive' /\ Untouched'
  BY <1>1, <1>2 DEF Seen, Exclusive, Untouched, Doing
<1>6. PutReady'
  BY DEF PutReady, BlobTypeOK
<1> QED
  BY <1>3, <1>4, <1>5, <1>6

LEMMA DeletedKeeps ==
    ASSUME BlobInv, NEW w \in Writers, Deleted(w)
    PROVE  BlobInv'
<1> USE DEF BlobInv, Deleted
<1>1. object = Nil /\ ready = {} /\ \A v \in Writers \ {w} : Doing(v, "idle")
  BY DEF Exclusive
<1>2. /\ writer' \in [Writers -> [pc : BlobPCs, media : Media \cup {Nil}]]
      /\ writer'[w].pc = "idle"
      /\ \A v \in Writers \ {w} : writer'[v] = writer[v]
  BY GoesAway
<1>3. \A v \in Writers : writer'[v].pc = "idle"
  BY <1>1, <1>2 DEF Doing
<1>4. BlobTypeOK'
  BY <1>2 DEF BlobTypeOK
<1>5. BlobRouted' /\ Seen' /\ Exclusive' /\ Untouched'
  BY <1>3 DEF BlobRouted, Seen, Exclusive, Untouched, Doing
<1>6. PutReady'
  BY <1>1 DEF PutReady
<1> QED
  BY <1>4, <1>5, <1>6

\* What a power loss leaves of a reference that was handed out is its object.
LEMMA CrashKeeps ==
    ASSUME BlobInv, NEW power \in BOOLEAN, Crash(power)
    PROVE  BlobInv'
<1> USE DEF BlobInv, Crash
<1>1. \A v \in Writers : writer'[v] = Rest /\ writer'[v].pc = "idle"
  BY DEF Rest
<1>2. BlobTypeOK'
  BY DEF BlobTypeOK, Rest, BlobPCs
<1>3. BlobRouted' /\ Seen' /\ Exclusive' /\ Untouched'
  BY <1>1 DEF BlobRouted, Seen, Exclusive, Untouched, Doing
<1>4. ready # {} => object' = object
  BY DEF PutReady
<1>5. erased => object' = Nil
  BY DEF PutReady
<1>6. PutReady'
  BY <1>4, <1>5, Unchanged DEF PutReady
<1> QED
  BY <1>2, <1>3, <1>6

LEMMA BlobStep == BlobInv /\ [BlobsNext]_bvars => BlobInv'
<1> SUFFICES ASSUME BlobInv, [BlobsNext]_bvars PROVE BlobInv'
  OBVIOUS
<1>1. ASSUME NEW w \in Writers, NEW m \in Media,
             Stage(w, m) \/ EnsureReady(w, m) \/ Delete(w, m)
      PROVE  BlobInv'
  BY <1>1, StageKeeps, EnsureKeeps, DeleteKeeps
<1>2. ASSUME NEW w \in Writers,
             Link(w) \/ Persist(w) \/ HeadObject(w) \/ HeadAgain(w) \/ Deleted(w)
      PROVE  BlobInv'
  BY <1>2, LinkKeeps, PersistKeeps, HeadKeeps, DeletedKeeps
<1>3. ASSUME NEW w \in Writers, NEW answered \in BOOLEAN, PutObject(w, answered)
      PROVE  BlobInv'
  BY <1>3, PutObjectKeeps
<1>4. ASSUME NEW power \in BOOLEAN, Crash(power)
      PROVE  BlobInv'
  BY <1>4, CrashKeeps
<1>5. CASE UNCHANGED bvars
  BY <1>5 DEF bvars, BlobInv, BlobTypeOK, BlobRouted, Seen, Exclusive, Untouched, PutReady, Matches, Doing
<1> QED
  BY <1>1, <1>2, <1>3, <1>4, <1>5 DEF BlobsNext

-----------------------------------------------------------------------------
\* Every value stays in its type: the object at the address, what a power loss leaves
\* of it, the calls in progress and the references handed out.
THEOREM BlobsTypeCorrect == BlobsSpec => []BlobTypeOK
<1>1. BlobInv => BlobTypeOK
  BY DEF BlobInv
<1> QED
  BY BlobStarts, BlobStep, <1>1, PTL DEF BlobsSpec

\* However many writers race, lose answers, delete and crash: a reference that
\* put_if_absent or ensure_ready returned finds its exact object, also after a power
\* loss, until it is deleted, and a completed deletion stays completed.
THEOREM ReferencesReady == BlobsSpec => []PutReady
<1>1. BlobInv => PutReady
  BY DEF BlobInv
<1> QED
  BY BlobStarts, BlobStep, <1>1, PTL DEF BlobsSpec

-----------------------------------------------------------------------------
(***************************************************************************)
(* One acquisition, for every set of versions, sizes, locators, limits and *)
(* candidates.                                                             *)
(***************************************************************************)
TransferPCs == {"idle", "request", "head", "get", "stat", "bind", "stream", "store"} \cup Ended
Early == {"idle", "request", "head", "get", "stat"}
Lengths == {Unstated} \cup Counts \cup {Size[v] : v \in Versions}

CallType ==
    [pc : TransferPCs, cand : Candidates \cup {Unstated}, config : Nat, open : Nat,
     redirects : Nat, visited : SUBSET Urls, attempt : Nat, declared : Lengths,
     source : Versions \cup {Unstated}, version : Versions \cup {Unstated},
     got : Seq(Versions)]

TransferTypeOK ==
    /\ now \in Versions
    /\ drift \in Nat
    /\ call \in CallType
    /\ stored \subseteq Seq(Versions)

\* Each step belongs to a delegate, which knows the version it asks for; nothing was
\* received before the answer was bound.
Routed(c) ==
    /\ c.pc # "idle" => c.cand \in Candidates
    /\ c.pc \in Early \cup {"bind"} => c.got = <<>>
    /\ c.pc = "request" => c.cand.scheme = "https"
    /\ c.pc = "head" => c.cand.scheme = "s3"
    /\ c.pc = "get" => c.cand.scheme = "s3" /\ c.version \in Versions
    /\ c.pc = "stat" => c.cand.scheme = "local" /\ c.version = c.cand.pin

\* An answer is about one version of the object, which only newer ones replace.  S3 and
\* the local root declare its size, and report it as the version they found.
Answered(c) ==
    c.pc \in {"bind", "stream", "store", "captured"} =>
        /\ c.source \in Versions /\ c.source <= now
        /\ c.cand.scheme # "https" => c.declared = Size[c.source]
        /\ c.cand.scheme = "s3" \/ (c.cand.scheme = "local" /\ c.cand.pin = Unstated) =>
             c.version = c.source

\* What was received while the body streams: a response is of its version throughout,
\* a local file of the versions it had since its status was read.
Received(c) ==
    c.pc \in {"bind", "stream"} =>
        /\ Fits(Len(c.got))
        /\ \A i \in 1 .. Len(c.got) : c.got[i] >= c.source /\ c.got[i] <= now
        /\ c.cand.scheme # "local" => \A i \in 1 .. Len(c.got) : c.got[i] = c.source

\* A body that ended is a whole version, as long as it was declared to be.
Ends(c) ==
    c.pc \in {"store", "captured"} =>
        /\ Fits(Len(c.got))
        /\ c.declared \in {Unstated, Len(c.got)}
        /\ c.cand.scheme # "https" => c.got = Whole(c.source)

\* What the consumer checks before it keeps the record.
Kept(c) ==
    c.pc = "captured" =>
        /\ c.cand.size \in {Unstated, Len(c.got)}
        /\ c.cand.digest \in {Unstated, c.got}
        /\ c.got \in stored

\* Nothing is open before the answer, after the body, and at the end.
Open(c) == c.pc \in Early \cup {"store"} \cup Ended => c.open = 0

Good(c) == Routed(c) /\ Answered(c) /\ Received(c) /\ Ends(c) /\ Kept(c) /\ Open(c)

TransferInv == TransferTypeOK /\ Good(call)

-----------------------------------------------------------------------------
(* What the operators of the model give.                                   *)

\* The smaller limit allows at least an empty body.
LEMMA AllowanceIsLimit == Allowance \in Nat
<1> DEFINE S == {MaxBytes, MaxObject}
<1>1. \E x \in S : \A y \in S : x <= y
  BY FetchAssumption
<1>2. Allowance \in S
  BY <1>1 DEF Allowance, Min
<1> QED
  BY <1>2, FetchAssumption

\* The first version is one of the versions.
LEMMA FirstVersion == Min(Versions) \in Versions
<1>1. PICK x \in Versions : \A y \in Versions : ~(<<y, x>> \in OpToRel(<, Nat))
  BY NatLessThanWellFounded, WFMin, VersionAssumption
<1>2. \A y \in Versions : x <= y
  <2> SUFFICES ASSUME NEW y \in Versions, y < x PROVE FALSE
    BY VersionAssumption
  <2>1. <<y, x>> \in Nat \X Nat /\ <<y, x>>[1] < <<y, x>>[2]
    BY VersionAssumption
  <2> QED
    BY <1>1, <2>1 DEF OpToRel
<1> QED
  BY <1>2 DEF Min

\* A bounded number of attempts.
LEMMA NextAttempt ==
    ASSUME NEW n \in Nat
    PROVE  Min({n + 1, Attempts}) \in Nat
<1> DEFINE S == {n + 1, Attempts}
<1>1. \E x \in S : \A y \in S : x <= y
  BY FetchAssumption
<1>2. Min(S) \in S
  BY <1>1 DEF Min
<1> QED
  BY <1>2, FetchAssumption

\* The marks of a sequence of versions are numbers.
LEMMA MarksAreNumbers ==
    ASSUME NEW got \in Seq(Versions)
    PROVE  \A i \in 1 .. Len(got) : got[i] \in Nat
<1>1. \A i \in 1 .. Len(got) : got[i] \in Versions
  OBVIOUS
<1> QED
  BY <1>1, VersionAssumption

\* A sequence of as many marks of a version as it has chunks is that version.
LEMMA WholeVersion ==
    ASSUME NEW v \in Versions, NEW got \in Seq(Versions), Len(got) = Size[v],
           \A i \in 1 .. Len(got) : got[i] = v
    PROVE  got = Whole(v)
BY DEF Whole

-----------------------------------------------------------------------------
(* How a step changes the call.                                            *)

\* Every refusal closes what was open and keeps nothing.
LEMMA RefusedGood ==
    ASSUME NEW c \in CallType, c.cand \in Candidates
    PROVE  Refused(c) \in CallType /\ Good(Refused(c))
<1>1. PICK r : r = Refused(c)
  OBVIOUS
<1>2. /\ r \in CallType
      /\ r.pc = "refused" /\ r.open = 0 /\ r.cand = c.cand
  BY <1>1 DEF Refused, Closing, CallType, TransferPCs, Ended
<1>3. Good(r)
  BY <1>2 DEF Good, Routed, Answered, Received, Ends, Kept, Open, Early, Ended
<1> QED
  BY <1>1, <1>2, <1>3

LEMMA JudgedGood ==
    ASSUME NEW c \in CallType, c.cand \in Candidates, NEW ok \in BOOLEAN, ok => Good(c)
    PROVE  Judge(ok, c) \in CallType /\ Good(Judge(ok, c))
BY RefusedGood DEF Judge

\* A step that moves only the call keeps what is known when the new call is good.
LEMMA MovesGood ==
    ASSUME TransferInv, NEW c \in CallType, Good(c), Moves(c)
    PROVE  TransferInv'
<1>1. call' = c /\ now' = now /\ drift' = drift /\ stored' = stored
  BY DEF Moves
<1>2. TransferTypeOK'
  BY <1>1 DEF TransferInv, TransferTypeOK
<1>3. Good(c)'
  BY <1>1 DEF Good, Routed, Answered, Received, Ends, Kept, Open
<1> QED
  BY <1>1, <1>2, <1>3 DEF TransferInv

-----------------------------------------------------------------------------
(* One lemma for each kind of step.                                        *)

LEMMA TransferStarts == TransfersInit => TransferInv
<1> SUFFICES ASSUME TransfersInit PROVE TransferInv
  OBVIOUS
<1>1. NoCall \in CallType
  BY FetchAssumption DEF NoCall, CallType, TransferPCs, Lengths
<1>2. Good(NoCall)
  BY DEF NoCall, Good, Routed, Answered, Received, Ends, Kept, Open, Early, Ended
<1> QED
  BY <1>1, <1>2, FirstVersion DEF TransfersInit, TransferInv, TransferTypeOK

\* What a call in progress is known to be.
LEMMA InProgress ==
    ASSUME TransferInv
    PROVE  /\ call \in CallType /\ now \in Versions /\ now \in Nat
           /\ call.got \in Seq(Versions) /\ Len(call.got) \in Nat
           /\ Good(call)
           /\ call.pc # "idle" => call.cand \in Candidates
BY VersionAssumption DEF TransferInv, TransferTypeOK, Good, Routed, CallType

LEMMA BeginKeeps ==
    ASSUME TransferInv, NEW cand \in Candidates, Begin(cand)
    PROVE  TransferInv'
<1>1. PICK c : c = [call EXCEPT !.pc = FirstPc(cand), !.cand = cand, !.config = drift,
                                !.version = cand.pin]
  OBVIOUS
<1>2. /\ call \in CallType /\ call.pc = "idle" /\ call.got = <<>> /\ call.open = 0
      /\ drift \in Nat
  BY DEF TransferInv, TransferTypeOK, Good, Routed, Open, Begin, At, Early
<1>3. /\ cand.scheme \in {"https", "s3", "local"}
      /\ cand.pin \in Versions \cup {Unstated}
  BY DEF Candidates
<1>4. /\ FirstPc(cand) \in {"request", "head", "get", "stat"}
      /\ FirstPc(cand) = "request" => cand.scheme = "https"
      /\ FirstPc(cand) \in {"head", "get"} => cand.scheme = "s3"
      /\ FirstPc(cand) = "get" => cand.pin \in Versions
      /\ FirstPc(cand) = "stat" => cand.scheme = "local"
  BY <1>3 DEF FirstPc
<1>5. /\ c \in CallType
      /\ c.pc = FirstPc(cand) /\ c.cand = cand /\ c.version = cand.pin
      /\ c.got = <<>> /\ c.open = 0
  BY <1>1, <1>2, <1>3, <1>4 DEF CallType, TransferPCs
<1>6. Good(c)
  BY <1>4, <1>5 DEF Good, Routed, Answered, Received, Ends, Kept, Open, Early, Ended
<1>7. PICK ok \in BOOLEAN : Moves(Judge(ok, c))
  BY <1>1 DEF Begin
<1> QED
  BY <1>5, <1>6, <1>7, JudgedGood, MovesGood

LEMMA RedirectKeeps ==
    ASSUME TransferInv, NEW u \in Urls, Redirect(u)
    PROVE  TransferInv'
<1>1. PICK c : c = [call EXCEPT !.redirects = call.redirects + 1,
                                !.visited = call.visited \cup {u}]
  OBVIOUS
<1>2. /\ call \in CallType /\ Good(call) /\ call.pc = "request" /\ call.cand \in Candidates
  BY InProgress DEF Redirect, At
<1>3. /\ c \in CallType
      /\ c.pc = call.pc /\ c.cand = call.cand /\ c.got = call.got /\ c.open = call.open
  <2>1. PICK n, w : n = call.redirects + 1 /\ w = call.visited \cup {u}
    OBVIOUS
  <2>2. n \in Nat /\ w \in SUBSET Urls
    BY <1>2, <2>1 DEF CallType
  <2>3. c = [call EXCEPT !.redirects = n, !.visited = w]
    BY <1>1, <2>1
  <2> QED
    BY <1>2, <2>2, <2>3 DEF CallType
<1>4. Good(c)
  BY <1>2, <1>3 DEF Good, Routed, Answered, Received, Ends, Kept, Open, Early, Ended
<1>5. PICK d : d = [call EXCEPT !.open = call.open + 1]
  OBVIOUS
<1>6. d \in CallType /\ d.cand = call.cand
  BY <1>2, <1>5 DEF CallType
<1>7. Moves(c) \/ Moves(Refused(d))
  BY <1>1, <1>5 DEF Redirect, RefuseRedirect
<1> QED
  BY <1>2, <1>3, <1>4, <1>6, <1>7, RefusedGood, MovesGood

LEMMA BusyKeeps ==
    ASSUME TransferInv, Busy
    PROVE  TransferInv'
<1>1. PICK c : c = Closing([call EXCEPT !.open = call.open + 1])
  OBVIOUS
<1>2. /\ call \in CallType /\ Good(call) /\ call.pc = "request" /\ call.cand \in Candidates
  BY InProgress DEF Busy, At
<1>3. /\ c \in CallType
      /\ c.pc = call.pc /\ c.cand = call.cand /\ c.got = call.got /\ c.open = 0
      /\ c.attempt \in Nat
  BY <1>1, <1>2 DEF CallType, Closing
<1>4. PICK n \in Nat : n = Min({c.attempt + 1, Attempts})
  BY <1>3, NextAttempt
<1>5. PICK d : d = [c EXCEPT !.attempt = n, !.redirects = 0, !.visited = {Start}]
  OBVIOUS
<1>6. /\ d \in CallType
      /\ d.pc = call.pc /\ d.cand = call.cand /\ d.got = call.got /\ d.open = 0
  BY <1>3, <1>5, FetchAssumption DEF CallType
<1>7. Good(d)
  BY <1>2, <1>6 DEF Good, Routed, Answered, Received, Ends, Kept, Open, Early, Ended
<1>8. Moves(d) \/ Moves(Refused(c))
  BY <1>1, <1>4, <1>5 DEF Busy
<1> QED
  BY <1>2, <1>3, <1>6, <1>7, <1>8, RefusedGood, MovesGood

LEMMA DeclineKeeps ==
    ASSUME TransferInv, Decline \/ Break
    PROVE  TransferInv'
<1>1. call \in CallType /\ call.cand \in Candidates
  BY InProgress DEF Decline, Break
<1>2. PICK n \in {0, 1} : Moves(Refused([call EXCEPT !.open = call.open + n])) \/ Moves(Refused(call))
  BY DEF Decline, Break
<1>3. PICK c : c = [call EXCEPT !.open = call.open + n]
  OBVIOUS
<1>4. c \in CallType /\ c.cand = call.cand
  BY <1>1, <1>3 DEF CallType
<1> QED
  BY <1>1, <1>2, <1>3, <1>4, RefusedGood, MovesGood

\* A response that was answered, or a file whose status was read.
LEMMA BoundGood ==
    ASSUME TransferInv, call.pc \in {"request", "get", "stat"},
           NEW c \in CallType, c.pc = "bind", c.cand = call.cand, c.got = call.got,
           c.source = now,
           c.cand.scheme # "https" => c.declared = Size[now],
           c.cand.scheme = "s3" \/ (c.cand.scheme = "local" /\ c.cand.pin = Unstated) =>
               c.version = now
    PROVE  c.cand \in Candidates /\ Good(c)
<1>1. /\ call.got = <<>> /\ call.cand \in Candidates /\ now \in Versions /\ now \in Nat
  BY InProgress DEF Good, Routed, Early
<1>2. Len(c.got) = 0 /\ Fits(Len(c.got))
  BY <1>1, AllowanceIsLimit DEF Fits
<1> QED
  BY <1>1, <1>2 DEF Good, Routed, Answered, Received, Ends, Kept, Open, Early, Ended

LEMMA AnswerKeeps ==
    ASSUME TransferInv, NEW n \in {Unstated} \cup Counts, Answer(n)
    PROVE  TransferInv'
<1>1. PICK c : c = [call EXCEPT !.open = call.open + 1, !.pc = "bind", !.declared = n,
                                !.source = now]
  OBVIOUS
<1>2. /\ call \in CallType /\ call.pc = "request" /\ call.cand.scheme = "https"
      /\ now \in Versions
  BY InProgress DEF Answer, At, Good, Routed
<1>3. /\ c \in CallType
      /\ c.pc = "bind" /\ c.cand = call.cand /\ c.got = call.got /\ c.source = now
  <2>1. PICK k : k = call.open + 1
    OBVIOUS
  <2>2. k \in Nat /\ n \in Lengths
    BY <1>2, <2>1 DEF CallType, Lengths
  <2>3. c = [call EXCEPT !.open = k, !.pc = "bind", !.declared = n, !.source = now]
    BY <1>1, <2>1
  <2> QED
    BY <1>2, <2>2, <2>3 DEF CallType, TransferPCs
<1>4. c.cand \in Candidates /\ Good(c)
  BY <1>2, <1>3, BoundGood
<1>5. PICK ok \in BOOLEAN : Moves(Judge(ok, c))
  BY <1>1 DEF Answer
<1> QED
  BY <1>3, <1>4, <1>5, JudgedGood, MovesGood

LEMMA ObserveKeeps ==
    ASSUME TransferInv, Observe
    PROVE  TransferInv'
<1>1. PICK c : c = [call EXCEPT !.pc = "get", !.version = now]
  OBVIOUS
<1>2. /\ call \in CallType /\ Good(call) /\ call.pc = "head" /\ call.cand \in Candidates
      /\ now \in Versions
  BY InProgress DEF Observe, At
<1>3. /\ c \in CallType
      /\ c.pc = "get" /\ c.cand = call.cand /\ c.got = call.got /\ c.open = call.open
      /\ c.version = now
  BY <1>1, <1>2 DEF CallType, TransferPCs
<1>4. Good(c)
  BY <1>2, <1>3 DEF Good, Routed, Answered, Received, Ends, Kept, Open, Early, Ended
<1>5. PICK ok \in BOOLEAN : Moves(Judge(ok, c))
  BY <1>1 DEF Observe
<1> QED
  BY <1>2, <1>3, <1>4, <1>5, JudgedGood, MovesGood

LEMMA GetKeeps ==
    ASSUME TransferInv, Get
    PROVE  TransferInv'
<1>1. /\ call \in CallType /\ call.pc = "get" /\ call.cand \in Candidates
      /\ call.cand.scheme = "s3" /\ now \in Versions
  BY InProgress DEF Get, At, Good, Routed
<1>2. CASE Moves(Refused(call))
  BY <1>1, <1>2, RefusedGood, MovesGood
<1>3. CASE ~Moves(Refused(call))
  <2>1. PICK k, n : k = call.open + 1 /\ n = Size[now]
    OBVIOUS
  <2>2. PICK c : c = [call EXCEPT !.open = k, !.pc = "bind", !.source = now, !.declared = n]
    OBVIOUS
  <2>3. now = call.version /\ Moves(c)
    BY <1>3, <2>1, <2>2 DEF Get
  <2>4. k \in Nat /\ n \in Lengths
    BY <1>1, <2>1 DEF CallType, Lengths
  <2>5. /\ c \in CallType
        /\ c.pc = "bind" /\ c.cand = call.cand /\ c.got = call.got /\ c.source = now
        /\ c.declared = n /\ c.version = call.version
    BY <1>1, <2>2, <2>4 DEF CallType, TransferPCs
  <2>6. Good(c)
    BY <1>1, <2>1, <2>3, <2>5, BoundGood
  <2> QED
    BY <2>3, <2>5, <2>6, MovesGood
<1> QED
  BY <1>2, <1>3

LEMMA StatKeeps ==
    ASSUME TransferInv, Stat
    PROVE  TransferInv'
<1>1. /\ call \in CallType /\ call.pc = "stat" /\ call.cand \in Candidates
      /\ call.cand.scheme = "local" /\ call.version = call.cand.pin /\ now \in Versions
  BY InProgress DEF Stat, At, Good, Routed
<1>2. PICK v, n : /\ v = (IF call.version = Unstated THEN now ELSE call.version)
                  /\ n = Size[now]
  OBVIOUS
<1>3. PICK c : c = [call EXCEPT !.pc = "bind", !.source = now, !.declared = n, !.version = v]
  OBVIOUS
<1>4. v \in Versions \cup {Unstated} /\ n \in Lengths
  BY <1>1, <1>2 DEF CallType, Lengths
<1>5. /\ c \in CallType
      /\ c.pc = "bind" /\ c.cand = call.cand /\ c.got = call.got /\ c.source = now
      /\ c.declared = n /\ c.version = v
  BY <1>1, <1>3, <1>4 DEF CallType, TransferPCs
<1>6. c.cand \in Candidates /\ Good(c)
  BY <1>1, <1>2, <1>5, BoundGood
<1>7. PICK ok \in BOOLEAN : Moves(Judge(ok, c))
  BY <1>2, <1>3 DEF Stat
<1> QED
  BY <1>5, <1>6, <1>7, JudgedGood, MovesGood

\* The answer is bound, or the file opened: nothing is received yet.
LEMMA BindKeeps ==
    ASSUME TransferInv, Bind
    PROVE  TransferInv'
<1>1. PICK c : c = [call EXCEPT !.pc = "stream"]
  OBVIOUS
<1>2. /\ call \in CallType /\ Good(call) /\ call.pc = "bind" /\ call.cand \in Candidates
  BY InProgress DEF Bind, At
<1>3. /\ c \in CallType /\ c.pc = "stream"
      /\ c.cand = call.cand /\ c.got = call.got /\ c.declared = call.declared
      /\ c.source = call.source /\ c.version = call.version
  BY <1>1, <1>2 DEF CallType, TransferPCs
<1>4. Good(c)
  BY <1>2, <1>3 DEF Good, Routed, Answered, Received, Ends, Kept, Open, Early, Ended
<1>5. PICK ok \in BOOLEAN : Moves(Judge(ok, c))
  BY <1>1 DEF Bind
<1> QED
  BY <1>2, <1>3, <1>4, <1>5, JudgedGood, MovesGood

LEMMA OpenFileKeeps ==
    ASSUME TransferInv, OpenFile
    PROVE  TransferInv'
<1>1. PICK k : k = call.open + 1
  OBVIOUS
<1>2. PICK c : c = [call EXCEPT !.open = k]
  OBVIOUS
<1>3. /\ call \in CallType /\ Good(call) /\ call.pc = "stream" /\ call.cand \in Candidates
  BY InProgress DEF OpenFile, At
<1>4. /\ c \in CallType /\ c.pc = "stream"
      /\ c.cand = call.cand /\ c.got = call.got /\ c.declared = call.declared
      /\ c.source = call.source /\ c.version = call.version
  BY <1>1, <1>2, <1>3 DEF CallType
<1>5. Good(c)
  BY <1>3, <1>4 DEF Good, Routed, Answered, Received, Ends, Kept, Open, Early, Ended
<1>6. PICK ok \in BOOLEAN : Moves(Judge(ok, c))
  BY <1>1, <1>2 DEF OpenFile
<1> QED
  BY <1>3, <1>4, <1>5, <1>6, JudgedGood, MovesGood

\* A chunk is of the version the response was opened on, or of the file as it is now,
\* which is not older than its status.
LEMMA ChunkKeeps ==
    ASSUME TransferInv, Chunk
    PROVE  TransferInv'
<1>1. /\ call \in CallType /\ Good(call) /\ call.pc = "stream" /\ call.cand \in Candidates
      /\ now \in Versions /\ now \in Nat /\ call.got \in Seq(Versions)
  BY InProgress DEF Chunk, At
<1>2. /\ call.source \in Versions /\ call.source \in Nat /\ call.source <= now
  BY <1>1, VersionAssumption DEF Good, Answered
<1>3. PICK x : x = IF Local THEN now ELSE call.source
  OBVIOUS
<1>4. /\ x \in Versions /\ x \in Nat /\ x >= call.source /\ x <= now
      /\ call.cand.scheme # "local" => x = call.source
  BY <1>1, <1>2, <1>3 DEF Local
<1>5. PICK got : got = Append(call.got, x)
  OBVIOUS
<1>6. /\ got \in Seq(Versions) /\ Len(got) = Len(call.got) + 1
      /\ \A i \in 1 .. Len(call.got) : got[i] = call.got[i]
      /\ got[Len(got)] = x
  BY <1>1, <1>4, <1>5
<1>7. PICK c : c = [call EXCEPT !.got = got]
  OBVIOUS
<1>8. /\ c \in CallType /\ c.pc = "stream"
      /\ c.cand = call.cand /\ c.got = got /\ c.declared = call.declared
      /\ c.source = call.source /\ c.version = call.version
  BY <1>1, <1>6, <1>7 DEF CallType
<1>9. Moves(Judge(~Overruns(Len(got)), c))
  BY <1>3, <1>5, <1>6, <1>7 DEF Chunk
<1>10. ASSUME ~Overruns(Len(got)) PROVE Good(c)
  <2>1. Fits(Len(got))
    BY <1>10 DEF Overruns
  <2>2. \A i \in 1 .. Len(got) : i \in 1 .. Len(call.got) \/ i = Len(got)
    BY <1>6
  <2>3. \A i \in 1 .. Len(got) : got[i] >= call.source /\ got[i] <= now
    BY <1>1, <1>4, <1>6, <2>2 DEF Good, Received
  <2>4. call.cand.scheme # "local" => \A i \in 1 .. Len(got) : got[i] = call.source
    BY <1>1, <1>4, <1>6, <2>2 DEF Good, Received
  <2>5. Received(c)
    BY <1>8, <2>1, <2>3, <2>4 DEF Received
  <2> QED
    BY <1>1, <1>8, <2>5 DEF Good, Routed, Answered, Ends, Kept, Open, Early, Ended
<1>11. PICK ok \in BOOLEAN : ok = ~Overruns(Len(got))
  OBVIOUS
<1>12. ok => Good(c)
  BY <1>10, <1>11
<1> QED
  BY <1>1, <1>8, <1>9, <1>11, <1>12, JudgedGood, MovesGood

\* The body that ended is one version: a response never changes its version, and a
\* file whose status is the first one was not replaced in between.
LEMMA EndKeeps ==
    ASSUME TransferInv, End
    PROVE  TransferInv'
<1>1. /\ call \in CallType /\ Good(call) /\ call.pc = "stream" /\ call.cand \in Candidates
      /\ now \in Nat /\ call.got \in Seq(Versions) /\ Len(call.got) \in Nat
  BY InProgress DEF End, At
<1>2. /\ call.source \in Versions /\ call.source \in Nat
      /\ call.cand.scheme \in {"https", "s3", "local"}
      /\ \A i \in 1 .. Len(call.got) : call.got[i] \in Nat
  <2>1. call.source \in Versions /\ call.cand.scheme \in {"https", "s3", "local"}
    BY <1>1 DEF Good, Answered, Candidates
  <2> QED
    BY <1>1, <2>1, VersionAssumption, MarksAreNumbers
<1>3. PICK c : c = Closing([call EXCEPT !.pc = "store"])
  OBVIOUS
<1>4. /\ c \in CallType /\ c.pc = "store" /\ c.open = 0
      /\ c.cand = call.cand /\ c.got = call.got /\ c.declared = call.declared
      /\ c.source = call.source /\ c.version = call.version
  BY <1>1, <1>3 DEF CallType, TransferPCs, Closing
<1>5. Moves(Judge(Complete, c))
  BY <1>3 DEF End
<1>6. ASSUME Complete PROVE Good(c)
  <2>1. /\ call.cand.scheme = "https" => call.declared \in {Unstated, Len(call.got)}
        /\ call.cand.scheme # "https" => call.declared = Len(call.got)
        /\ call.cand.scheme = "local" => now = call.source
    BY <1>2, <1>6 DEF Complete
  <2>2. \A i \in 1 .. Len(call.got) : call.got[i] = call.source
    <3>1. CASE call.cand.scheme = "local"
      BY <1>1, <1>2, <2>1, <3>1 DEF Good, Received
    <3>2. CASE call.cand.scheme # "local"
      BY <1>1, <3>2 DEF Good, Received
    <3> QED
      BY <3>1, <3>2
  <2>3. ASSUME call.cand.scheme # "https" PROVE call.got = Whole(call.source)
    <3>1. Len(call.got) = Size[call.source]
      BY <1>1, <2>1, <2>3 DEF Good, Answered
    <3> QED
      BY <1>1, <1>2, <2>2, <3>1, WholeVersion
  <2>4. Ends(c)
    BY <1>1, <1>4, <2>1, <2>3 DEF Ends, Good, Received
  <2> QED
    BY <1>1, <1>4, <2>4 DEF Good, Routed, Answered, Received, Kept, Open, Early, Ended
<1>7. PICK ok \in BOOLEAN : ok = Complete
  BY DEF Complete, Agrees
<1>8. ok => Good(c)
  BY <1>6, <1>7
<1> QED
  BY <1>1, <1>4, <1>5, <1>7, <1>8, JudgedGood, MovesGood

\* The bytes are kept first; the record only when they are what the candidate says.
LEMMA StoreKeeps ==
    ASSUME TransferInv, Store
    PROVE  TransferInv'
<1>1. /\ call \in CallType /\ Good(call) /\ call.pc = "store" /\ call.cand \in Candidates
      /\ call.got \in Seq(Versions)
  BY InProgress DEF Store, At
<1>2. PICK c : c = [call EXCEPT !.pc = "captured"]
  OBVIOUS
<1>3. /\ c \in CallType /\ c.pc = "captured" /\ c.open = call.open
      /\ c.cand = call.cand /\ c.got = call.got /\ c.declared = call.declared
      /\ c.source = call.source /\ c.version = call.version
  BY <1>1, <1>2 DEF CallType, TransferPCs, Ended
<1>4. /\ stored' = stored \cup {call.got} /\ now' = now /\ drift' = drift
      /\ call' = Judge(/\ call.cand.digest \in {Unstated, call.got}
                       /\ Agrees(Len(call.got)), c)
  BY <1>2 DEF Store
<1>5. \/ call' = Refused(c)
      \/ /\ call' = c
         /\ c.cand.digest \in {Unstated, c.got}
         /\ c.cand.size \in {Unstated, Len(c.got)}
  BY <1>3, <1>4 DEF Judge, Agrees
<1>6. CASE call' = Refused(c)
  <2>1. PICK r \in CallType : r = Refused(c)
    BY <1>1, <1>3, RefusedGood
  <2>2. r.pc = "refused" /\ r.open = 0 /\ r.cand = call.cand
    BY <1>3, <2>1 DEF Refused, Closing, CallType
  <2>3. Good(r)'
    BY <1>1, <2>2 DEF Good, Routed, Answered, Received, Ends, Kept, Open, Early, Ended
  <2>4. TransferTypeOK'
    BY <1>1, <1>4, <1>6, <2>1 DEF TransferInv, TransferTypeOK
  <2> QED
    BY <1>6, <2>1, <2>3, <2>4 DEF TransferInv
<1>7. CASE /\ call' = c
           /\ c.cand.digest \in {Unstated, c.got}
           /\ c.cand.size \in {Unstated, Len(c.got)}
  <2>1. Kept(c)'
    BY <1>3, <1>4, <1>7 DEF Kept
  <2>2. Routed(c)' /\ Received(c)' /\ Open(c)'
    BY <1>1, <1>3 DEF Good, Routed, Received, Open, Early
  <2>3. Answered(c)' /\ Ends(c)'
    BY <1>1, <1>3, <1>4 DEF Good, Answered, Ends
  <2>4. TransferTypeOK'
    BY <1>1, <1>3, <1>4, <1>7 DEF TransferInv, TransferTypeOK
  <2> QED
    BY <1>7, <2>1, <2>2, <2>3, <2>4 DEF TransferInv, Good
<1> QED
  BY <1>5, <1>6, <1>7

\* A newer version at the source, or another configuration.
LEMMA SurroundingsKeep ==
    ASSUME TransferInv, Replace \/ Reconfigure
    PROVE  TransferInv'
<1>1. /\ call' = call /\ stored' = stored
      /\ now' \in Versions /\ now \in Nat /\ now <= now' /\ drift' \in Nat
  BY VersionAssumption DEF TransferInv, TransferTypeOK, Replace, Reconfigure
<1>2. TransferTypeOK'
  BY <1>1 DEF TransferInv, TransferTypeOK
<1>3. PICK c \in CallType : c = call
  BY InProgress
<1>4. /\ Good(c)
      /\ now' \in Nat
      /\ c.source \in Versions => c.source \in Nat
      /\ \A i \in 1 .. Len(c.got) : c.got[i] \in Nat
  <2>1. Good(c) /\ c.got \in Seq(Versions)
    BY <1>3, InProgress
  <2> QED
    BY <1>1, <2>1, VersionAssumption, MarksAreNumbers
<1>5. Routed(c)' /\ Ends(c)' /\ Kept(c)' /\ Open(c)'
  BY <1>1, <1>4 DEF Good, Routed, Ends, Kept, Open
<1>6. Answered(c)'
  BY <1>1, <1>4 DEF Good, Answered
<1>7. Received(c)'
  BY <1>1, <1>4 DEF Good, Received
<1> QED
  BY <1>1, <1>2, <1>3, <1>5, <1>6, <1>7 DEF TransferInv, Good

LEMMA TransferSteps == TransferInv /\ [TransfersNext]_tvars => TransferInv'
<1> SUFFICES ASSUME TransferInv, [TransfersNext]_tvars PROVE TransferInv'
  OBVIOUS
<1>1. ASSUME NEW cand \in Candidates, Begin(cand) PROVE TransferInv'
  BY <1>1, BeginKeeps
<1>2. ASSUME NEW u \in Urls, Redirect(u) PROVE TransferInv'
  BY <1>2, RedirectKeeps
<1>3. ASSUME NEW n \in {Unstated} \cup Counts, Answer(n) PROVE TransferInv'
  BY <1>3, AnswerKeeps
<1>4. CASE Busy \/ Decline \/ Observe \/ Get \/ Stat \/ Bind
  BY <1>4, BusyKeeps, DeclineKeeps, ObserveKeeps, GetKeeps, StatKeeps, BindKeeps
<1>5. CASE OpenFile \/ Chunk \/ End \/ Break \/ Store
  BY <1>5, OpenFileKeeps, ChunkKeeps, EndKeeps, DeclineKeeps, StoreKeeps
<1>6. CASE Replace \/ Reconfigure
  BY <1>6, SurroundingsKeep
<1>7. CASE UNCHANGED tvars
  <2>1. now' = now /\ drift' = drift /\ call' = call /\ stored' = stored
    BY <1>7 DEF tvars
  <2>2. Good(call)'
    BY <2>1 DEF TransferInv, Good, Routed, Answered, Received, Ends, Kept, Open
  <2> QED
    BY <2>1, <2>2 DEF TransferInv, TransferTypeOK
<1> QED
  BY <1>1, <1>2, <1>3, <1>4, <1>5, <1>6, <1>7 DEF TransfersNext, Proceed

-----------------------------------------------------------------------------
\* Every value stays in its type: the call, the version at the source and the bytes in
\* the store.
THEOREM TransfersTypeCorrect == TransfersSpec => []TransferTypeOK
<1>1. TransferInv => TransferTypeOK
  BY DEF TransferInv
<1> QED
  BY TransferStarts, TransferSteps, <1>1, PTL DEF TransfersSpec

\* Whatever the source answers, cuts, repeats and replaces: what a capture keeps is
\* within the limits, of the candidate's digest and size, and from S3 or a local root
\* one whole version, the recorded one; and every response is closed at the end.
THEOREM CapturesExact == TransfersSpec => []TransferExact
<1>1. TransferInv => TransferExact
  <2> SUFFICES ASSUME TransferInv PROVE TransferExact
    OBVIOUS
  <2>1. Good(call)
    BY DEF TransferInv
  <2>2. HandlesReleased
    BY <2>1 DEF HandlesReleased, Good, Open
  <2>3. CapturedExact
    BY <2>1 DEF CapturedExact, At, Good, Answered, Ends, Kept, Agrees, Local
  <2> QED
    BY <2>2, <2>3 DEF TransferExact
<1> QED
  BY TransferStarts, TransferSteps, <1>1, PTL DEF TransfersSpec

(***************************************************************************)
(* Recognition by pages, for every set of cases and answers.               *)
(***************************************************************************)
\* A function that starts at a and goes on by F exists.
LEMMA Iterated ==
    ASSUME NEW X, NEW a \in X, NEW N \in Nat, NEW F \in [1..N -> [X -> X]]
    PROVE  \E g \in [0..N -> X] : g[0] = a /\ \A n \in 1..N : g[n] = F[n][g[n - 1]]
<1> DEFINE Reached(M) == \E g \in [0..M -> X] : g[0] = a /\ \A n \in 1..M : g[n] = F[n][g[n - 1]]
           T == {M \in Nat : M <= N /\ ~ Reached(M)}
<1>1. SUFFICES ASSUME ~ Reached(N) PROVE FALSE
  OBVIOUS
<1> HIDE DEF Reached
<1>2. N \in T /\ T \subseteq Nat
  BY <1>1
<1>3. PICK M \in T : \A u \in T : ~ (<<u, M>> \in OpToRel(<, Nat))
  <2> HIDE DEF T
  <2> QED
    BY <1>2, WFMin, NatLessThanWellFounded
<1>4. M \in Nat /\ M <= N /\ ~ Reached(M)
  OBVIOUS
<1>5. CASE M = 0
  <2> DEFINE g == [n \in 0..0 |-> a]
  <2>1. g \in [0..0 -> X] /\ g[0] = a /\ \A n \in 1..0 : g[n] = F[n][g[n - 1]]
    OBVIOUS
  <2>2. Reached(0)
    BY <2>1 DEF Reached
  <2> QED
    BY <1>4, <1>5, <2>2
<1>6. CASE M # 0
  <2>1. M - 1 \in Nat /\ M - 1 < M /\ M - 1 <= N /\ M \in 1..N
    BY <1>4, <1>6
  <2>2. Reached(M - 1)
    <3>1. <<M - 1, M>> \in OpToRel(<, Nat)
      BY <1>4, <2>1 DEF OpToRel
    <3>2. M - 1 \notin T
      BY <1>3, <3>1
    <3> QED
      BY <2>1, <3>2
  <2>3. PICK h \in [0..(M - 1) -> X] : h[0] = a /\ \A n \in 1..(M - 1) : h[n] = F[n][h[n - 1]]
    BY <2>2 DEF Reached
  <2> DEFINE g == [n \in 0..M |-> IF n = M THEN F[M][h[M - 1]] ELSE h[n]]
  <2>4. F[M][h[M - 1]] \in X
    BY <2>1, <2>3
  <2>5. g \in [0..M -> X]
    BY <1>4, <2>3, <2>4
  <2>6. g[0] = a
    BY <1>4, <1>6, <2>3
  <2>7. \A n \in 1..M : g[n] = F[n][g[n - 1]]
    <3> TAKE n \in 1..M
    <3>1. n - 1 \in 0..M /\ n - 1 # M /\ g[n - 1] = h[n - 1]
      BY <1>4
    <3>2. CASE n = M
      BY <3>1, <3>2, <1>4
    <3>3. CASE n # M
      <4>1. n \in 1..(M - 1) /\ g[n] = h[n]
        BY <3>3, <1>4
      <4> QED
        BY <4>1, <3>1, <2>3
    <3> QED
      BY <3>2, <3>3
  <2> HIDE DEF g
  <2> QED
    BY <2>5, <2>6, <2>7, <1>4 DEF Reached
<1> QED
  BY <1>5, <1>6

\* Sequences of sequences, each of them laid end to end.
Texts(S) == Seq(Seq(S))

LEMMA Flattened ==
    ASSUME NEW S, NEW seqs \in Texts(S)
    PROVE  FlattenSeq(seqs) \in Seq(S)
<1> DEFINE N == Len(seqs)
           Step(f) == [i \in 1..N |-> IF i = 1 THEN seqs[i] ELSE f[i - 1] \o seqs[i]]
           whole == CHOOSE f : f = Step(f)
<1> HIDE DEF whole, Step
<1>0. seqs \in Seq(Seq(S))
    BY DEF Texts
<1>1. N \in Nat /\ \A i \in 1..N : seqs[i] \in Seq(S)
    BY <1>0
<1>2. CASE N = 0
    <2>1. seqs = <<>>
        BY <1>0, <1>2
    <2> QED
        BY <2>1 DEF FlattenSeq
<1>3. CASE N # 0
    <2> DEFINE X == Seq(S)
               F == [n \in 1..N |-> [x \in X |-> x \o seqs[n]]]
               none == <<>>
    <2>b. \A n \in 1..N : \A x \in X : x \o seqs[n] \in X
        BY <1>1
    <2>d. none \in X
        OBVIOUS
    <2> HIDE DEF X, none, N
    <2>c. F \in [1..N -> [X -> X]]
        BY <2>b
    <2>a. \A n \in 1..N : \A x \in X : F[n][x] = x \o seqs[n]
        OBVIOUS
    <2> HIDE DEF F
    <2>9. N \in Nat
        BY <1>1
    <2>1. PICK g \in [0..N -> X] : g[0] = none /\ \A n \in 1..N : g[n] = F[n][g[n - 1]]
        BY <2>d, <2>c, <2>9, Iterated
    <2>3. ASSUME NEW n \in 1..N PROVE g[n] = g[n - 1] \o seqs[n]
        <3>1. n - 1 \in 0..N
            BY <1>1
        <3> QED
            BY <3>1, <2>1, <2>a
    <2> USE DEF none, X
    <2>2. g[0] = <<>>
        BY <2>1
    <2> DEFINE h == [n \in 1..N |-> g[n]]
    <2> USE DEF Step
    <2>4. h = Step(h)
        <3>1. ASSUME NEW n \in 1..N PROVE h[n] = (IF n = 1 THEN seqs[n] ELSE h[n - 1] \o seqs[n])
            <4>1. CASE n = 1
                <5>0. 1 \in 1..N
                    BY <4>1
                <5>1. g[1] = g[1 - 1] \o seqs[1]
                    BY <2>3, <5>0, Zenon
                <5>9. 1 - 1 = 0
                    OBVIOUS
                <5>2. seqs[1] \in Seq(S) /\ g[0] = <<>>
                    BY <1>1, <2>2, <4>1
                <5>3. <<>> \o seqs[1] = seqs[1]
                    BY <5>2
                <5>4. g[1] = seqs[1]
                    BY <5>1, <5>2, <5>3, <5>9
                <5> QED
                    BY <5>4, <4>1
            <4>2. CASE n # 1
                <5>1. n - 1 \in 1..N
                    BY <1>1, <4>2
                <5> QED
                    BY <5>1, <2>3, <4>2
            <4> QED
                BY <4>1, <4>2
        <3> HIDE DEF h
        <3>2. h = [n \in 1..N |-> h[n]]
            BY DEF h
        <3> QED
            BY <3>1, <3>2
    <2>5. whole = Step(whole)
        <3> HIDE DEF Step, h
        <3> USE DEF whole
        <3> QED
            BY <2>4
    <2>6. DOMAIN whole = 1..N /\ \A n \in 1..N : whole[n] = (IF n = 1 THEN seqs[n] ELSE whole[n - 1] \o seqs[n])
        BY <2>5
    <2> HIDE DEF Step
    <2> DEFINE T == {n \in Nat : n \in 1..N /\ whole[n] \notin Seq(S)}
    <2>7. ASSUME N \in T PROVE FALSE
        <3>1. T \subseteq Nat
            OBVIOUS
        <3>2. PICK M \in T : \A u \in T : ~ (<<u, M>> \in OpToRel(<, Nat))
            <4> HIDE DEF T
            <4> QED
                BY <2>7, <3>1, WFMin, NatLessThanWellFounded
        <3>3. CASE M = 1
            BY <3>2, <3>3, <2>6, <1>1
        <3>4. CASE M # 1
            <4>0. M \in Nat /\ M \in 1..N
                BY <3>2
            <4>1. M - 1 \in 1..N /\ M - 1 \in Nat
                BY <4>0, <3>4, <1>1
            <4>2. <<M - 1, M>> \in OpToRel(<, Nat)
                BY <4>1, <3>2, <1>1 DEF OpToRel
            <4>3. whole[M - 1] \in Seq(S)
                BY <4>1, <4>2, <3>2
            <4>4. whole[M] = whole[M - 1] \o seqs[M]
                BY <3>2, <3>4, <2>6
            <4>5. seqs[M] \in Seq(S)
                BY <4>0, <1>1
            <4>6. whole[M] \in Seq(S)
                BY <4>3, <4>4, <4>5
            <4> QED
                BY <4>6, <3>2
        <3> QED
            BY <3>3, <3>4
    <2>8. whole[N] \in Seq(S)
        BY <2>7, <1>1, <1>3
    <2> QED
        BY <2>8, <1>3, Zenon DEF FlattenSeq, whole, Step, N
<1> QED
    BY <1>2, <1>3

\* Text is encoded as text.
LEMMA EncodeType ==
    ASSUME NEW S, "cont" \in S, NEW t \in Seq(S)
    PROVE  Encode(t) \in Seq(S)
<1> DEFINE parts == [i \in DOMAIN t |-> IF Width(t[i]) = 2 THEN <<t[i], "cont">> ELSE <<t[i]>>]
           X == Seq(S)
<1>1. \A i \in 1..Len(t) : t[i] \in S
    OBVIOUS
<1>2. \A x \in S : <<x>> \in X /\ <<x, "cont">> \in X
    OBVIOUS
<1>3. Len(t) \in Nat /\ DOMAIN t = 1..Len(t)
    OBVIOUS
<1> HIDE DEF X
<1>4. parts \in Seq(X)
    <2>1. \A i \in 1..Len(t) : parts[i] \in X
        BY <1>1, <1>2, <1>3
    <2>2. parts = [i \in 1..Len(t) |-> parts[i]]
        BY <1>3
    <2> HIDE DEF parts
    <2> QED
        BY <2>1, <2>2, <1>3
<1> HIDE DEF parts
<1>5. parts \in Texts(S)
    BY <1>4 DEF Texts, X
<1>6. FlattenSeq(parts) \in Seq(S)
    BY <1>5, Flattened
<1> QED
    BY <1>6 DEF Encode, parts

\* Pages joined are text.
LEMMA PageContentType ==
    ASSUME NEW S, {"cont", "lf", "ff"} \subseteq S, NEW texts \in Texts(S)
    PROVE  PageContent(texts) \in Seq(S)
<1> DEFINE parts == [i \in DOMAIN texts |-> IF i = 1 THEN Encode(texts[1]) ELSE Separator \o Encode(texts[i])]
           X == Seq(S)
<1>0. texts \in Seq(Seq(S))
    BY DEF Texts
<1>1. Len(texts) \in Nat /\ DOMAIN texts = 1..Len(texts) /\ \A i \in 1..Len(texts) : texts[i] \in Seq(S)
    BY <1>0
<1>2. \A i \in 1..Len(texts) : Encode(texts[i]) \in Seq(S)
    BY <1>1, EncodeType
<1>3. Separator \in Seq(S)
    BY DEF Separator
<1>4. \A i \in 1..Len(texts) : Separator \o Encode(texts[i]) \in Seq(S)
    BY <1>2, <1>3
<1>5. parts \in Seq(X)
    <2>1. \A i \in 1..Len(texts) : parts[i] \in X
        BY <1>1, <1>2, <1>4
    <2>2. parts = [i \in 1..Len(texts) |-> parts[i]]
        BY <1>1
    <2> HIDE DEF parts, X
    <2> QED
        BY <2>1, <2>2, <1>1
<1> HIDE DEF parts
<1>6. parts \in Texts(S)
    BY <1>5 DEF Texts
<1>7. FlattenSeq(parts) \in Seq(S)
    BY <1>6, Flattened
<1> QED
    BY <1>7 DEF PageContent, parts

-----------------------------------------------------------------------------
\* The items recognition keeps: the bytes of an answer, or a manifest of all of them.
KeptItems == [label : {"bytes", "failure", "observations"}, pages : Seq(Answers)]

\* The answers that carry bytes, the items with bytes, and the others.
Carriers(ps) == {i \in DOMAIN ps : ps[i].carries = "bytes"}
Items(ev) == {i \in DOMAIN ev : ev[i].label = "bytes"}
Manifests(ev) == {i \in DOMAIN ev : ev[i].label # "bytes"}

\* The bytes of each answer that was taken are an item.
Collected(ps, ev) ==
    /\ ps \in Seq(Answers) /\ ev \in Seq(KeptItems)
    /\ Cardinality(Items(ev)) >= Cardinality(Carriers(ps))

NotRecognized == {"captured", "planned", "reading", "recognizing"}
MaybeRecognized == {"extracted", "cut", "slicing", "bounding", "segmented", "checked", "failed"}

\* Once recognition has ended: one manifest, last, of all the answers taken, and complete
\* when there is a representation.
Concluded(ps, ev, r, requested) ==
    /\ ps # <<>> => Manifests(ev) = {Len(ev)} /\ Last(ev).pages = ps
    /\ r # None => /\ Last(ev).label = "observations"
                   /\ [i \in DOMAIN ps |-> ps[i].page] = requested
                   /\ [i \in DOMAIN r.mappings |-> r.mappings[i].evidence.page] = requested
    /\ r = None /\ Manifests(ev) # {} => Last(ev).label = "failure"

RecognitionInv ==
    /\ file \in {c.file : c \in Cases}
    /\ stage \in NotRecognized \cup MaybeRecognized
    /\ Collected(pages, evidence)
    /\ stage \in NotRecognized => rep = None /\ Manifests(evidence) = {}
    /\ stage \in {"captured", "planned"} => pages = <<>>
    /\ stage = "reading" => Extractor # "ocr"
    /\ stage \in MaybeRecognized /\ Extractor = "ocr" => Concluded(pages, evidence, rep, Requested)

\* One item more.
LEMMA ItemAdded ==
    ASSUME NEW ev \in Seq(KeptItems), NEW k \in KeptItems
    PROVE  /\ ev \o <<k>> \in Seq(KeptItems) /\ Len(ev \o <<k>>) = Len(ev) + 1
           /\ Last(ev \o <<k>>) = k
           /\ Cardinality(Items(ev \o <<k>>)) = Cardinality(Items(ev)) + (IF k.label = "bytes" THEN 1 ELSE 0)
           /\ Cardinality(Items(ev \o <<k>>)) \in Nat
           /\ Manifests(ev \o <<k>>) = IF k.label = "bytes" THEN Manifests(ev) ELSE Manifests(ev) \cup {Len(ev) + 1}
<1> DEFINE more == ev \o <<k>>
           n == Len(ev)
<1>1. /\ more \in Seq(KeptItems) /\ Len(more) = n + 1 /\ n \in Nat /\ DOMAIN more = 1..(n + 1) /\ DOMAIN ev = 1..n
      /\ more[n + 1] = k /\ \A i \in 1..n : more[i] = ev[i]
    OBVIOUS
<1> HIDE DEF more, n
<1>2. Last(more) = k
    BY <1>1 DEF Last
<1>3. IsFiniteSet(Items(ev)) /\ n + 1 \notin Items(ev)
    <2>1. Items(ev) \subseteq 1..n
        BY <1>1 DEF Items
    <2>2. IsFiniteSet(1..n)
        BY <1>1, FS_Interval
    <2>3. n + 1 \notin 1..n
        BY <1>1
    <2> QED
        BY <2>1, <2>2, <2>3, FS_Subset
<1>4. Items(more) = Items(ev) \cup (IF k.label = "bytes" THEN {n + 1} ELSE {})
    BY <1>1 DEF Items
<1>5. Manifests(more) = IF k.label = "bytes" THEN Manifests(ev) ELSE Manifests(ev) \cup {n + 1}
    BY <1>1 DEF Manifests
<1>6. Cardinality(Items(ev)) \in Nat
    BY <1>3, FS_CardinalityType
<1>7. Cardinality(Items(more)) = Cardinality(Items(ev)) + (IF k.label = "bytes" THEN 1 ELSE 0)
    <2>1. CASE k.label = "bytes"
        <3>1. Items(more) = Items(ev) \cup {n + 1}
            BY <2>1, <1>4
        <3> QED
            BY <3>1, <2>1, <1>3, FS_AddElement
    <2>2. CASE k.label # "bytes"
        <3>1. Items(more) = Items(ev)
            BY <2>2, <1>4
        <3> QED
            BY <3>1, <2>2, <1>6
    <2> QED
        BY <2>1, <2>2
<1> QED
    BY <1>1, <1>2, <1>5, <1>6, <1>7 DEF more, n

LEMMA AnswerAdded ==
    ASSUME NEW ps \in Seq(Answers), NEW x \in Answers
    PROVE  /\ Append(ps, x) \in Seq(Answers)
           /\ Cardinality(Carriers(Append(ps, x))) = Cardinality(Carriers(ps)) + (IF x.carries = "bytes" THEN 1 ELSE 0)
           /\ Cardinality(Carriers(ps)) \in Nat
<1> DEFINE more == Append(ps, x)
           n == Len(ps)
<1>1. /\ more \in Seq(Answers) /\ n \in Nat /\ DOMAIN more = 1..(n + 1) /\ DOMAIN ps = 1..n
      /\ more[n + 1] = x /\ \A i \in 1..n : more[i] = ps[i]
    OBVIOUS
<1> HIDE DEF more, n
<1>3. IsFiniteSet(Carriers(ps)) /\ n + 1 \notin Carriers(ps)
    <2>1. Carriers(ps) \subseteq 1..n
        BY <1>1 DEF Carriers
    <2>2. IsFiniteSet(1..n)
        BY <1>1, FS_Interval
    <2>3. n + 1 \notin 1..n
        BY <1>1
    <2> QED
        BY <2>1, <2>2, <2>3, FS_Subset
<1>4. Carriers(more) = Carriers(ps) \cup (IF x.carries = "bytes" THEN {n + 1} ELSE {})
    BY <1>1 DEF Carriers
<1>6. Cardinality(Carriers(ps)) \in Nat
    BY <1>3, FS_CardinalityType
<1>7. Cardinality(Carriers(more)) = Cardinality(Carriers(ps)) + (IF x.carries = "bytes" THEN 1 ELSE 0)
    <2>1. CASE x.carries = "bytes"
        <3>1. Carriers(more) = Carriers(ps) \cup {n + 1}
            BY <2>1, <1>4
        <3> QED
            BY <3>1, <2>1, <1>3, FS_AddElement
    <2>2. CASE x.carries # "bytes"
        <3>1. Carriers(more) = Carriers(ps)
            BY <2>2, <1>4
        <3> QED
            BY <3>1, <2>2, <1>6
    <2> QED
        BY <2>1, <2>2
<1> QED
    BY <1>1, <1>6, <1>7 DEF more

\* What an answer carries is items with bytes: one if it carries bytes alone or with an object.
LEMMA CarriedAdded ==
    ASSUME NEW ev \in Seq(KeptItems), NEW x
    PROVE  /\ ev \o Carried(x) \in Seq(KeptItems)
           /\ Manifests(ev \o Carried(x)) = Manifests(ev)
           /\ Cardinality(Items(ev \o Carried(x)))
                = Cardinality(Items(ev)) + (IF x.carries \in {"bytes", "both"} THEN 1 ELSE 0)
           /\ Cardinality(Items(ev \o Carried(x))) \in Nat /\ Cardinality(Items(ev)) \in Nat
<1> DEFINE k == [label |-> "bytes", pages |-> <<>>]
<1>1. k \in KeptItems /\ k.label = "bytes"
    BY DEF KeptItems
<1> HIDE DEF k
<1>2. Cardinality(Items(ev)) \in Nat
    <2>1. Items(ev) \subseteq 1..Len(ev) /\ Len(ev) \in Nat
        BY DEF Items
    <2>2. IsFiniteSet(1..Len(ev))
        BY <2>1, FS_Interval
    <2> QED
        BY <2>1, <2>2, FS_Subset, FS_CardinalityType
<1>3. CASE x.carries \in {"bytes", "both"}
    <2>1. Carried(x) = <<k>>
        BY <1>3 DEF Carried, k
    <2> QED
        BY <2>1, <1>1, <1>2, <1>3, ItemAdded
<1>4. CASE x.carries \notin {"bytes", "both"}
    <2>1. Carried(x) = <<>>
        BY <1>4 DEF Carried
    <2>2. ev \o <<>> = ev
        OBVIOUS
    <2> QED
        BY <2>1, <2>2, <1>2, <1>4
<1> QED
    BY <1>3, <1>4

\* A failure is a manifest of what was taken.
LEMMA FailureConcludes ==
    ASSUME NEW ps, NEW ev, NEW requested, Collected(ps, ev), Manifests(ev) = {}
    PROVE  LET found == ev \o <<[label |-> "failure", pages |-> ps]>> IN
           Collected(ps, found) /\ Concluded(ps, found, None, requested)
<1> DEFINE k == [label |-> "failure", pages |-> ps]
           found == ev \o <<k>>
<1>1. k \in KeptItems /\ k.label = "failure" /\ k.pages = ps /\ ev \in Seq(KeptItems) /\ ps \in Seq(Answers)
    BY DEF KeptItems, Collected
<1> HIDE DEF k
<1>2. /\ found \in Seq(KeptItems) /\ Len(found) = Len(ev) + 1 /\ Last(found) = k
      /\ Cardinality(Items(found)) = Cardinality(Items(ev)) + 0
      /\ Cardinality(Items(found)) \in Nat
      /\ Manifests(found) = Manifests(ev) \cup {Len(ev) + 1}
    BY <1>1, ItemAdded
<1>3. Len(ev) \in Nat
    BY <1>1
<1>4. Cardinality(Items(ev)) \in Nat
    <2>1. Items(ev) \subseteq 1..Len(ev)
        BY <1>1 DEF Items
    <2>2. IsFiniteSet(1..Len(ev))
        BY <1>3, FS_Interval
    <2> QED
        BY <2>1, <2>2, FS_Subset, FS_CardinalityType
<1> HIDE DEF found
<1>5. Collected(ps, found)
    BY <1>1, <1>2, <1>4 DEF Collected
<1>6. Concluded(ps, found, None, requested)
    BY <1>1, <1>2 DEF Concluded
<1> QED
    BY <1>5, <1>6 DEF found, k

LEMMA TakePageInv ==
    ASSUME RecognitionInv, NEW x \in Answers, TakePage(x) \/ RecognitionFails(x)
    PROVE  RecognitionInv'
<1>1. stage = "recognizing" /\ file' = file /\ setup' = setup /\ rep' = rep
    BY DEF TakePage, RecognitionFails, FailRecognition, Fail, fixed
<1>2. Collected(pages, evidence) /\ Manifests(evidence) = {} /\ rep = None /\ file \in {c.file : c \in Cases}
    BY <1>1 DEF RecognitionInv, NotRecognized
<1>3. evidence \in Seq(KeptItems) /\ pages \in Seq(Answers)
    BY <1>2 DEF Collected
<1>4. /\ evidence \o Carried(x) \in Seq(KeptItems) /\ Manifests(evidence \o Carried(x)) = {}
      /\ Cardinality(Items(evidence \o Carried(x)))
           = Cardinality(Items(evidence)) + (IF x.carries \in {"bytes", "both"} THEN 1 ELSE 0)
      /\ Cardinality(Items(evidence)) \in Nat
    BY <1>2, <1>3, CarriedAdded
<1>5. Cardinality(Carriers(pages)) \in Nat
    BY <1>3, AnswerAdded
<1>6. Collected(pages, evidence \o Carried(x))
    BY <1>2, <1>3, <1>4, <1>5 DEF Collected
<1>7. ASSUME NEW found, FailRecognition(found), Collected(pages, found), Manifests(found) = {}
      PROVE  RecognitionInv'
    <2>1. /\ stage' = "failed" /\ pages' = pages
          /\ evidence' = found \o <<[label |-> "failure", pages |-> pages]>>
        BY <1>7 DEF FailRecognition, Fail
    <2>2. Collected(pages', evidence') /\ Concluded(pages', evidence', None, Requested')
        BY <1>7, <2>1, FailureConcludes
    <2> QED
        BY <1>1, <1>2, <2>1, <2>2 DEF RecognitionInv, NotRecognized, MaybeRecognized
<1>8. CASE RecognitionFails(x)
    BY <1>8, <1>7, <1>6, <1>4 DEF RecognitionFails
<1>9. CASE TakePage(x) /\ FailRecognition(evidence)
    BY <1>9, <1>7, <1>2
<1>10. CASE TakePage(x) /\ FailRecognition(evidence \o Carried(x))
    BY <1>10, <1>7, <1>6, <1>4
<1>11. CASE /\ x.carries \notin {"object", "both"}
            /\ pages' = Append(pages, x) /\ evidence' = evidence \o Carried(x) /\ stage' = stage
    <2>1. /\ Append(pages, x) \in Seq(Answers)
          /\ Cardinality(Carriers(Append(pages, x))) = Cardinality(Carriers(pages)) + (IF x.carries = "bytes" THEN 1 ELSE 0)
        BY <1>3, AnswerAdded
    <2>2. Cardinality(Items(evidence)) >= Cardinality(Carriers(pages))
        BY <1>2 DEF Collected
    <2>3. Collected(pages', evidence')
        BY <1>11, <1>4, <1>5, <2>1, <2>2 DEF Collected
    <2> QED
        BY <1>1, <1>2, <1>11, <2>3, <1>4 DEF RecognitionInv, NotRecognized, MaybeRecognized
<1> QED
    BY <1>8, <1>9, <1>10, <1>11 DEF TakePage

\* Recognized pages make a representation, with a mapping for each.
LEMMA RecognizedType ==
    ASSUME NEW texts \in Texts(Characters), NEW numbers \in Seq(Int), Len(numbers) = Len(texts), file.digest \in Digests
    PROVE  LET r == Representing("pdf-text", PageContent(texts), PageMappings(texts, numbers, "recognition")) IN
           /\ r # None
           /\ DOMAIN r.mappings = 1..Len(texts)
           /\ \A i \in 1..Len(texts) : r.mappings[i].evidence.page = numbers[i]
<1> DEFINE Shape == [from : Nat, to : Nat, how : {"recognition"},
                     evidence : [source : Digests, start : {None}, end : {None}, page : Int]]
           ms == PageMappings(texts, numbers, "recognition")
           n == Len(texts)
           start(i) == IF i = 1 THEN 0 ELSE Len(PageContent(SubSeq(texts, 1, i - 1)) \o Separator)
<1>1. texts \in Seq(Seq(Characters))
    BY DEF Texts
<1>2. n \in Nat /\ DOMAIN texts = 1..n /\ \A i \in 1..n : texts[i] \in Seq(Characters)
    BY <1>1
<1>3. {"cont", "lf", "ff"} \subseteq Characters
    <2> DEFINE answered == UNION {ToSet(x.text) : x \in Answers}
    <2>1. Characters = answered \cup {"cont", "lf", "ff"}
        BY DEF Characters
    <2> HIDE DEF answered
    <2> QED
        BY <2>1
<1>4. \A i \in 1..n : Len(Encode(texts[i])) \in Nat
    <2> TAKE i \in 1..n
    <2>1. Encode(texts[i]) \in Seq(Characters)
        BY <1>2, <1>3, EncodeType
    <2> QED
        BY <2>1
<1>5. ASSUME NEW i \in 1..n PROVE start(i) \in Nat
    <2>1. CASE i = 1
        BY <2>1
    <2>2. CASE i # 1
        <3>1. SubSeq(texts, 1, i - 1) \in Texts(Characters)
            <4>1. i - 1 \in 1..n
                BY <2>2, <1>2
            <4> DEFINE X == Seq(Characters)
            <4>2. texts \in Seq(X)
                BY <1>1
            <4> HIDE DEF X
            <4>3. SubSeq(texts, 1, i - 1) \in Seq(X)
                BY <4>1, <4>2, <1>2
            <4> QED
                BY <4>3 DEF X, Texts
        <3>2. PageContent(SubSeq(texts, 1, i - 1)) \in Seq(Characters)
            BY <3>1, <1>3, PageContentType
        <3>3. Separator \in Seq(Characters)
            BY <1>3 DEF Separator
        <3> QED
            BY <3>2, <3>3, <2>2
    <2> QED
        BY <2>1, <2>2
<1>6. numbers \in [1..n -> Int]
    BY <1>2
<1> HIDE DEF start, n
<1>7. DOMAIN ms = 1..n /\ ms = [i \in 1..n |-> ms[i]]
    BY <1>2 DEF PageMappings
<1>8. ASSUME NEW i \in 1..n
      PROVE  ms[i] = [from |-> start(i), to |-> start(i) + Len(Encode(texts[i])), how |-> "recognition",
                      evidence |-> [source |-> file.digest, start |-> None, end |-> None, page |-> numbers[i]]]
    BY <1>2 DEF PageMappings, Mapping, start
<1>9. ASSUME NEW i \in 1..n PROVE ms[i] \in Shape /\ ms[i].evidence.page = numbers[i]
    <2>1. start(i) \in Nat /\ start(i) + Len(Encode(texts[i])) \in Nat /\ numbers[i] \in Int
        BY <1>4, <1>5, <1>6
    <2> DEFINE low == start(i)
               high == start(i) + Len(Encode(texts[i]))
               number == numbers[i]
    <2>2. low \in Nat /\ high \in Nat /\ number \in Int
        BY <2>1
    <2>3. ms[i] = [from |-> low, to |-> high, how |-> "recognition",
                   evidence |-> [source |-> file.digest, start |-> None, end |-> None, page |-> number]]
        BY <1>8
    <2>4. number = numbers[i]
        OBVIOUS
    <2> HIDE DEF low, high, number, ms
    <2> QED
        BY <2>2, <2>3, <2>4
<1> HIDE DEF ms
<1>10. ms \in Seq(Shape)
    <2> HIDE DEF Shape
    <2>1. n \in Nat
        BY <1>2
    <2> QED
        BY <1>7, <1>9, <2>1
<1>11. PageContent(texts) \in Seq(Characters)
    BY <1>3, PageContentType
<1> DEFINE r == Representing("pdf-text", PageContent(texts), ms)
<1>12. r.mappings = ms /\ r = [kind |-> "pdf-text", content |-> PageContent(texts), mappings |-> ms, source |-> file.digest]
    BY DEF Representing
<1>13. r # None
    <2> DEFINE Content == Seq(Characters)
               Maps == Seq(Shape)
               content == PageContent(texts)
    <2>1. content \in Content /\ ms \in Maps
        BY <1>10, <1>11
    <2>2. None \notin [kind : {"pdf-text"}, content : Content, source : Digests, mappings : Maps]
        BY AnswersAssumption
    <2>3. r = [kind |-> "pdf-text", content |-> content, mappings |-> ms, source |-> file.digest]
        BY <1>12
    <2> HIDE DEF Content, Maps, content, r, Shape
    <2> QED
        BY <2>1, <2>2, <2>3
<1> QED
    BY <1>7, <1>9, <1>12, <1>13 DEF ms, n

LEMMA EndRecognitionInv ==
    ASSUME RecognitionInv, EndRecognition
    PROVE  RecognitionInv'
<1> DEFINE texts == [i \in DOMAIN pages |-> pages[i].text]
           numbers == [i \in DOMAIN pages |-> pages[i].page]
           r == Representing("pdf-text", PageContent(texts), PageMappings(texts, numbers, "recognition"))
           k == [label |-> "observations", pages |-> pages]
<1> HIDE DEF texts, numbers, r, k
<1>1. stage = "recognizing" /\ file' = file /\ setup' = setup /\ pages' = pages
    BY DEF EndRecognition, FailRecognition, Fail, fixed
<1>2. Collected(pages, evidence) /\ Manifests(evidence) = {} /\ rep = None /\ file \in {c.file : c \in Cases}
    BY <1>1 DEF RecognitionInv, NotRecognized
<1>3. evidence \in Seq(KeptItems) /\ pages \in Seq(Answers)
    BY <1>2 DEF Collected
<1>4. CASE FailRecognition(evidence)
    <2>1. /\ stage' = "failed" /\ rep' = rep
          /\ evidence' = evidence \o <<[label |-> "failure", pages |-> pages]>>
        BY <1>4 DEF FailRecognition, Fail
    <2>2. Collected(pages', evidence') /\ Concluded(pages', evidence', None, Requested')
        BY <1>1, <1>2, <2>1, FailureConcludes
    <2> QED
        BY <1>1, <1>2, <2>1, <2>2 DEF RecognitionInv, NotRecognized, MaybeRecognized
<1>5. CASE AllRecognized /\ stage' = "extracted" /\ rep' = r /\ evidence' = evidence \o <<k>>
    <2>1. numbers = Requested /\ pages # <<>> /\ Requested' = Requested
        BY <1>1, <1>5 DEF AllRecognized, Requested, numbers
    <2>2. /\ Len(pages) \in Nat /\ DOMAIN pages = 1..Len(pages)
          /\ \A i \in 1..Len(pages) : pages[i] \in Answers
        BY <1>3
    <2>3. texts \in Texts(Characters) /\ numbers \in Seq(Int) /\ Len(texts) = Len(pages) /\ Len(numbers) = Len(pages)
        <3> DEFINE X == Seq(Characters)
        <3>1. \A i \in 1..Len(pages) : pages[i].text \in X /\ pages[i].page \in Int
            BY <2>2, AnswersAssumption
        <3> HIDE DEF X
        <3>2. texts = [i \in 1..Len(pages) |-> pages[i].text] /\ numbers = [i \in 1..Len(pages) |-> pages[i].page]
            BY <2>2 DEF texts, numbers
        <3>3. texts \in Seq(X) /\ Len(texts) = Len(pages)
            BY <2>2, <3>1, <3>2
        <3>4. numbers \in Seq(Int) /\ Len(numbers) = Len(pages)
            BY <2>2, <3>1, <3>2
        <3> QED
            BY <3>3, <3>4 DEF Texts, X
    <2>4. file.digest \in Digests
        BY <1>2 DEF Digests
    <2>5. /\ r # None /\ DOMAIN r.mappings = 1..Len(pages)
          /\ \A i \in 1..Len(pages) : r.mappings[i].evidence.page = numbers[i]
        BY <2>3, <2>4, RecognizedType DEF r
    <2>6. [i \in DOMAIN r.mappings |-> r.mappings[i].evidence.page] = numbers
        <3>1. numbers = [i \in 1..Len(pages) |-> numbers[i]]
            BY <2>2 DEF numbers
        <3> QED
            BY <2>5, <3>1
    <2>7. k \in KeptItems /\ k.label = "observations" /\ k.pages = pages
        BY <1>3 DEF KeptItems, k
    <2>8. /\ evidence' \in Seq(KeptItems) /\ Len(evidence') = Len(evidence) + 1 /\ Last(evidence') = k
          /\ Cardinality(Items(evidence')) = Cardinality(Items(evidence)) + 0
          /\ Manifests(evidence') = {Len(evidence) + 1}
        BY <1>2, <1>3, <1>5, <2>7, ItemAdded
    <2>9. Cardinality(Items(evidence)) \in Nat
        <3>1. Items(evidence) \subseteq 1..Len(evidence) /\ Len(evidence) \in Nat
            BY <1>3 DEF Items
        <3>2. IsFiniteSet(1..Len(evidence))
            BY <3>1, FS_Interval
        <3> QED
            BY <3>1, <3>2, FS_Subset, FS_CardinalityType
    <2>10. Collected(pages', evidence')
        BY <1>1, <1>2, <2>8, <2>9 DEF Collected
    <2>11. Concluded(pages', evidence', rep', Requested')
        <3>1. [i \in DOMAIN pages |-> pages[i].page] = Requested
            BY <2>1 DEF numbers
        <3> QED
            BY <1>1, <1>5, <2>1, <2>5, <2>6, <2>7, <2>8, <3>1 DEF Concluded
    <2> QED
        BY <1>1, <1>2, <1>5, <2>10, <2>11 DEF RecognitionInv, NotRecognized, MaybeRecognized
<1> QED
    BY <1>4, <1>5 DEF EndRecognition, texts, numbers, r, k

\* What does not touch recognition or its outcome.
Rested == UNCHANGED <<file, setup, pages, evidence, rep>>

LEMMA RestedInv ==
    ASSUME RecognitionInv, Rested,
           stage' = stage \/ (stage = "captured" /\ stage' = "planned") \/ (stage \in MaybeRecognized /\ stage' \in MaybeRecognized)
    PROVE  RecognitionInv'
<1>1. Extractor' = Extractor /\ Requested' = Requested
    BY DEF Rested, Extractor, Requested, Route, IsMarkup
<1> QED
    BY <1>1 DEF RecognitionInv, Rested, NotRecognized, MaybeRecognized

LEMMA ExtractNextInv ==
    ASSUME RecognitionInv, [ExtractNext]_<<evars, vars>>
    PROVE  RecognitionInv'
<1>1. CASE Upgrade
    BY <1>1, RestedInv DEF Upgrade, Rested, fixed
<1>2. CASE PlanExtract
    <2>1. CASE stage' = "planned"
        BY <1>2, <2>1, RestedInv DEF PlanExtract, Fail, Rested, fixed
    <2>2. CASE Fail /\ UNCHANGED evidence /\ (Extractor = "none" \/ (Reads(Extractor) /\ ~ReaderCurrent))
        <3>1. Extractor # "ocr" /\ Extractor' = Extractor
            BY <2>2 DEF Reads, Fail, fixed, Extractor, Route, IsMarkup
        <3>2. stage = "captured" /\ stage' = "failed" /\ UNCHANGED <<file, pages, evidence, rep>>
            BY <1>2, <2>2 DEF PlanExtract, Fail, fixed
        <3> QED
            BY <3>1, <3>2 DEF RecognitionInv, NotRecognized, MaybeRecognized
    <2> QED
        BY <1>2, <2>1, <2>2 DEF PlanExtract
<1>3. CASE PerformExtract
    <2>1. stage = "planned" /\ stage' \in {"failed", "reading"} /\ UNCHANGED <<file, setup, pages, evidence, rep>> /\ Extractor # "ocr"
        BY <1>3 DEF PerformExtract, Fail, fixed
    <2>2. Extractor' = Extractor
        BY <2>1 DEF Extractor, Route, IsMarkup
    <2> QED
        BY <2>1, <2>2 DEF RecognitionInv, NotRecognized, MaybeRecognized
<1>14. CASE ReadFile
    <2>1. stage = "reading" /\ stage' \in {"failed", "extracted"} /\ UNCHANGED <<file, setup, pages, evidence>>
        BY <1>14 DEF ReadFile, Fail, fixed
    <2>2. Extractor' = Extractor /\ Extractor # "ocr"
        BY <2>1 DEF Extractor, Route, IsMarkup, RecognitionInv
    <2> QED
        BY <2>1, <2>2 DEF RecognitionInv, NotRecognized, MaybeRecognized
<1>4. CASE StartRecognition
    <2>1. stage = "planned" /\ stage' \in {"failed", "recognizing"} /\ Rested
        BY <1>4 DEF StartRecognition, Fail, fixed, Rested
    <2>2. pages = <<>> /\ rep = None /\ Manifests(evidence) = {}
        BY <2>1 DEF RecognitionInv, NotRecognized
    <2> QED
        BY <2>1, <2>2 DEF RecognitionInv, NotRecognized, MaybeRecognized, Rested, Concluded
<1>5. CASE \E x \in Answers : TakePage(x) \/ RecognitionFails(x)
    BY <1>5, TakePageInv
<1>6. CASE EndRecognition
    BY <1>6, EndRecognitionInv
<1>7. CASE PlanSegment
    BY <1>7, RestedInv DEF PlanSegment, Fail, fixed, Rested, MaybeRecognized
<1>8. CASE PerformSegment
    BY <1>8, RestedInv DEF PerformSegment, Fail, fixed, Rested, MaybeRecognized
<1>15. CASE CutSegments
    BY <1>15, RestedInv DEF CutSegments, Fail, fixed, Rested, MaybeRecognized
<1>9. CASE StartBounded
    BY <1>9, RestedInv DEF StartBounded, Fail, fixed, Rested, MaybeRecognized
<1>10. CASE stage = "bounding" /\ UNCHANGED evars
    BY <1>10, RestedInv DEF evars, fixed, Rested, MaybeRecognized
<1>11. CASE EndBounded
    BY <1>11, RestedInv DEF EndBounded, Fail, fixed, Rested, MaybeRecognized
<1>12. CASE Reload
    BY <1>12, RestedInv DEF Reload, fixed, Rested, MaybeRecognized
<1>13. CASE UNCHANGED <<evars, vars>>
    BY <1>13, RestedInv DEF evars, fixed, Rested
<1> QED
    BY <1>1, <1>2, <1>3, <1>4, <1>5, <1>6, <1>7, <1>8, <1>9, <1>10, <1>11, <1>12, <1>13, <1>14, <1>15 DEF ExtractNext

\* Recognition by pages, for any answers and requested pages: the bytes of each answer
\* that was taken are kept as an item; nothing speaks for all pages before the end; at the
\* end one manifest does, the last item, with every answer that was taken, and if there is
\* a representation it is complete: a mapping to each requested page, in order.
THEOREM RecognitionIsKept == ExtractSpec => []RecognitionKept
<1>1. ExtractInit => RecognitionInv
    <2> SUFFICES ASSUME ExtractInit PROVE RecognitionInv
        OBVIOUS
    <2>1. /\ file \in {c.file : c \in Cases} /\ stage = "captured"
          /\ pages = <<>> /\ evidence = <<>> /\ rep = None
        BY DEF ExtractInit
    <2>2. Items(evidence) = {} /\ Carriers(pages) = {} /\ Manifests(evidence) = {}
        BY <2>1 DEF Items, Carriers, Manifests
    <2>3. Collected(pages, evidence)
        <3>1. Cardinality({}) = 0
            BY FS_EmptySet
        <3>2. pages \in Seq(Answers) /\ evidence \in Seq(KeptItems)
            BY <2>1
        <3>3. Cardinality(Items(evidence)) = 0 /\ Cardinality(Carriers(pages)) = 0
            BY <2>2, <3>1
        <3> QED
            BY <3>2, <3>3 DEF Collected
    <2> QED
        BY <2>1, <2>2, <2>3 DEF RecognitionInv, NotRecognized, MaybeRecognized
<1>2. RecognitionInv /\ [ExtractNext]_<<evars, vars>> => RecognitionInv'
    BY ExtractNextInv
<1>3. RecognitionInv => RecognitionKept
    <2> SUFFICES ASSUME RecognitionInv, stage \notin {"none", "captured", "planned", "reading", "recognizing"}, Extractor = "ocr"
                 PROVE  RecognitionKept
        BY DEF RecognitionKept
    <2>1. Collected(pages, evidence) /\ Concluded(pages, evidence, rep, Requested)
        BY DEF RecognitionInv, NotRecognized, MaybeRecognized
    <2>2. Manifests(evidence) = {i \in DOMAIN evidence : evidence[i].label # "bytes"}
        BY DEF Manifests
    <2>3. DOMAIN evidence \ Manifests(evidence) = Items(evidence)
        BY DEF Manifests, Items
    <2>4. Cardinality(DOMAIN evidence \ Manifests(evidence)) >= Cardinality({i \in DOMAIN pages : pages[i].carries = "bytes"})
        BY <2>1, <2>3 DEF Collected, Carriers
    <2> DEFINE manifests == Manifests(evidence)
    <2> HIDE DEF manifests
    <2>5. manifests = {i \in DOMAIN evidence : evidence[i].label # "bytes"}
        BY <2>2 DEF manifests
    <2>6. Concluded(pages, evidence, rep, Requested) /\ Manifests(evidence) = manifests
        BY <2>1 DEF manifests
    <2>7. Cardinality(DOMAIN evidence \ manifests) >= Cardinality({i \in DOMAIN pages : pages[i].carries = "bytes"})
        BY <2>4 DEF manifests
    <2> QED
        BY <2>5, <2>6, <2>7 DEF RecognitionKept, Concluded
<1> QED
    BY <1>1, <1>2, <1>3, PTL DEF ExtractSpec
-----------------------------------------------------------------------------
(***************************************************************************)
(* The reader a result is kept under.  A plan fixes the name of a result,  *)
(* and another reader may be installed before the stage is performed; what *)
(* performs it finds the planned reader installed, or fails.  The first    *)
(* import follows a check: unless the files change in between, or the      *)
(* process had imported another reader before, what is imported, then and  *)
(* for every later stage, is the planned reader.                           *)
(***************************************************************************)
Versioned == Readers \cup {None}
Named == [extract : Versioned, segment : Versioned]

\* The reader a stage has to use, if any.
ExtractReader == IF Reads(Extractor) THEN pinned ELSE None
SegmentReader == IF Segmenter = "record" THEN pinned ELSE None

\* What the imported code is, and what a stage that is about to import has found.
Unslipped == ~slipped => loaded \in {None, pinned} /\ (Importing /\ loaded = None => installed = pinned)

PinnedInv ==
    /\ pinned \in Versioned /\ installed \in Versioned /\ loaded \in Versioned
    /\ identity \in Named /\ checked \in Named /\ readBy \in Named
    /\ stage \in {"captured", "planned", "reading", "recognizing"} => rep = None
    /\ stage \in {"planned", "reading", "recognizing"} => identity.extract = ExtractReader
    /\ stage \in {"captured", "planned", "recognizing"} => checked.extract = None
    /\ stage = "reading" => checked.extract = ExtractReader /\ (Reads(Extractor) => pinned # None)
    /\ stage = "recognizing" => Extractor = "ocr"
    /\ rep = None => readBy.extract = None
    /\ stage \notin {"segmented", "checked", "failed"} => segments = None /\ readBy.segment = None
    /\ stage \in {"captured", "planned", "reading", "recognizing", "extracted", "cut", "bounding"} => checked.segment = None
    /\ stage \in {"cut", "slicing"} => identity.segment = SegmentReader
    /\ stage = "slicing" => checked.segment = SegmentReader /\ (Segmenter = "record" => pinned # None)
    /\ stage = "bounding" => identity.segment = None
    /\ Unslipped
    /\ ReaderPinned

LEMMA PinnedStep ==
    ASSUME PinnedInv, [ExtractNext]_<<evars, vars>>
    PROVE  PinnedInv'
<1> DEFINE same == UNCHANGED <<file, setup, pinned>>
<1>0. same => Extractor' = Extractor /\ (rep' = rep => Segmenter' = Segmenter) /\ ExtractReader' = ExtractReader
              /\ (rep' = rep => SegmentReader' = SegmentReader)
    BY DEF Extractor, Route, IsMarkup, Segmenter, ExtractReader, SegmentReader, Reads
<1> USE DEF fixed, readers, named
<1>1. ASSUME Fail PROVE PinnedInv'
    BY <1>1 DEF PinnedInv, Fail, ReaderPinned, Unslipped, Importing
<1>2. CASE Upgrade
    <2>1. /\ same /\ UNCHANGED <<loaded, stage, identity, checked, readBy, rep, segments>>
          /\ installed' \in Versioned /\ slipped' = (slipped \/ (Importing /\ loaded = None))
        BY <1>2 DEF Upgrade, Versioned
    <2>2. Importing' = Importing
        BY <2>1, <1>0 DEF Importing, Reads
    <2>3. Unslipped'
        BY <2>1, <2>2 DEF Unslipped, PinnedInv
    <2>4. ReaderPinned'
        BY <2>1 DEF PinnedInv, ReaderPinned
    <2> QED
        BY <2>1, <2>3, <2>4, <1>0 DEF PinnedInv
<1>3. CASE PlanExtract /\ ~Fail
    <2>1. /\ stage = "captured" /\ stage' = "planned" /\ same
          /\ identity' = [identity EXCEPT !.extract = ExtractReader]
          /\ UNCHANGED <<installed, loaded, slipped, checked, readBy, rep, segments>>
        BY <1>3 DEF PlanExtract, ExtractReader
    <2>2. ExtractReader \in Versioned
        BY DEF ExtractReader, PinnedInv, Versioned
    <2>3. identity' \in Named /\ identity'.extract = ExtractReader
        BY <2>1, <2>2 DEF PinnedInv, Named
    <2>4. Unslipped'
        BY <2>1 DEF Unslipped, PinnedInv, Importing
    <2> QED
        BY <2>1, <2>3, <2>4, <1>0 DEF PinnedInv, ReaderPinned
<1>4. CASE PerformExtract /\ ~Fail
    <2>1. /\ stage = "planned" /\ stage' = "reading" /\ same
          /\ checked' = [checked EXCEPT !.extract = IF Reads(Extractor) THEN installed ELSE None]
          /\ Reads(Extractor) => ReaderCurrent
          /\ UNCHANGED <<installed, loaded, slipped, identity, readBy, rep, segments>>
        BY <1>4 DEF PerformExtract
    <2>2. ExtractReader = IF Reads(Extractor) THEN installed ELSE None
        BY <2>1 DEF ExtractReader, ReaderCurrent
    <2>3. checked' \in Named /\ checked'.extract = ExtractReader /\ checked'.segment = checked.segment
        BY <2>1, <2>2 DEF PinnedInv, Named, Versioned, ExtractReader
    <2>4. Unslipped'
        BY <2>1, <1>0 DEF Unslipped, PinnedInv, Importing, ReaderCurrent, Reads
    <2>5. Reads(Extractor)' => pinned' # None
        BY <2>1, <1>0 DEF ReaderCurrent, Reads
    <2> QED
        BY <2>1, <2>3, <2>4, <2>5, <1>0 DEF PinnedInv, ReaderPinned, Reads
<1>14. CASE ReadFile /\ ~Fail
    <2>1. /\ stage = "reading" /\ stage' = "extracted" /\ same
          /\ loaded' = IF Reads(Extractor) THEN Code ELSE loaded
          /\ readBy' = [readBy EXCEPT !.extract = IF Reads(Extractor) THEN Code ELSE None]
          /\ rep' = Extracted(Extractor) /\ rep' # None
          /\ UNCHANGED <<installed, slipped, identity, checked, segments>>
        BY <1>14 DEF ReadFile
    <2>2. Code \in Versioned /\ loaded' \in Versioned
        BY <2>1 DEF Code, PinnedInv
    <2>3. /\ readBy' \in Named /\ readBy'.segment = readBy.segment
          /\ readBy'.extract = IF Reads(Extractor) THEN Code ELSE None
        BY <2>1, <2>2 DEF PinnedInv, Named, Versioned
    <2>4. ~slipped /\ Reads(Extractor) => Code = pinned
        BY <2>1 DEF PinnedInv, Unslipped, Importing, Code
    <2>5. Unslipped'
        BY <2>1, <2>4 DEF Unslipped, PinnedInv, Importing
    <2>6. ~slipped => readBy'.extract = ExtractReader
        BY <2>3, <2>4 DEF ExtractReader
    <2> QED
        BY <2>1, <2>2, <2>3, <2>5, <2>6, <1>0 DEF PinnedInv, ReaderPinned
<1>5. CASE StartRecognition /\ ~Fail
    <2>1. /\ stage = "planned" /\ stage' = "recognizing" /\ same /\ Extractor = "ocr"
          /\ UNCHANGED <<installed, loaded, slipped, identity, checked, readBy, rep, segments>>
        BY <1>5 DEF StartRecognition
    <2>2. Unslipped'
        BY <2>1 DEF Unslipped, PinnedInv, Importing
    <2> QED
        BY <2>1, <2>2, <1>0 DEF PinnedInv, ReaderPinned
<1>6. CASE (\E x \in Answers : TakePage(x) \/ RecognitionFails(x)) /\ ~Fail
    <2>1. same /\ UNCHANGED <<stage, installed, loaded, slipped, identity, checked, readBy, rep, segments>>
        BY <1>6 DEF TakePage, RecognitionFails, FailRecognition
    <2>2. Unslipped'
        BY <2>1, <1>0 DEF Unslipped, PinnedInv, Importing, Reads
    <2> QED
        BY <2>1, <2>2, <1>0 DEF PinnedInv, ReaderPinned, Reads
<1>7. CASE EndRecognition /\ ~Fail
    <2>1. /\ stage = "recognizing" /\ stage' = "extracted" /\ same
          /\ UNCHANGED <<installed, loaded, slipped, identity, checked, readBy, segments>>
        BY <1>7 DEF EndRecognition, FailRecognition
    <2>2. identity.extract = None
        BY <2>1 DEF PinnedInv, ExtractReader, Reads
    <2>3. Unslipped'
        BY <2>1 DEF Unslipped, PinnedInv, Importing
    <2> QED
        BY <2>1, <2>2, <2>3, <1>0 DEF PinnedInv, ReaderPinned
<1>8. CASE PlanSegment /\ ~Fail
    <2>1. /\ stage = "extracted" /\ stage' = "cut" /\ same
          /\ identity' = [identity EXCEPT !.segment = SegmentReader]
          /\ UNCHANGED <<installed, loaded, slipped, checked, readBy, rep, segments>>
        BY <1>8 DEF PlanSegment, SegmentReader
    <2>2. SegmentReader \in Versioned
        BY DEF SegmentReader, PinnedInv, Versioned
    <2>3. identity' \in Named /\ identity'.segment = SegmentReader /\ identity'.extract = identity.extract
        BY <2>1, <2>2 DEF PinnedInv, Named
    <2>4. Unslipped'
        BY <2>1 DEF Unslipped, PinnedInv, Importing
    <2> QED
        BY <2>1, <2>3, <2>4, <1>0 DEF PinnedInv, ReaderPinned
<1>9. CASE PerformSegment /\ ~Fail
    <2>1. /\ stage = "cut" /\ stage' = "slicing" /\ same
          /\ checked' = [checked EXCEPT !.segment = IF Segmenter = "record" THEN installed ELSE None]
          /\ Segmenter = "record" => ReaderCurrent
          /\ UNCHANGED <<installed, loaded, slipped, identity, readBy, rep, segments>>
        BY <1>9 DEF PerformSegment
    <2>2. SegmentReader = IF Segmenter = "record" THEN installed ELSE None
        BY <2>1 DEF SegmentReader, ReaderCurrent
    <2>3. checked' \in Named /\ checked'.segment = SegmentReader /\ checked'.extract = checked.extract
        BY <2>1, <2>2 DEF PinnedInv, Named, Versioned, SegmentReader
    <2>4. Unslipped'
        BY <2>1, <1>0 DEF Unslipped, PinnedInv, Importing, ReaderCurrent
    <2>5. Segmenter' = "record" => pinned' # None
        BY <2>1, <1>0 DEF ReaderCurrent
    <2> QED
        BY <2>1, <2>3, <2>4, <2>5, <1>0 DEF PinnedInv, ReaderPinned
<1>15. CASE CutSegments /\ ~Fail
    <2>1. /\ stage = "slicing" /\ stage' = "segmented" /\ same
          /\ loaded' = IF Segmenter = "record" THEN Code ELSE loaded
          /\ readBy' = [readBy EXCEPT !.segment = IF Segmenter = "record" THEN Code ELSE None]
          /\ UNCHANGED <<installed, slipped, identity, checked, rep>>
        BY <1>15 DEF CutSegments
    <2>2. Code \in Versioned /\ loaded' \in Versioned
        BY <2>1 DEF Code, PinnedInv
    <2>3. /\ readBy' \in Named /\ readBy'.extract = readBy.extract
          /\ readBy'.segment = IF Segmenter = "record" THEN Code ELSE None
        BY <2>1, <2>2 DEF PinnedInv, Named, Versioned
    <2>4. ~slipped /\ Segmenter = "record" => Code = pinned
        BY <2>1 DEF PinnedInv, Unslipped, Importing, Code
    <2>5. Unslipped'
        BY <2>1, <2>4 DEF Unslipped, PinnedInv, Importing
    <2>6. ~slipped => readBy'.segment = SegmentReader
        BY <2>3, <2>4 DEF SegmentReader
    <2> QED
        BY <2>1, <2>2, <2>3, <2>5, <2>6, <1>0 DEF PinnedInv, ReaderPinned
<1>10. CASE StartBounded /\ ~Fail
    <2>1. /\ stage = "cut" /\ stage' = "bounding" /\ same /\ Segmenter = "bounded"
          /\ UNCHANGED <<installed, loaded, slipped, identity, checked, readBy, rep, segments>>
        BY <1>10 DEF StartBounded
    <2>2. Unslipped'
        BY <2>1 DEF Unslipped, PinnedInv, Importing
    <2> QED
        BY <2>1, <2>2, <1>0 DEF PinnedInv, ReaderPinned, SegmentReader
<1>11. CASE UNCHANGED evars
    <2>1. same /\ UNCHANGED <<stage, installed, loaded, slipped, identity, checked, readBy, rep, segments>>
        BY <1>11 DEF evars
    <2>2. Unslipped'
        BY <2>1, <1>0 DEF Unslipped, PinnedInv, Importing, Reads
    <2> QED
        BY <2>1, <2>2, <1>0 DEF PinnedInv, ReaderPinned, Reads
<1>12. CASE EndBounded /\ ~Fail
    <2>1. /\ stage = "bounding" /\ stage' = "segmented" /\ same
          /\ UNCHANGED <<installed, loaded, slipped, identity, checked, readBy, rep>>
        BY <1>12 DEF EndBounded
    <2>2. Unslipped' /\ readBy.segment = None /\ checked.segment = None /\ identity.segment = None
        BY <2>1 DEF Unslipped, PinnedInv, Importing
    <2> QED
        BY <2>1, <2>2, <1>0 DEF PinnedInv, ReaderPinned
<1>13. CASE Reload
    <2>1. /\ stage = "segmented" /\ stage' = "checked" /\ same
          /\ UNCHANGED <<installed, loaded, slipped, identity, checked, readBy, rep, segments>>
        BY <1>13 DEF Reload
    <2>2. Unslipped'
        BY <2>1 DEF Unslipped, PinnedInv, Importing
    <2> QED
        BY <2>1, <2>2, <1>0 DEF PinnedInv, ReaderPinned
<1> QED
    BY <1>1, <1>2, <1>3, <1>4, <1>5, <1>6, <1>7, <1>8, <1>9, <1>10, <1>11, <1>12, <1>13, <1>14, <1>15
       DEF ExtractNext, evars

\* A result is kept under the reader that was installed when its producer began, for any
\* readers replaced at any time, between planning a stage and performing it too; and that
\* reader made it, unless the process had imported another before or the files changed
\* between the check and the first import (require_reader_identity).
THEOREM ReadersPinned == ExtractSpec => []ReaderPinned
<1>1. ExtractInit => PinnedInv
    <2> SUFFICES ASSUME ExtractInit PROVE PinnedInv
        OBVIOUS
    <2>1. /\ pinned \in Versioned /\ installed = pinned /\ loaded \in Versioned
          /\ slipped = (loaded \notin {None, pinned}) /\ stage = "captured" /\ rep = None /\ segments = None
          /\ identity = [extract |-> None, segment |-> None] /\ checked = identity /\ readBy = identity
        BY DEF ExtractInit, Versioned
    <2>2. identity \in Named
        BY <2>1 DEF Named, Versioned
    <2>3. Unslipped
        BY <2>1 DEF Unslipped, Importing
    <2> QED
        BY <2>1, <2>2, <2>3 DEF PinnedInv, ReaderPinned
<1>2. PinnedInv /\ [ExtractNext]_<<evars, vars>> => PinnedInv'
    BY PinnedStep
<1>3. PinnedInv => ReaderPinned
    BY DEF PinnedInv
<1> QED
    BY <1>1, <1>2, <1>3, PTL DEF ExtractSpec

-----------------------------------------------------------------------------
(***************************************************************************)
(* The bounded segmenter.  Its windows follow one another; the regions of  *)
(* a window tile it, with all that is not white space in paragraphs and    *)
(* headings; the stack holds the open headings with rising levels; a unit  *)
(* lies in one paragraph and names its window, its heading path and a      *)
(* count that a heading between two units sets apart; and a group reaches  *)
(* from a unit to a later one of the same key.  The code's inner loops are *)
(* recursive functions over numbers: each hands on to a smaller number     *)
(* until it stops, so what it returns is what one of its stops returns.    *)
(***************************************************************************)

\* A set of numbers from 0 that holds 0 and with each of its numbers below N the next.
LEMMA Climb ==
    ASSUME NEW N \in Nat, NEW S, 0 \in S, \A n \in 1..N : n - 1 \in S => n \in S
    PROVE  \A n \in 0..N : n \in S
<1> DEFINE T == {n \in Nat : n <= N /\ n \notin S}
<1>1. SUFFICES ASSUME NEW k \in T PROVE FALSE
    OBVIOUS
<1>2. T \subseteq Nat
    OBVIOUS
<1>3. PICK m \in T : \A u \in T : ~ (<<u, m>> \in OpToRel(<, Nat))
    <2> HIDE DEF T
    <2> QED
        BY <1>1, <1>2, WFMin, NatLessThanWellFounded
<1>4. m \in Nat /\ m <= N /\ m \notin S /\ m # 0
    OBVIOUS
<1>5. m - 1 \in Nat /\ m - 1 <= N /\ m \in 1..N
    BY <1>4
<1>6. <<m - 1, m>> \in OpToRel(<, Nat)
    BY <1>4, <1>5 DEF OpToRel
<1>7. m - 1 \notin T
    BY <1>3, <1>6
<1> QED
    BY <1>4, <1>5, <1>7

\* The bounded segmenter: where it stands.
CutPhases == {"units", "pack", "account", "done"}
Chained == phase \in {"tile"} \cup CutPhases

IsHeading(r) == regions[r].kind = "heading"
IsParagraph(r) == regions[r].kind = "paragraph"

\* The windows are the mappings, one after the other.
WindowsInv ==
    Chained =>
    /\ windows # <<>> /\ windows \in Seq([from : Nat, to : Nat])
    /\ DOMAIN windows = DOMAIN job.mappings
    /\ \A w \in DOMAIN windows :
        /\ windows[w].from <= windows[w].to /\ windows[w].to <= Len(job.text)
        /\ Offsets(job.text)[windows[w].from] = job.mappings[w].from
        /\ Offsets(job.text)[windows[w].to] = job.mappings[w].to
        /\ \A v \in DOMAIN windows : v < w => windows[v].to <= windows[w].from

\* What is not white space in a window before a position is in paragraphs and headings.
TextTiled(w, pos) ==
    \A p \in (windows[w].from)..(pos - 1) :
        job.text[p + 1] \notin Spaces =>
            \E r \in DOMAIN regions : p \in Chars(regions[r]) /\ (IsParagraph(r) \/ IsHeading(r))

RegionRecords == [win : Nat, kind : {"paragraph", "heading", "empty"}, from : Nat, to : Nat]

\* The regions lie in their windows one after the other.
RegionsInv ==
    Chained =>
    /\ regions \in Seq(RegionRecords)
    /\ \A r \in DOMAIN regions :
        /\ regions[r].win \in DOMAIN windows
        /\ windows[regions[r].win].from <= regions[r].from /\ regions[r].from < regions[r].to
        /\ regions[r].to <= windows[regions[r].win].to
        /\ \A q \in DOMAIN regions : q < r => regions[q].to <= regions[r].from

\* Where the tiling stands, and what was done before and after it.
StartInv ==
    /\ job \in Jobs
    /\ phase \in {"begin", "tile"} =>
        /\ at = 1 /\ stack = <<>> /\ epoch = 0 /\ leaf = 0 /\ units = <<>> /\ group = None /\ groups = <<>>
    /\ phase = "begin" => regions = <<>>

TileInv ==
    /\ phase = "tile" =>
        /\ tile \in [win : Nat, pos : Nat] /\ tile.win \in DOMAIN windows
        /\ windows[tile.win].from <= tile.pos /\ tile.pos <= windows[tile.win].to
        /\ \A r \in DOMAIN regions : regions[r].to <= tile.pos
        /\ \A w \in DOMAIN windows : w < tile.win => TextTiled(w, windows[w].to)
        /\ TextTiled(tile.win, tile.pos)
    /\ phase \in CutPhases => \A w \in DOMAIN windows : TextTiled(w, windows[w].to)

\* The headings among the regions before the n-th, and those that no later one closes.
Heads(n) == {regions[k] : k \in {i \in DOMAIN regions : i < n /\ IsHeading(i)}}
Level(h) == HeadingLevel(Slice(job.text, h.from, h.to))
StillOpen(H) == {h \in H : \A g \in H : g.from > h.from => Level(g) > Level(h)}

\* A sequence of titles names them in order.
Path(titles, H) ==
    /\ ToSet(titles) = {h.from : h \in StillOpen(H)}
    /\ \A i, j \in DOMAIN titles : i < j => titles[i] < titles[j]

\* The stack holds the open headings before the region at hand, each deeper than the one before.
StackInv ==
    phase = "units" =>
    /\ stack \in Seq([level : Int, title : Nat])
    /\ \A i \in DOMAIN stack :
        /\ \E h \in StillOpen(Heads(at)) : stack[i].title = h.from /\ stack[i].level = Level(h)
        /\ \A j \in DOMAIN stack : i < j => stack[i].title < stack[j].title /\ stack[i].level < stack[j].level
    /\ \A h \in StillOpen(Heads(at)) : \E i \in DOMAIN stack : stack[i].title = h.from /\ stack[i].level = Level(h)

UnitRecords == [from : Nat, to : Nat, headings : Seq(Nat), key : Nat \X Nat, split : BOOLEAN]

\* A unit lies in a paragraph, whose window and heading path it names.
LiesIn(u, r) ==
    /\ IsParagraph(r)
    /\ regions[r].from <= u.from /\ u.from <= u.to /\ u.to <= regions[r].to
    /\ u.key[1] = regions[r].win
    /\ Path(u.headings, Heads(r))

\* Units with a heading between them have different keys, and a whole paragraph starts after
\* all units before it.
UnitsInv ==
    phase \in CutPhases =>
    /\ units \in Seq(UnitRecords)
    /\ \A k \in DOMAIN units :
        /\ \E r \in DOMAIN regions : LiesIn(units[k], r)
        /\ \A j \in DOMAIN units :
            /\ j < k /\ ~units[k].split => units[j].to <= units[k].from
            /\ \A h \in DOMAIN regions :
                IsHeading(h) /\ regions[h].from >= units[j].from /\ regions[h].to <= units[k].to
                    => units[j].key[2] < units[k].key[2]

InUnits(p) == \E k \in DOMAIN units : p \in Chars(units[k])

\* Where the loop over the regions stands.
CutInv ==
    /\ phase = "units" =>
        /\ at \in 1..(Len(regions) + 1) /\ epoch \in Nat /\ leaf \in Nat
        /\ leaf # 0 => InRegion("paragraph") /\ Oversized /\ Here.from <= leaf /\ leaf <= Here.to
        /\ leaf # 0 => \A p \in (Here.from)..(leaf - 1) : InUnits(p)
        /\ \A k \in DOMAIN units :
            /\ units[k].key[2] <= epoch
            /\ at <= Len(regions) => units[k].to <= (IF leaf = 0 THEN Here.from ELSE leaf)
            /\ \A h \in DOMAIN regions :
                h < at /\ IsHeading(h) /\ regions[h].from >= units[k].from => units[k].key[2] < epoch
        /\ \A r \in DOMAIN regions : r < at /\ IsParagraph(r) => \A p \in Chars(regions[r]) : InUnits(p)
    /\ phase \in CutPhases \ {"units"} =>
        \A r \in DOMAIN regions : IsParagraph(r) => \A p \in Chars(regions[r]) : InUnits(p)

\* A group reaches from a unit to one of the same key.
Reaches(g, a, b) ==
    /\ a <= b /\ g.from = units[a].from /\ g.headings = units[a].headings
    /\ g.key = units[a].key /\ units[b].key = units[a].key /\ g.to = units[b].to

Gathers(g) == g.from <= g.to /\ \E a, b \in DOMAIN units : Reaches(g, a, b)
Holds(gs, k) == \E i \in DOMAIN gs : gs[i].from <= units[k].from /\ units[k].to <= gs[i].to

PackInv ==
    /\ phase \in CutPhases \ {"units"} =>
        groups \in Seq(UnitRecords) /\ \A i \in DOMAIN groups : Gathers(groups[i])
    /\ phase = "units" => group = None /\ groups = <<>>
    /\ phase = "pack" =>
        /\ at \in 1..(Len(units) + 1)
        /\ group # None => /\ group \in UnitRecords /\ group.from <= group.to
                           /\ \E a, b \in DOMAIN units : b < at /\ Reaches(group, a, b)
        /\ \A k \in DOMAIN units : k < at => Holds(Flushed, k)
    /\ phase \in {"account", "done"} => \A k \in DOMAIN units : Holds(groups, k)

DoneInv ==
    phase = "done" =>
    /\ DOMAIN result.spans = DOMAIN groups /\ DOMAIN result.headings = DOMAIN groups
    /\ \A i \in DOMAIN groups :
        /\ Tokens(groups[i].from, groups[i].to) <= job.max
        /\ result.spans[i].from = Offsets(job.text)[groups[i].from]
        /\ result.spans[i].to = Offsets(job.text)[groups[i].to]
        /\ result.headings[i] = groups[i].headings

-----------------------------------------------------------------------------
\* A set of integers between two numbers has a least and a greatest member.
LEMMA LeastWithin ==
    ASSUME NEW a \in Int, NEW S \in SUBSET Int, S # {}, \A x \in S : a <= x
    PROVE  Min(S) \in S /\ \A x \in S : Min(S) <= x
<1> DEFINE D == {x - a : x \in S}
<1>1. D \subseteq Nat /\ D # {}
    <2>1. \A x \in S : x - a \in Nat
        OBVIOUS
    <2>2. PICK x \in S : TRUE
        OBVIOUS
    <2>3. x - a \in D
        OBVIOUS
    <2> QED
        BY <2>1, <2>3, Zenon
<1>2. PICK d \in D : \A u \in D : ~ (<<u, d>> \in OpToRel(<, Nat))
    <2> HIDE DEF D
    <2> QED
        BY <1>1, WFMin, NatLessThanWellFounded
<1>3. \A u \in D : d <= u
    <2> TAKE u \in D
    <2>1. u \in Nat /\ d \in Nat /\ ~ (u < d)
        BY <1>1, <1>2 DEF OpToRel
    <2> QED
        BY <2>1
<1>4. PICK x \in S : d = x - a
    OBVIOUS
<1>5. \A y \in S : x <= y
    <2> TAKE y \in S
    <2>1. y - a \in D
        OBVIOUS
    <2>2. d <= y - a /\ x \in Int /\ y \in Int
        BY <2>1, <1>3
    <2> HIDE DEF D
    <2> QED
        BY <2>2, <1>4
<1> HIDE DEF D
<1> QED
    BY <1>5 DEF Min

LEMMA GreatestWithin ==
    ASSUME NEW b \in Int, NEW S \in SUBSET Int, S # {}, \A x \in S : x <= b
    PROVE  Max(S) \in S /\ \A x \in S : x <= Max(S)
<1> DEFINE D == {b - x : x \in S}
<1>1. D \subseteq Nat /\ D # {}
    <2>1. \A x \in S : b - x \in Nat
        OBVIOUS
    <2>2. PICK x \in S : TRUE
        OBVIOUS
    <2>3. b - x \in D
        OBVIOUS
    <2> QED
        BY <2>1, <2>3, Zenon
<1>2. PICK d \in D : \A u \in D : ~ (<<u, d>> \in OpToRel(<, Nat))
    <2> HIDE DEF D
    <2> QED
        BY <1>1, WFMin, NatLessThanWellFounded
<1>3. \A u \in D : d <= u
    <2> TAKE u \in D
    <2>1. u \in Nat /\ d \in Nat /\ ~ (u < d)
        BY <1>1, <1>2 DEF OpToRel
    <2> QED
        BY <2>1
<1>4. PICK x \in S : d = b - x
    OBVIOUS
<1>5. \A y \in S : y <= x
    <2> TAKE y \in S
    <2>1. b - y \in D
        OBVIOUS
    <2>2. d <= b - y /\ x \in Int /\ y \in Int
        BY <2>1, <1>3
    <2> HIDE DEF D
    <2> QED
        BY <2>2, <1>4
<1> HIDE DEF D
<1> QED
    BY <1>5 DEF Max

-----------------------------------------------------------------------------
\* A function that either has its value or hands on to an argument of lower measure.
Below(S, m, n) == {x \in S : m[x] < n}
Handing(S, stop, out, next, f) == [x \in S |-> IF stop[x] THEN out[x] ELSE f[next[x]]]
Solves(S, m, stop, out, next, n, f) == f = Handing(Below(S, m, n), stop, out, next, f)

\* Its measure falls.
Falls(S, m, stop, next) ==
    /\ \A x \in S : m[x] \in Nat
    /\ \A x \in S : ~stop[x] => next[x] \in S /\ m[next[x]] < m[x]

LEMMA SolutionsAgree ==
    ASSUME NEW S, NEW m, NEW stop, NEW out, NEW next, Falls(S, m, stop, next),
           NEW n \in Nat, NEW f, Solves(S, m, stop, out, next, n, f),
           NEW k \in Nat, NEW g, Solves(S, m, stop, out, next, k, g),
           NEW x \in S, m[x] < n, m[x] < k
    PROVE  f[x] = g[x]
<1> DEFINE T == {i \in Nat : \E y \in S : m[y] = i /\ i < n /\ i < k /\ f[y] # g[y]}
<1>1. ASSUME T # {} PROVE FALSE
    <2>1. T \subseteq Nat
        OBVIOUS
    <2>2. PICK i \in T : \A u \in T : ~ (<<u, i>> \in OpToRel(<, Nat))
        <3> HIDE DEF T
        <3> QED
            BY <1>1, <2>1, WFMin, NatLessThanWellFounded
    <2>3. PICK y \in S : m[y] = i /\ i < n /\ i < k /\ f[y] # g[y]
        BY <2>2
    <2>4. /\ f[y] = IF stop[y] THEN out[y] ELSE f[next[y]]
          /\ g[y] = IF stop[y] THEN out[y] ELSE g[next[y]]
        BY <2>3 DEF Solves, Handing, Below
    <2>5. ~stop[y]
        BY <2>3, <2>4
    <2>6. next[y] \in S /\ m[next[y]] \in Nat /\ m[next[y]] < i /\ i \in Nat
        BY <2>1, <2>3, <2>5 DEF Falls
    <2>7. m[next[y]] < n /\ m[next[y]] < k
        BY <2>3, <2>6
    <2>8. m[next[y]] \in T
        BY <2>3, <2>4, <2>5, <2>6, <2>7
    <2>9. <<m[next[y]], i>> \in OpToRel(<, Nat)
        BY <2>6 DEF OpToRel
    <2> QED
        BY <2>2, <2>8, <2>9
<1>2. m[x] \in Nat
    BY DEF Falls
<1> QED
    BY <1>1, <1>2

LEMMA SolutionBelow ==
    ASSUME NEW S, NEW m, NEW stop, NEW out, NEW next, Falls(S, m, stop, next), NEW n \in Nat
    PROVE  \E f : Solves(S, m, stop, out, next, n, f)
<1> DEFINE T == {i \in Nat : ~ \E f : Solves(S, m, stop, out, next, i, f)}
<1>1. ASSUME T # {} PROVE FALSE
    <2>1. T \subseteq Nat
        OBVIOUS
    <2>2. PICK i \in T : \A u \in T : ~ (<<u, i>> \in OpToRel(<, Nat))
        <3> HIDE DEF T
        <3> QED
            BY <1>1, <2>1, WFMin, NatLessThanWellFounded
    <2>3. i # 0
        <3> SUFFICES ASSUME i = 0 PROVE FALSE
            OBVIOUS
        <3>1. Below(S, m, 0) = {}
            BY DEF Below, Falls
        <3> DEFINE g == [x \in {} |-> x]
        <3>2. g = Handing({}, stop, out, next, g)
            BY DEF Handing
        <3>3. Solves(S, m, stop, out, next, 0, g)
            BY <3>1, <3>2 DEF Solves
        <3> QED
            BY <3>3, <2>2
    <2>4. i - 1 \in Nat /\ i \in Nat
        BY <2>1, <2>3
    <2>5. <<i - 1, i>> \in OpToRel(<, Nat)
        BY <2>4 DEF OpToRel
    <2>6. i - 1 \notin T
        BY <2>2, <2>5
    <2>7. PICK f : Solves(S, m, stop, out, next, i - 1, f)
        BY <2>4, <2>6
    <2> DEFINE g == Handing(Below(S, m, i), stop, out, next, f)
    <2>8. \A y \in Below(S, m, i - 1) : g[y] = f[y]
        <3> TAKE y \in Below(S, m, i - 1)
        <3>1. y \in Below(S, m, i)
            BY <2>4 DEF Below, Falls
        <3> QED
            BY <3>1, <2>7 DEF Solves, Handing
    <2>9. \A y \in Below(S, m, i) : g[y] = IF stop[y] THEN out[y] ELSE g[next[y]]
        <3> TAKE y \in Below(S, m, i)
        <3>1. y \in S /\ m[y] \in Nat /\ m[y] < i
            BY DEF Below, Falls
        <3>2. CASE stop[y]
            BY <3>1, <3>2 DEF Handing
        <3>3. CASE ~stop[y]
            <4>1. next[y] \in S /\ m[next[y]] < m[y] /\ m[next[y]] \in Nat
                BY <3>1, <3>3 DEF Falls
            <4>2. next[y] \in Below(S, m, i - 1)
                BY <4>1, <3>1, <2>4 DEF Below
            <4>3. g[y] = f[next[y]]
                BY <3>3 DEF Handing
            <4>4. g[next[y]] = f[next[y]]
                BY <4>2, <2>8
            <4> QED
                BY <3>3, <4>3, <4>4
        <3> QED
            BY <3>2, <3>3
    <2>10. g = [y \in Below(S, m, i) |-> g[y]]
        BY DEF Handing
    <2>11. Solves(S, m, stop, out, next, i, g)
        <3> HIDE DEF g
        <3> QED
            BY <2>9, <2>10 DEF Solves, Handing
    <2> QED
        BY <2>2, <2>11
<1> QED
    BY <1>1

\* There is such a function, and what holds of every value it may end with, from an
\* argument of a set that is never left, holds of its value there.
LEMMA HandingExists ==
    ASSUME NEW S, NEW m, NEW stop, NEW out, NEW next, Falls(S, m, stop, next)
    PROVE  \E f : f = Handing(S, stop, out, next, f)
<1> DEFINE Part(n) == CHOOSE f : Solves(S, m, stop, out, next, n, f)
           G == [x \in S |-> Part(m[x] + 1)[x]]
<1> HIDE DEF Part
<1>1. ASSUME NEW n \in Nat PROVE Solves(S, m, stop, out, next, n, Part(n))
    BY SolutionBelow DEF Part
<1>2. ASSUME NEW x \in S PROVE G[x] = IF stop[x] THEN out[x] ELSE G[next[x]]
    <2>1. m[x] \in Nat /\ m[x] + 1 \in Nat /\ x \in Below(S, m, m[x] + 1)
        BY DEF Falls, Below
    <2> DEFINE h == Part(m[x] + 1)
    <2> HIDE DEF h
    <2>2. Solves(S, m, stop, out, next, m[x] + 1, h)
        BY <1>1, <2>1 DEF h
    <2>3. h[x] = IF stop[x] THEN out[x] ELSE h[next[x]]
        BY <2>1, <2>2 DEF Solves, Handing
    <2>4. G[x] = h[x]
        BY DEF h
    <2>5. CASE stop[x]
        BY <2>3, <2>4, <2>5
    <2>6. CASE ~stop[x]
        <3>1. next[x] \in S /\ m[next[x]] < m[x] /\ m[next[x]] \in Nat
            BY <2>6 DEF Falls
        <3> DEFINE y == next[x]
                   k == Part(m[y] + 1)
        <3> HIDE DEF y, k
        <3>2. y \in S /\ m[y] + 1 \in Nat /\ m[y] < m[y] + 1 /\ m[y] < m[x] + 1
            BY <2>1, <3>1 DEF y
        <3>3. Solves(S, m, stop, out, next, m[y] + 1, k)
            BY <1>1, <3>2 DEF k
        <3>4. h[y] = k[y]
            BY <2>1, <2>2, <3>2, <3>3, SolutionsAgree
        <3>5. G[y] = k[y]
            BY <3>2 DEF k
        <3> QED
            BY <2>3, <2>4, <2>6, <3>4, <3>5 DEF y
    <2> QED
        BY <2>5, <2>6
<1>3. G = [x \in S |-> G[x]]
    OBVIOUS
<1> HIDE DEF G
<1>4. G = Handing(S, stop, out, next, G)
    BY <1>2, <1>3 DEF Handing
<1> QED
    BY <1>4

\* From the arguments of I the next ones are of I, and the values those may end with are of R.
Leads(I, stop, out, next, R) ==
    \A x \in I : (stop[x] => out[x] \in R) /\ (~stop[x] => next[x] \in I)

LEMMA HandingEnds ==
    ASSUME NEW S, NEW m, NEW stop, NEW out, NEW next, Falls(S, m, stop, next),
           NEW F, F = Handing(S, stop, out, next, F),
           NEW I \in SUBSET S, NEW R, Leads(I, stop, out, next, R),
           NEW x0 \in I
    PROVE  F[x0] \in R
<1> SUFFICES ASSUME F[x0] \notin R PROVE FALSE
    OBVIOUS
<1> DEFINE T == {i \in Nat : \E y \in I : m[y] = i /\ F[y] \notin R}
<1>1. T \subseteq Nat /\ m[x0] \in T
    BY DEF Falls
<1>2. PICK i \in T : \A u \in T : ~ (<<u, i>> \in OpToRel(<, Nat))
    <2> HIDE DEF T
    <2> QED
        BY <1>1, WFMin, NatLessThanWellFounded
<1>3. PICK y \in I : m[y] = i /\ F[y] \notin R
    BY <1>2
<1>4. F[y] = IF stop[y] THEN out[y] ELSE F[next[y]]
    BY DEF Handing
<1>5. ~stop[y] /\ next[y] \in I /\ F[next[y]] \notin R
    BY <1>3, <1>4 DEF Leads
<1>6. m[next[y]] \in Nat /\ m[next[y]] < i /\ i \in Nat
    BY <1>3, <1>5 DEF Falls
<1>7. m[next[y]] \in T
    BY <1>5, <1>6
<1>8. <<m[next[y]], i>> \in OpToRel(<, Nat)
    BY <1>6 DEF OpToRel
<1> QED
    BY <1>2, <1>7, <1>8

-----------------------------------------------------------------------------
\* Texts and their byte offsets.
LEMMA JobsTyped ==
    ASSUME NEW j \in Jobs
    PROVE  /\ Len(j.text) \in Nat /\ DOMAIN j.text = 1..Len(j.text)
           /\ j.max \in Nat \ {0} /\ j.min \in Nat \ {0} /\ j.overlap \in Nat /\ j.overlap < j.max
           /\ Len(j.mappings) \in Nat /\ DOMAIN j.mappings = 1..Len(j.mappings)
           /\ \A i \in DOMAIN j.mappings :
                /\ j.mappings[i].from \in Nat /\ j.mappings[i].to \in Nat
                /\ j.mappings[i].from <= j.mappings[i].to
                /\ \A k \in DOMAIN j.mappings : k < i => j.mappings[k].to <= j.mappings[i].from
<1>1. j.text \in Seq(ToSet(j.text)) /\ j.mappings \in Seq(ToSet(j.mappings))
    BY MappingAssumption
<1>2. j.max \in Nat \ {0} /\ j.min \in 1..j.max /\ j.overlap \in 0..(j.max - 1)
    BY SettingsAssumption
<1>3. DOMAIN j.mappings = 1..Len(j.mappings) /\ Len(j.mappings) \in Nat
    BY <1>1
<1>4. ASSUME NEW i \in DOMAIN j.mappings
      PROVE  /\ j.mappings[i].from \in Nat /\ j.mappings[i].to \in Nat
             /\ j.mappings[i].from <= j.mappings[i].to
             /\ \A k \in DOMAIN j.mappings : k < i => j.mappings[k].to <= j.mappings[i].from
    <2>1. \A k \in DOMAIN j.mappings : k < i => k \in 1..(i - 1)
        BY <1>3
    <2> QED
        BY <2>1, MappingAssumption
<1> QED
    BY <1>1, <1>2, <1>3, <1>4

LEMMA OffsetsRise ==
    ASSUME NEW t, Len(t) \in Nat
    PROVE  /\ \A p \in 0..Len(t) : Offsets(t)[p] \in Int
           /\ \A p, q \in 0..Len(t) : p < q => Offsets(t)[p] < Offsets(t)[q]
<1> DEFINE N == Len(t)
           Step(f) == [p \in 0..N |-> IF p = 0 THEN 0 ELSE f[p - 1] + Width(t[p])]
           offset == CHOOSE f : f = Step(f)
           F == [n \in 1..N |-> [x \in Int |-> x + Width(t[n])]]
<1> HIDE DEF N, offset
<1>1. N \in Nat
    BY DEF N
<1>2. \A c : Width(c) \in {1, 2}
    BY DEF Width
<1>3. F \in [1..N -> [Int -> Int]]
    BY <1>2
<1>4. PICK g \in [0..N -> Int] : g[0] = 0 /\ \A n \in 1..N : g[n] = F[n][g[n - 1]]
    <2> DEFINE X == Int
    <2>1. 0 \in X /\ F \in [1..N -> [X -> X]]
        BY <1>3
    <2> HIDE DEF F, X
    <2>2. \E g \in [0..N -> X] : g[0] = 0 /\ \A n \in 1..N : g[n] = F[n][g[n - 1]]
        BY <1>1, <2>1, Iterated
    <2> QED
        BY <2>2 DEF X
<1>5. g = Step(g)
    <2>1. ASSUME NEW p \in 0..N PROVE g[p] = IF p = 0 THEN 0 ELSE g[p - 1] + Width(t[p])
        <3>1. CASE p = 0
            BY <3>1, <1>4
        <3>2. CASE p # 0
            <4>1. p \in 1..N /\ p - 1 \in 0..N
                BY <3>2, <1>1
            <4> QED
                BY <4>1, <1>4, <3>2
        <3> QED
            BY <3>1, <3>2
    <2>2. g = [p \in 0..N |-> g[p]]
        BY <1>4
    <2> QED
        BY <2>1, <2>2
<1>6. offset = Step(offset)
    BY <1>5 DEF offset
<1>7. \A p \in 0..N : offset[p] = IF p = 0 THEN 0 ELSE offset[p - 1] + Width(t[p])
    BY <1>6
<1>8. \A p \in 0..N : Offsets(t)[p] = offset[p]
    BY DEF Offsets, offset, N
<1> HIDE DEF Step, F
<1>9. \A p \in 0..N : offset[p] \in Int
    <2> DEFINE S == {p \in 0..N : offset[p] \in Int}
    <2>1. 0 \in S
        BY <1>1, <1>7
    <2>2. \A n \in 1..N : n - 1 \in S => n \in S
        <3> TAKE n \in 1..N
        <3> HAVE n - 1 \in S
        <3>1. n \in 0..N /\ n # 0 /\ offset[n - 1] \in Int
            BY <1>1
        <3> QED
            BY <3>1, <1>7, <1>2
    <2> HIDE DEF S
    <2>3. \A n \in 0..N : n \in S
        BY <1>1, <2>1, <2>2, Climb
    <2> QED
        BY <2>3 DEF S
<1>10. ASSUME NEW p \in 0..N PROVE \A q \in 0..N : p < q => offset[p] < offset[q]
    <2> DEFINE S == {q \in 0..N : p < q => offset[p] < offset[q]}
    <2>1. 0 \in S
        BY <1>1
    <2>2. \A n \in 1..N : n - 1 \in S => n \in S
        <3> TAKE n \in 1..N
        <3> HAVE n - 1 \in S
        <3>1. n \in 0..N /\ n # 0 /\ n - 1 \in 0..N /\ (p < n - 1 => offset[p] < offset[n - 1])
            BY <1>1
        <3>2. offset[n] = offset[n - 1] + Width(t[n]) /\ Width(t[n]) \in {1, 2}
            BY <3>1, <1>7, <1>2
        <3>3. offset[n - 1] < offset[n]
            BY <3>1, <3>2, <1>9
        <3>4. p < n => p = n - 1 \/ p < n - 1
            BY <1>1
        <3>5. p < n => offset[p] < offset[n]
            <4>1. offset[p] \in Int /\ offset[n - 1] \in Int /\ offset[n] \in Int
                BY <3>1, <1>9
            <4> QED
                BY <4>1, <3>1, <3>3, <3>4
        <3> QED
            BY <3>1, <3>5
    <2> HIDE DEF S
    <2>3. \A n \in 0..N : n \in S
        BY <1>1, <2>1, <2>2, Climb
    <2> QED
        BY <2>3 DEF S
<1> QED
    BY <1>8, <1>9, <1>10 DEF N

-----------------------------------------------------------------------------
\* The tiling.
\* Regions of a window laid from one position to another, in order, the text in paragraphs and
\* headings.
Laid(b, win, s, e) ==
    /\ b \in Seq(RegionRecords)
    /\ \A i \in DOMAIN b :
        /\ b[i].win = win /\ s <= b[i].from /\ b[i].from < b[i].to /\ b[i].to <= e
        /\ \A j \in DOMAIN b : j < i => b[j].to <= b[i].from
    /\ \A p \in s..(e - 1) : job.text[p + 1] \notin Spaces =>
        \E i \in DOMAIN b : p \in Chars(b[i]) /\ b[i].kind \in {"paragraph", "heading"}

LEMMA LaidNothing ==
    ASSUME NEW win, NEW s \in Nat
    PROVE  Laid(<<>>, win, s, s)
BY DEF Laid

LEMMA LaidOne ==
    ASSUME NEW win \in Nat, NEW s \in Nat, NEW e \in Nat, s < e,
           NEW kind \in {"paragraph", "heading", "empty"},
           kind = "empty" => \A p \in s..(e - 1) : job.text[p + 1] \in Spaces
    PROVE  Laid(<<[win |-> win, kind |-> kind, from |-> s, to |-> e]>>, win, s, e)
<1> DEFINE r == [win |-> win, kind |-> kind, from |-> s, to |-> e]
           b == <<r>>
<1>1. r \in RegionRecords
    BY DEF RegionRecords
<1>2. r.win = win /\ r.kind = kind /\ r.from = s /\ r.to = e
    OBVIOUS
<1> HIDE DEF r
<1>3. b \in Seq(RegionRecords) /\ DOMAIN b = {1} /\ b[1] = r
    BY <1>1
<1> HIDE DEF b
<1> QED
    BY <1>2, <1>3 DEF Laid, Chars, b, r

LEMMA LaidJoined ==
    ASSUME NEW win, NEW s \in Nat, NEW m \in Nat, NEW e \in Nat, s <= m, m <= e,
           NEW b, Laid(b, win, s, m), NEW c, Laid(c, win, m, e)
    PROVE  Laid(b \o c, win, s, e)
<1> DEFINE d == b \o c
<1>1. /\ b \in Seq(RegionRecords) /\ c \in Seq(RegionRecords) /\ d \in Seq(RegionRecords)
      /\ Len(b) \in Nat /\ Len(c) \in Nat
      /\ DOMAIN b = 1..Len(b) /\ DOMAIN c = 1..Len(c) /\ DOMAIN d = 1..(Len(b) + Len(c))
    BY DEF Laid
<1>2. \A i \in DOMAIN d : \/ i \in DOMAIN b /\ d[i] = b[i]
                          \/ i - Len(b) \in DOMAIN c /\ d[i] = c[i - Len(b)] /\ i > Len(b)
    BY <1>1
<1>3. /\ \A i \in DOMAIN b : i \in DOMAIN d /\ d[i] = b[i]
      /\ \A i \in DOMAIN c : i + Len(b) \in DOMAIN d /\ d[i + Len(b)] = c[i]
    BY <1>1
<1>4. /\ \A i \in DOMAIN b : b[i].from \in Nat /\ b[i].to \in Nat
      /\ \A i \in DOMAIN c : c[i].from \in Nat /\ c[i].to \in Nat
    <2>1. (\A i \in DOMAIN b : b[i] \in RegionRecords) /\ \A i \in DOMAIN c : c[i] \in RegionRecords
        BY <1>1
    <2> QED
        BY <2>1 DEF RegionRecords
<1> HIDE DEF d
<1>5. ASSUME NEW i \in DOMAIN d
      PROVE  /\ d[i].win = win /\ s <= d[i].from /\ d[i].from < d[i].to /\ d[i].to <= e
             /\ \A j \in DOMAIN d : j < i => d[j].to <= d[i].from
    <2>1. CASE i \in DOMAIN b /\ d[i] = b[i]
        <3>1. \A j \in DOMAIN d : j < i => j \in DOMAIN b /\ d[j] = b[j]
            BY <1>1, <1>3, <2>1
        <3> QED
            BY <2>1, <3>1, <1>4 DEF Laid
    <2>2. CASE i - Len(b) \in DOMAIN c /\ d[i] = c[i - Len(b)] /\ i > Len(b)
        <3>1. m <= d[i].from /\ d[i].win = win /\ d[i].from < d[i].to /\ d[i].to <= e
            BY <2>2 DEF Laid
        <3>2. d[i].from \in Nat
            BY <2>2, <1>4
        <3>3. ASSUME NEW j \in DOMAIN d, j < i PROVE d[j].to <= d[i].from
            <4>1. CASE j \in DOMAIN b /\ d[j] = b[j]
                <5>1. d[j].to <= m /\ d[j].to \in Nat
                    BY <4>1, <1>4 DEF Laid
                <5> QED
                    BY <5>1, <3>1, <3>2
            <4>2. CASE j - Len(b) \in DOMAIN c /\ d[j] = c[j - Len(b)]
                <5>1. j - Len(b) < i - Len(b)
                    BY <1>1, <3>3
                <5> QED
                    BY <5>1, <4>2, <2>2 DEF Laid
            <4> QED
                BY <4>1, <4>2, <1>2
        <3> QED
            BY <3>1, <3>2, <3>3
    <2> QED
        BY <2>1, <2>2, <1>2
<1>6. ASSUME NEW p \in s..(e - 1), job.text[p + 1] \notin Spaces
      PROVE  \E i \in DOMAIN d : p \in Chars(d[i]) /\ d[i].kind \in {"paragraph", "heading"}
    <2>1. CASE p \in s..(m - 1)
        <3>1. PICK i \in DOMAIN b : p \in Chars(b[i]) /\ b[i].kind \in {"paragraph", "heading"}
            BY <2>1, <1>6 DEF Laid
        <3> QED
            BY <3>1, <1>3
    <2>2. CASE p \in m..(e - 1)
        <3>1. PICK i \in DOMAIN c : p \in Chars(c[i]) /\ c[i].kind \in {"paragraph", "heading"}
            BY <2>2, <1>6 DEF Laid
        <3> QED
            BY <3>1, <1>3
    <2> QED
        BY <2>1, <2>2
<1> QED
    BY <1>1, <1>5, <1>6 DEF Laid, d

\* A block is laid out from its start to its end.
LEMMA BlockLaid ==
    ASSUME tile.win \in Nat, NEW s \in Nat, NEW e \in Nat, s <= e
    PROVE  Laid(BlockRegions(s, e), tile.win, s, e)
<1> DEFINE text == {p \in s..(e - 1) : job.text[p + 1] \notin Spaces}
           first == Min(text)
           last == Max(text) + 1
           kind == IF HeadingLevel(Slice(job.text, first, last)) > 0 THEN "heading" ELSE "paragraph"
           some(r) == IF r.from < r.to THEN <<r>> ELSE <<>>
           before == some(Region("empty", s, first))
           middle == <<Region(kind, first, last)>>
           after == some(Region("empty", last, e))
<1>1. CASE s = e
    <2>1. BlockRegions(s, e) = <<>>
        BY <1>1 DEF BlockRegions
    <2> QED
        BY <1>1, <2>1, LaidNothing
<1>2. CASE s # e /\ text = {}
    <2>1. BlockRegions(s, e) = <<[win |-> tile.win, kind |-> "empty", from |-> s, to |-> e]>>
        BY <1>2 DEF BlockRegions, Region
    <2>2. s < e /\ \A p \in s..(e - 1) : job.text[p + 1] \in Spaces
        <3>1. \A p \in s..(e - 1) : job.text[p + 1] \notin Spaces => p \in text
            OBVIOUS
        <3> HIDE DEF text
        <3> QED
            BY <1>2, <3>1
    <2> QED
        BY <2>1, <2>2, LaidOne
<1>3. CASE s # e /\ text # {}
    <2>1. /\ text \in SUBSET Int /\ s \in Int /\ e - 1 \in Int
          /\ \A x \in text : x \in Int /\ s <= x /\ x <= e - 1
        OBVIOUS
    <2> HIDE DEF text
    <2>2. first \in text /\ \A x \in text : first <= x
        BY <2>1, <1>3, LeastWithin
    <2>3. Max(text) \in text /\ \A x \in text : x <= Max(text)
        BY <2>1, <1>3, GreatestWithin
    <2>4. first \in Nat /\ last \in Nat /\ s <= first /\ first < last /\ last <= e
        <3>1. /\ first \in Int /\ s <= first
              /\ Max(text) \in Int /\ Max(text) <= e - 1 /\ first <= Max(text)
            BY <2>1, <2>2, <2>3
        <3> HIDE DEF first
        <3> QED
            BY <3>1
    <2>5. /\ \A p \in s..(first - 1) : job.text[p + 1] \in Spaces
          /\ \A p \in last..(e - 1) : job.text[p + 1] \in Spaces
        <3>1. \A p \in s..(e - 1) : job.text[p + 1] \notin Spaces => p \in text
            BY DEF text
        <3>2. ASSUME NEW p \in s..(first - 1) PROVE job.text[p + 1] \in Spaces
            <4>1. p \notin text
                BY <2>2, <2>4
            <4> QED
                BY <4>1, <3>1, <2>4
        <3>3. ASSUME NEW p \in last..(e - 1) PROVE job.text[p + 1] \in Spaces
            <4>1. p \notin text
                <5>0. Max(text) \in Int
                    BY <2>1, <2>3
                <5>1. p \in Int /\ ~ (p <= Max(text))
                    BY <5>0, <2>4
                <5> QED
                    BY <5>0, <5>1, <2>3
            <4> QED
                BY <4>1, <3>1, <2>4
        <3> QED
            BY <3>2, <3>3
    <2>6. kind \in {"paragraph", "heading"}
        OBVIOUS
    <2>7. BlockRegions(s, e) = before \o middle \o after
        BY <1>3 DEF BlockRegions, text
    <2> HIDE DEF first, last, kind
    <2>8. Laid(before, tile.win, s, first)
        <3>1. CASE s < first
            <4>1. before = <<[win |-> tile.win, kind |-> "empty", from |-> s, to |-> first]>>
                BY <3>1 DEF Region
            <4> QED
                BY <4>1, <3>1, <2>4, <2>5, LaidOne
        <3>2. CASE s = first
            <4>1. before = <<>>
                BY <3>2, <2>4 DEF Region
            <4> QED
                BY <4>1, <3>2, LaidNothing
        <3> QED
            BY <3>1, <3>2, <2>4
    <2>9. Laid(middle, tile.win, first, last)
        <3>1. middle = <<[win |-> tile.win, kind |-> kind, from |-> first, to |-> last]>>
            BY DEF Region
        <3>2. kind # "empty"
            BY <2>6
        <3> QED
            BY <3>1, <3>2, <2>4, <2>6, LaidOne
    <2>10. Laid(after, tile.win, last, e)
        <3>1. CASE last < e
            <4>1. after = <<[win |-> tile.win, kind |-> "empty", from |-> last, to |-> e]>>
                BY <3>1 DEF Region
            <4> QED
                BY <4>1, <3>1, <2>4, <2>5, LaidOne
        <3>2. CASE last = e
            <4>1. after = <<>>
                BY <3>2, <2>4 DEF Region
            <4> QED
                BY <4>1, <3>2, LaidNothing
        <3> QED
            BY <3>1, <3>2, <2>4
    <2> HIDE DEF before, middle, after
    <2>11. Laid(before \o middle, tile.win, s, last)
        BY <2>4, <2>8, <2>9, LaidJoined
    <2>12. Laid((before \o middle) \o after, tile.win, s, e)
        BY <2>4, <2>11, <2>10, LaidJoined
    <2> QED
        BY <2>7, <2>12
<1> QED
    BY <1>1, <1>2, <1>3

-----------------------------------------------------------------------------
SegInv ==
    /\ StartInv /\ WindowsInv /\ RegionsInv /\ TileInv
    /\ StackInv /\ UnitsInv /\ CutInv /\ PackInv /\ DoneInv

LEMMA IndexFound ==
    ASSUME job \in Jobs, NEW b, CharIndex(b) # {}
    PROVE  Min(CharIndex(b)) \in 0..Len(job.text) /\ Offsets(job.text)[Min(CharIndex(b))] = b
<1>1. Len(job.text) \in Nat
    BY JobsTyped
<1>2. CharIndex(b) \in SUBSET Int /\ \A x \in CharIndex(b) : 0 <= x
    BY <1>1 DEF CharIndex
<1>3. Min(CharIndex(b)) \in CharIndex(b)
    BY <1>2, LeastWithin
<1> QED
    BY <1>3 DEF CharIndex

LEMMA StepBegin ==
    ASSUME SegInv, BeginWindows
    PROVE  SegInv'
<1> DEFINE ms == job.mappings
           T == job.text
           pos(b) == Min(CharIndex(b))
<1>1. job \in Jobs /\ phase = "begin" /\ job' = job
    BY DEF BeginWindows, SegInv, StartInv, Refuse
<1>2. CASE Refuse
    BY <1>1, <1>2 DEF Refuse, SegInv, StartInv, WindowsInv, RegionsInv, TileInv, StackInv, UnitsInv, CutInv, PackInv,
       DoneInv, Chained, CutPhases
<1>3. CASE ~Refuse
    <2>1. /\ ms # <<>>
          /\ \A i \in DOMAIN ms : CharIndex(ms[i].from) # {} /\ CharIndex(ms[i].to) # {}
          /\ windows' = [i \in DOMAIN ms |-> [from |-> pos(ms[i].from), to |-> pos(ms[i].to)]]
          /\ tile' = [win |-> 1, pos |-> pos(ms[1].from)]
          /\ phase' = "tile" /\ UNCHANGED <<job, at, regions, Cutting, Packing, result>>
        BY <1>3 DEF BeginWindows
    <2>2. /\ Len(T) \in Nat /\ Len(ms) \in Nat /\ DOMAIN ms = 1..Len(ms)
          /\ \A i \in DOMAIN ms :
               /\ ms[i].from \in Nat /\ ms[i].to \in Nat /\ ms[i].from <= ms[i].to
               /\ \A k \in DOMAIN ms : k < i => ms[k].to <= ms[i].from
        BY <1>1, JobsTyped
    <2>3. /\ \A p \in 0..Len(T) : Offsets(T)[p] \in Int
          /\ \A p, q \in 0..Len(T) : p < q => Offsets(T)[p] < Offsets(T)[q]
        BY <2>2, OffsetsRise
    <2>4. \A i \in DOMAIN ms :
              /\ pos(ms[i].from) \in 0..Len(T) /\ Offsets(T)[pos(ms[i].from)] = ms[i].from
              /\ pos(ms[i].to) \in 0..Len(T) /\ Offsets(T)[pos(ms[i].to)] = ms[i].to
        BY <1>1, <2>1, IndexFound
    <2>5. ASSUME NEW p \in 0..Len(T), NEW q \in 0..Len(T), Offsets(T)[p] <= Offsets(T)[q]
          PROVE  p <= q
        <3>1. ~ (q < p)
            BY <2>3, <2>5
        <3> QED
            BY <3>1, <2>2
    <2> HIDE DEF ms, T, pos
    <2>6. DOMAIN windows' = DOMAIN ms
        BY <2>1
    <2>7. \A i \in DOMAIN ms : windows'[i].from = pos(ms[i].from) /\ windows'[i].to = pos(ms[i].to)
        BY <2>1
    <2>8. windows' \in Seq([from : Nat, to : Nat]) /\ windows' # <<>>
        <3>1. \A i \in 1..Len(ms) : [from |-> pos(ms[i].from), to |-> pos(ms[i].to)] \in [from : Nat, to : Nat]
            BY <2>2, <2>4
        <3>2. windows' \in [1..Len(ms) -> [from : Nat, to : Nat]]
            BY <2>1, <2>2, <3>1
        <3>3. Len(ms) # 0
            BY <1>1, <2>1, <2>2, MappingAssumption DEF ms
        <3>4. windows' \in Seq([from : Nat, to : Nat])
            <4> DEFINE S == [from : Nat, to : Nat]
            <4> HIDE DEF S
            <4>1. windows' \in [1..Len(ms) -> S]
                BY <3>2 DEF S
            <4>2. windows' \in Seq(S)
                BY <2>2, <4>1
            <4> QED
                BY <4>2 DEF S
        <3>5. 1 \in DOMAIN windows'
            BY <2>2, <2>6, <3>3
        <3> QED
            BY <3>4, <3>5
    <2>9. WindowsInv'
        <3>1. ASSUME NEW w \in DOMAIN ms
              PROVE  /\ windows'[w].from <= windows'[w].to /\ windows'[w].to <= Len(T)
                     /\ Offsets(T)[windows'[w].from] = ms[w].from
                     /\ Offsets(T)[windows'[w].to] = ms[w].to
                     /\ \A v \in DOMAIN ms : v < w => windows'[v].to <= windows'[w].from
            <4>1. Offsets(T)[pos(ms[w].from)] <= Offsets(T)[pos(ms[w].to)]
                BY <2>2, <2>4
            <4>2. pos(ms[w].from) <= pos(ms[w].to)
                BY <4>1, <2>4, <2>5
            <4>3. ASSUME NEW v \in DOMAIN ms, v < w PROVE pos(ms[v].to) <= pos(ms[w].from)
                <5>1. Offsets(T)[pos(ms[v].to)] <= Offsets(T)[pos(ms[w].from)]
                    BY <2>2, <2>4, <4>3
                <5> QED
                    BY <5>1, <2>4, <2>5
            <4> QED
                BY <4>2, <4>3, <2>4, <2>7, <2>2
        <3> QED
            BY <3>1, <2>6, <2>8, <1>1 DEF WindowsInv, ms, T
    <2>10. regions = <<>> /\ regions' = <<>> /\ phase' = "tile"
        BY <1>1, <2>1 DEF SegInv, StartInv
    <2>11. RegionsInv'
        BY <2>10 DEF RegionsInv
    <2>12. TileInv'
        <3>1. 1 \in DOMAIN ms
            BY <2>8, <2>6, <2>2
        <3>2. tile' = [win |-> 1, pos |-> windows'[1].from]
            BY <2>1, <2>7, <3>1
        <3>3. windows'[1].from \in Nat /\ windows'[1].from <= windows'[1].to
            <4>1. windows'[1].from \in Nat
                BY <3>1, <2>2, <2>4, <2>7
            <4> QED
                BY <3>1, <4>1, <2>9, <2>6, <2>10 DEF WindowsInv, Chained
        <3>4. TextTiled(1, windows[1].from)'
            BY <3>3 DEF TextTiled
        <3>5. \A w \in DOMAIN windows' : ~ (w < 1)
            BY <2>6, <2>2
        <3> QED
            BY <3>1, <3>2, <3>3, <3>4, <3>5, <2>6, <2>10 DEF TileInv, CutPhases
    <2>13. StartInv'
        BY <1>1, <2>1 DEF SegInv, StartInv, Cutting, Packing
    <2>14. (StackInv /\ UnitsInv /\ CutInv /\ PackInv /\ DoneInv)'
        BY <2>10 DEF StackInv, UnitsInv, CutInv, PackInv, DoneInv, CutPhases
    <2> QED
        BY <2>9, <2>11, <2>12, <2>13, <2>14 DEF SegInv
<1> QED
    BY <1>2, <1>3

LEMMA WindowsTyped ==
    ASSUME WindowsInv, Chained
    PROVE  /\ Len(windows) \in Nat \ {0} /\ DOMAIN windows = 1..Len(windows)
           /\ \A w \in DOMAIN windows : windows[w].from \in Nat /\ windows[w].to \in Nat
<1> DEFINE S == [from : Nat, to : Nat]
<1>1. windows \in Seq(S) /\ windows # <<>>
    BY DEF WindowsInv
<1>2. \A s \in S : s.from \in Nat /\ s.to \in Nat
    OBVIOUS
<1> HIDE DEF S
<1>3. \A w \in DOMAIN windows : windows[w] \in S
    BY <1>1
<1> QED
    BY <1>1, <1>2, <1>3

LEMMA RegionsTyped ==
    ASSUME RegionsInv, Chained
    PROVE  /\ Len(regions) \in Nat /\ DOMAIN regions = 1..Len(regions)
           /\ \A r \in DOMAIN regions : regions[r].from \in Nat /\ regions[r].to \in Nat
<1>1. regions \in Seq(RegionRecords)
    BY DEF RegionsInv
<1>2. \A s \in RegionRecords : s.from \in Nat /\ s.to \in Nat
    BY DEF RegionRecords
<1>3. \A r \in DOMAIN regions : regions[r] \in RegionRecords
    BY <1>1
<1> QED
    BY <1>1, <1>2, <1>3

\* The regions before and the blocks laid after them are regions of the windows.
LEMMA RegionsGrow ==
    ASSUME WindowsInv, RegionsInv, TileInv, phase = "tile",
           NEW b, NEW pos \in Nat, tile.pos <= pos, pos <= windows[tile.win].to,
           Laid(b, tile.win, tile.pos, pos), regions' = regions \o b, UNCHANGED <<windows, job>>
    PROVE  /\ regions' \in Seq(RegionRecords)
           /\ \A r \in DOMAIN regions' :
                /\ regions'[r].win \in DOMAIN windows
                /\ windows[regions'[r].win].from <= regions'[r].from /\ regions'[r].from < regions'[r].to
                /\ regions'[r].to <= windows[regions'[r].win].to
                /\ regions'[r].to <= pos
                /\ \A q \in DOMAIN regions' : q < r => regions'[q].to <= regions'[r].from
           /\ \A w \in DOMAIN windows :
                /\ w < tile.win => TextTiled(w, windows[w].to)'
                /\ w = tile.win => TextTiled(w, pos)'
<1> DEFINE n == Len(regions)
           d == regions'
<1>1. Chained
    BY DEF Chained
<1>2. /\ regions \in Seq(RegionRecords) /\ b \in Seq(RegionRecords) /\ d \in Seq(RegionRecords)
      /\ n \in Nat /\ Len(b) \in Nat
      /\ DOMAIN regions = 1..n /\ DOMAIN b = 1..Len(b) /\ DOMAIN d = 1..(n + Len(b))
    BY <1>1 DEF Laid, RegionsInv
<1>3. \A i \in DOMAIN d : \/ i \in DOMAIN regions /\ d[i] = regions[i]
                          \/ i - n \in DOMAIN b /\ d[i] = b[i - n] /\ i > n
    BY <1>2
<1>4. /\ \A i \in DOMAIN regions : i \in DOMAIN d /\ d[i] = regions[i]
      /\ \A i \in DOMAIN b : i + n \in DOMAIN d /\ d[i + n] = b[i]
    BY <1>2
<1>5. /\ \A i \in DOMAIN regions : regions[i].from \in Nat /\ regions[i].to \in Nat
      /\ \A i \in DOMAIN b : b[i].from \in Nat /\ b[i].to \in Nat
    <2>1. (\A i \in DOMAIN regions : regions[i] \in RegionRecords) /\ \A i \in DOMAIN b : b[i] \in RegionRecords
        BY <1>2
    <2> QED
        BY <2>1 DEF RegionRecords
<1>6. /\ tile.win \in DOMAIN windows /\ tile.pos \in Nat
      /\ windows[tile.win].from \in Nat /\ windows[tile.win].to \in Nat
      /\ windows[tile.win].from <= tile.pos /\ tile.pos <= windows[tile.win].to
      /\ \A r \in DOMAIN regions : regions[r].to <= tile.pos
    BY <1>1, WindowsTyped DEF TileInv
<1>7. /\ windows' = windows /\ job' = job
      /\ \A r \in DOMAIN regions :
            /\ regions[r].win \in DOMAIN windows
            /\ windows[regions[r].win].from <= regions[r].from /\ regions[r].from < regions[r].to
            /\ regions[r].to <= windows[regions[r].win].to
            /\ \A q \in DOMAIN regions : q < r => regions[q].to <= regions[r].from
    BY <1>1 DEF RegionsInv
<1> HIDE DEF n, d
<1>8. ASSUME NEW r \in DOMAIN d
      PROVE  /\ d[r].win \in DOMAIN windows
             /\ windows[d[r].win].from <= d[r].from /\ d[r].from < d[r].to
             /\ d[r].to <= windows[d[r].win].to
             /\ d[r].to <= pos
             /\ \A q \in DOMAIN d : q < r => d[q].to <= d[r].from
    <2>1. CASE r \in DOMAIN regions /\ d[r] = regions[r]
        <3>1. \A q \in DOMAIN d : q < r => q \in DOMAIN regions /\ d[q] = regions[q]
            BY <1>2, <1>4, <2>1
        <3>2. d[r].to \in Nat /\ d[r].to <= tile.pos
            BY <2>1, <1>5, <1>6
        <3>3. d[r].to <= pos
            BY <3>2, <1>6
        <3> QED
            BY <3>1, <3>3, <2>1, <1>7
    <2>2. CASE r - n \in DOMAIN b /\ d[r] = b[r - n] /\ r > n
        <3>1. d[r].win = tile.win /\ tile.pos <= d[r].from /\ d[r].from < d[r].to /\ d[r].to <= pos
            BY <2>2 DEF Laid
        <3>2. d[r].from \in Nat /\ d[r].to \in Nat
            BY <2>2, <1>5
        <3>3. ASSUME NEW q \in DOMAIN d, q < r PROVE d[q].to <= d[r].from
            <4>1. CASE q \in DOMAIN regions /\ d[q] = regions[q]
                <5>1. d[q].to \in Nat /\ d[q].to <= tile.pos
                    BY <4>1, <1>5, <1>6
                <5> QED
                    BY <5>1, <3>1, <3>2, <1>6
            <4>2. CASE q - n \in DOMAIN b /\ d[q] = b[q - n]
                <5>1. q - n < r - n
                    BY <1>2, <3>3
                <5> QED
                    BY <5>1, <4>2, <2>2 DEF Laid
            <4> QED
                BY <4>1, <4>2, <1>3
        <3> QED
            BY <3>1, <3>2, <3>3, <1>6
    <2> QED
        BY <2>1, <2>2, <1>3
<1>9. ASSUME NEW w \in DOMAIN windows, NEW p \in Nat, job.text[p + 1] \notin Spaces,
             \E r \in DOMAIN regions : p \in Chars(regions[r]) /\ (IsParagraph(r) \/ IsHeading(r))
      PROVE  \E r \in DOMAIN d : p \in Chars(d[r]) /\ (d[r].kind = "paragraph" \/ d[r].kind = "heading")
    BY <1>4, <1>9 DEF IsParagraph, IsHeading
<1>10. ASSUME NEW w \in DOMAIN windows, NEW e \in Nat, TextTiled(w, e)
       PROVE  TextTiled(w, e)'
    <2>1. SUFFICES ASSUME NEW p \in (windows[w].from)..(e - 1), job.text[p + 1] \notin Spaces
                   PROVE  \E r \in DOMAIN d : p \in Chars(d[r]) /\ (d[r].kind = "paragraph" \/ d[r].kind = "heading")
        BY <1>7 DEF TextTiled, IsParagraph, IsHeading, d, Chars
    <2>2. p \in Nat
        BY <1>1, WindowsTyped
    <2> QED
        BY <2>1, <2>2, <1>9, <1>10 DEF TextTiled
<1>11. ASSUME NEW w \in DOMAIN windows, w = tile.win PROVE TextTiled(w, pos)'
    <2>1. SUFFICES ASSUME NEW p \in (windows[w].from)..(pos - 1), job.text[p + 1] \notin Spaces
                   PROVE  \E r \in DOMAIN d : p \in Chars(d[r]) /\ (d[r].kind = "paragraph" \/ d[r].kind = "heading")
        BY <1>7 DEF TextTiled, IsParagraph, IsHeading, d, Chars
    <2>2. p \in Nat
        BY <1>6, <1>11
    <2>3. CASE p < tile.pos
        <3>1. p \in (windows[w].from)..(tile.pos - 1)
            BY <2>3, <1>6
        <3>2. TextTiled(w, tile.pos)
            BY <1>11 DEF TileInv
        <3> QED
            BY <3>1, <3>2, <2>1, <2>2, <1>6, <1>9 DEF TextTiled
    <2>4. CASE p >= tile.pos
        <3>1. p \in (tile.pos)..(pos - 1)
            BY <2>4, <1>6
        <3>2. PICK i \in DOMAIN b : p \in Chars(b[i]) /\ b[i].kind \in {"paragraph", "heading"}
            BY <3>1, <2>1 DEF Laid
        <3> QED
            BY <3>2, <1>4
    <2> QED
        BY <2>2, <2>3, <2>4, <1>6
<1>12. ASSUME NEW w \in DOMAIN windows, w < tile.win PROVE TextTiled(w, windows[w].to)'
    <2>1. TextTiled(w, windows[w].to) /\ windows[w].to \in Nat
        BY <1>1, <1>12, WindowsTyped DEF TileInv
    <2>2. PICK e \in Nat : e = windows[w].to /\ TextTiled(w, e) /\ windows'[w].to = e
        BY <2>1, <1>7
    <2>3. TextTiled(w, e)'
        BY <2>2, <1>10
    <2> QED
        BY <2>2, <2>3 DEF TextTiled
<1> QED
    BY <1>2, <1>8, <1>11, <1>12 DEF d

LEMMA GapWithin ==
    ASSUME NEW t, NEW pos \in Nat, NEW upper \in Nat, NEW g \in FirstGap(t, pos, upper)
    PROVE  g[1] \in Nat /\ g[2] \in Nat /\ pos <= g[1] /\ g[1] <= g[2] /\ g[2] <= upper
<1> DEFINE opens(i) == {e \in (i + 2)..upper : t[e] = "lf" /\ IsGap(Slice(t, i, e))}
           starts == {i \in pos..(upper - 2) : t[i + 1] \in {"cr", "lf"} /\ opens(i) # {}}
<1>1. starts # {} /\ \E e \in opens(Min(starts)) : g = <<Min(starts), e>>
    BY DEF FirstGap
<1>2. starts \in SUBSET Int /\ \A x \in starts : pos <= x
    OBVIOUS
<1>3. starts \subseteq pos..(upper - 2)
    OBVIOUS
<1>4. \A i : opens(i) \subseteq (i + 2)..upper
    OBVIOUS
<1> HIDE DEF opens, starts
<1>5. Min(starts) \in starts
    <2>1. pos \in Int
        OBVIOUS
    <2> QED
        BY <2>1, <1>1, <1>2, LeastWithin
<1>6. PICK e \in opens(Min(starts)) : g = <<Min(starts), e>>
    BY <1>1
<1>7. Min(starts) \in pos..(upper - 2) /\ e \in (Min(starts) + 2)..upper
    BY <1>3, <1>4, <1>5
<1> DEFINE i == Min(starts)
<1>8. i \in pos..(upper - 2) /\ e \in (i + 2)..upper /\ g = <<i, e>>
    BY <1>6, <1>7
<1> HIDE DEF i
<1> QED
    BY <1>8

LEMMA StepTile ==
    ASSUME SegInv, TileBlock
    PROVE  SegInv'
<1>1. /\ StartInv /\ WindowsInv /\ RegionsInv /\ TileInv /\ phase = "tile" /\ Chained
      /\ UNCHANGED <<job, windows, at, Cutting, Packing, result>>
    BY DEF SegInv, TileBlock, Chained
<1>2. /\ tile.win \in DOMAIN windows /\ tile.win \in Nat /\ tile.pos \in Nat
      /\ windows[tile.win].to \in Nat /\ tile.pos <= windows[tile.win].to
      /\ Len(windows) \in Nat \ {0} /\ DOMAIN windows = 1..Len(windows)
      /\ \A w \in DOMAIN windows : windows[w].from \in Nat /\ windows[w].to \in Nat
    BY <1>1, WindowsTyped DEF TileInv
<1> DEFINE upper == windows[tile.win].to
           gaps == FirstGap(job.text, tile.pos, upper)
           Shifts(b, pos) == /\ pos \in Nat /\ tile.pos <= pos /\ pos <= upper
                            /\ Laid(b, tile.win, tile.pos, pos) /\ regions' = regions \o b
                            /\ tile' = [tile EXCEPT !.pos = pos] /\ phase' = phase
           Exits(b) == /\ Laid(b, tile.win, tile.pos, upper) /\ regions' = regions \o b
                      /\ IF tile.win < Len(windows)
                         THEN /\ tile' = [win |-> tile.win + 1, pos |-> windows[tile.win + 1].from]
                              /\ phase' = phase
                         ELSE phase' = "units"
<1>3. \/ \E b, pos : Shifts(b, pos)
      \/ \E b : Exits(b)
    <2>1. CASE gaps # {}
        <3> DEFINE g == CHOOSE g \in gaps : TRUE
                   x == BlockRegions(tile.pos, g[1])
                   y == BlockRegions(g[1], g[2])
        <3>1. /\ regions' = regions \o x \o y
              /\ tile' = [tile EXCEPT !.pos = g[2]] /\ phase' = phase
            BY <2>1 DEF TileBlock
        <3>2. g \in gaps
            BY <2>1
        <3> HIDE DEF g
        <3>3. g[1] \in Nat /\ g[2] \in Nat /\ tile.pos <= g[1] /\ g[1] <= g[2] /\ g[2] <= upper
            BY <3>2, <1>2, GapWithin
        <3>4. Laid(x, tile.win, tile.pos, g[1]) /\ Laid(y, tile.win, g[1], g[2])
            BY <3>3, <1>2, BlockLaid
        <3> HIDE DEF x, y
        <3>5. Laid(x \o y, tile.win, tile.pos, g[2])
            BY <3>3, <3>4, <1>2, LaidJoined
        <3>6. (regions \o x) \o y = regions \o (x \o y)
            <4>1. regions \in Seq(RegionRecords) /\ x \in Seq(RegionRecords) /\ y \in Seq(RegionRecords)
                BY <3>4, <1>1 DEF Laid, RegionsInv
            <4> QED
                BY <4>1
        <3>7. Shifts(x \o y, g[2])
            BY <3>1, <3>3, <3>5, <3>6, <1>2
        <3> QED
            BY <3>7
    <2>2. CASE gaps = {}
        <3> DEFINE x == BlockRegions(tile.pos, upper)
        <3>1. /\ regions' = regions \o x
              /\ IF tile.win < Len(windows)
                 THEN /\ tile' = [win |-> tile.win + 1, pos |-> windows[tile.win + 1].from]
                      /\ phase' = phase
                 ELSE phase' = "units"
            BY <2>2 DEF TileBlock
        <3>2. Laid(x, tile.win, tile.pos, upper)
            BY <1>2, BlockLaid
        <3> HIDE DEF x
        <3>3. Exits(x)
            BY <3>1, <3>2
        <3> QED
            BY <3>3
    <2> QED
        BY <2>1, <2>2
<1>4. PICK b, pos : Shifts(b, pos) \/ (pos = upper /\ Exits(b))
    BY <1>3
<1>5. pos \in Nat /\ tile.pos <= pos /\ pos <= upper /\ Laid(b, tile.win, tile.pos, pos) /\ regions' = regions \o b
    BY <1>4, <1>2
<1>6. /\ regions' \in Seq(RegionRecords)
      /\ \A r \in DOMAIN regions' :
            /\ regions'[r].win \in DOMAIN windows
            /\ windows[regions'[r].win].from <= regions'[r].from /\ regions'[r].from < regions'[r].to
            /\ regions'[r].to <= windows[regions'[r].win].to
            /\ regions'[r].to <= pos
            /\ \A q \in DOMAIN regions' : q < r => regions'[q].to <= regions'[r].from
      /\ \A w \in DOMAIN windows :
            /\ w < tile.win => TextTiled(w, windows[w].to)'
            /\ w = tile.win => TextTiled(w, pos)'
    BY <1>1, <1>5, RegionsGrow
<1>7. windows' = windows /\ job' = job
    BY <1>1
<1>8. WindowsInv'
    BY <1>1, <1>7 DEF WindowsInv
<1>9. RegionsInv'
    BY <1>6, <1>7 DEF RegionsInv
<1>10. StartInv' /\ phase' \in {"tile", "units"}
    <2>1. phase' \in {"tile", "units"}
        BY <1>1, <1>4
    <2> QED
        BY <2>1, <1>1 DEF StartInv, Cutting, Packing
<1>11. /\ \A r \in DOMAIN regions' : regions'[r].to \in Nat
       /\ DOMAIN regions' = 1..Len(regions') /\ Len(regions') \in Nat
    <2>1. \A r \in DOMAIN regions' : regions'[r] \in RegionRecords
        BY <1>6
    <2> QED
        BY <2>1, <1>6 DEF RegionRecords
<1>12. TileInv'
    <2>1. CASE Shifts(b, pos)
        <3>1. tile' = [tile EXCEPT !.pos = pos] /\ phase' = "tile"
            BY <2>1, <1>1
        <3>2. tile' \in [win : Nat, pos : Nat] /\ tile'.win = tile.win /\ tile'.pos = pos
            <4>1. tile \in [win : Nat, pos : Nat]
                BY <1>1 DEF TileInv
            <4> QED
                BY <3>1, <4>1, <1>5
        <3>3. windows[tile.win].from <= pos
            <4>1. windows[tile.win].from <= tile.pos
                BY <1>1 DEF TileInv
            <4> QED
                BY <4>1, <1>2, <1>5
        <3>4. TextTiled(tile.win, tile.pos)'
            BY <3>2, <1>2, <1>6 DEF TextTiled
        <3>5. \A w \in DOMAIN windows : w < tile.win => TextTiled(w, windows[w].to)'
            BY <1>6
        <3> QED
            BY <3>1, <3>2, <3>3, <3>4, <3>5, <1>2, <1>5, <1>6, <1>7 DEF TileInv, CutPhases
    <2>2. CASE Exits(b) /\ pos = upper /\ tile.win < Len(windows)
        <3>1. tile' = [win |-> tile.win + 1, pos |-> windows[tile.win + 1].from] /\ phase' = "tile"
            BY <2>2, <1>1
        <3>2. /\ tile.win + 1 \in DOMAIN windows /\ tile'.win = tile.win + 1
              /\ tile'.pos = windows[tile.win + 1].from /\ tile'.pos \in Nat
              /\ tile' \in [win : Nat, pos : Nat]
            BY <3>1, <2>2, <1>2
        <3>3. windows[tile.win].to <= tile'.pos /\ tile'.pos <= windows[tile'.win].to
            <4>1. tile.win < tile.win + 1
                BY <1>2
            <4>2. /\ windows[tile.win].to <= windows[tile.win + 1].from
                  /\ windows[tile.win + 1].from <= windows[tile.win + 1].to
                BY <4>1, <3>2, <1>1, <1>2 DEF WindowsInv
            <4> QED
                BY <4>2, <3>2
        <3>4. \A r \in DOMAIN regions' : regions'[r].to <= tile'.pos
            <4> TAKE r \in DOMAIN regions'
            <4>1. regions'[r].to \in Nat /\ regions'[r].to <= windows[tile.win].to
                BY <2>2, <1>6, <1>11
            <4> QED
                BY <4>1, <3>2, <3>3, <1>2
        <3>5. \A w \in DOMAIN windows : w < tile'.win => TextTiled(w, windows[w].to)'
            <4>1. \A w \in DOMAIN windows : w < tile'.win => w < tile.win \/ w = tile.win
                BY <3>2, <1>2
            <4> QED
                BY <4>1, <2>2, <1>6, <1>7 DEF TextTiled
        <3>6. TextTiled(tile.win, tile.pos)'
            BY <3>2, <1>7, <1>2 DEF TextTiled
        <3> QED
            BY <3>1, <3>2, <3>3, <3>4, <3>5, <3>6, <1>7 DEF TileInv, CutPhases
    <2>3. CASE Exits(b) /\ pos = upper /\ ~ (tile.win < Len(windows))
        <3>1. phase' = "units" /\ tile.win = Len(windows)
            BY <2>3, <1>2
        <3>2. \A w \in DOMAIN windows : w < tile.win \/ w = tile.win
            BY <3>1, <1>2
        <3>3. \A w \in DOMAIN windows : TextTiled(w, windows[w].to)'
            BY <3>2, <2>3, <1>6, <1>7 DEF TextTiled
        <3> QED
            BY <3>1, <3>3, <1>7 DEF TileInv
    <2> QED
        BY <2>1, <2>2, <2>3, <1>4
<1>13. (StackInv /\ UnitsInv /\ CutInv /\ PackInv /\ DoneInv)'
    <2>1. /\ at' = 1 /\ stack' = <<>> /\ epoch' = 0 /\ leaf' = 0 /\ units' = <<>> /\ group' = None /\ groups' = <<>>
        BY <1>1 DEF StartInv, Cutting, Packing
    <2>2. Heads(at)' = {}
        BY <2>1, <1>11 DEF Heads
    <2>3. StackInv'
        BY <2>1, <2>2 DEF StackInv, StillOpen
    <2>4. UnitsInv'
        BY <2>1 DEF UnitsInv
    <2>5. CutInv'
        BY <2>1, <1>10, <1>11 DEF CutInv, CutPhases
    <2>6. PackInv'
        BY <2>1, <1>10 DEF PackInv, CutPhases
    <2>7. DoneInv'
        BY <1>10 DEF DoneInv
    <2> QED
        BY <2>3, <2>4, <2>5, <2>6, <2>7
<1> QED
    BY <1>8, <1>9, <1>10, <1>12, <1>13 DEF SegInv

-----------------------------------------------------------------------------
\* Where leaves end and start.
LEMMA OfTwo ==
    ASSUME NEW a \in Int, NEW b \in Int
    PROVE  /\ Min({a, b}) = IF a <= b THEN a ELSE b
           /\ Max({a, b}) = IF a <= b THEN b ELSE a
<1> DEFINE S == {a, b}
           c == IF a <= b THEN a ELSE b
           d == IF a <= b THEN b ELSE a
<1>1. S \in SUBSET Int /\ S # {} /\ (\A x \in S : c <= x) /\ (\A x \in S : x <= d) /\ c \in Int /\ d \in Int
    OBVIOUS
<1>2. c \in S /\ d \in S
    OBVIOUS
<1> HIDE DEF S, c, d
<1>3. Min(S) \in S /\ \A x \in S : Min(S) <= x
    BY <1>1, LeastWithin
<1>4. Max(S) \in S /\ \A x \in S : x <= Max(S)
    BY <1>1, GreatestWithin
<1>5. Min(S) = c /\ Max(S) = d
    <2>1. Min(S) \in Int /\ Max(S) \in Int
        BY <1>1, <1>3, <1>4
    <2>2. Min(S) <= c /\ c <= Min(S) /\ Max(S) <= d /\ d <= Max(S)
        BY <1>1, <1>2, <1>3, <1>4
    <2> QED
        BY <1>1, <2>1, <2>2
<1> QED
    BY <1>5 DEF S, c, d

Bounds == (Nat \ {0}) \X Nat \X Nat
Middle(p) == (p[1] + p[2]) \div 2

\* Bisection between two bounds, with the best end so far.
LEMMA Bisected ==
    ASSUME NEW next,
           \A p \in Bounds : p[1] <= p[2] =>
               next[p] \in {<<Middle(p) + 1, p[2], Middle(p)>>, <<Middle(p) + 1, p[2], p[3]>>,
                            <<p[1], Middle(p) - 1, Middle(p)>>, <<p[1], Middle(p) - 1, p[3]>>}
    PROVE  LET stop == [p \in Bounds |-> p[1] > p[2]]
               out == [p \in Bounds |-> p[3]]
           IN /\ \E f : f = Handing(Bounds, stop, out, next, f)
              /\ \A F : F = Handing(Bounds, stop, out, next, F) =>
                    \A s, n \in Nat : \A p \in Bounds :
                        s <= p[1] /\ p[2] <= n /\ p[3] \in s..n => F[p] \in s..n
<1> DEFINE stop == [p \in Bounds |-> p[1] > p[2]]
           out == [p \in Bounds |-> p[3]]
           m == [p \in Bounds |-> IF p[1] <= p[2] THEN p[2] + 1 - p[1] ELSE 0]
<1>1. \A p \in Bounds : p[1] \in Nat \ {0} /\ p[2] \in Nat /\ p[3] \in Nat
    BY DEF Bounds
<1>2. ASSUME NEW p \in Bounds, p[1] <= p[2]
      PROVE  /\ Middle(p) \in Nat \ {0} /\ p[1] <= Middle(p) /\ Middle(p) <= p[2]
             /\ next[p] \in Bounds
             /\ next[p][1] \in {p[1], Middle(p) + 1} /\ next[p][2] \in {p[2], Middle(p) - 1}
             /\ next[p][3] \in {p[3], Middle(p)}
             /\ next[p][1] = Middle(p) + 1 \/ next[p][2] = Middle(p) - 1
    <2>1. p[1] \in Nat \ {0} /\ p[2] \in Nat /\ p[3] \in Nat
        BY <1>1
    <2>2. Middle(p) \in Nat \ {0} /\ p[1] <= Middle(p) /\ Middle(p) <= p[2]
        BY <2>1, <1>2 DEF Middle
    <2> DEFINE k == Middle(p)
    <2>3. next[p] \in {<<k + 1, p[2], k>>, <<k + 1, p[2], p[3]>>, <<p[1], k - 1, k>>, <<p[1], k - 1, p[3]>>}
        BY <1>2
    <2>4. k \in Nat \ {0} /\ k + 1 \in Nat \ {0} /\ k - 1 \in Nat
        BY <2>2
    <2> HIDE DEF k
    <2>5. /\ <<k + 1, p[2], k>> \in Bounds /\ <<k + 1, p[2], p[3]>> \in Bounds
          /\ <<p[1], k - 1, k>> \in Bounds /\ <<p[1], k - 1, p[3]>> \in Bounds
        BY <2>1, <2>4 DEF Bounds
    <2>6. /\ next[p] \in Bounds
          /\ next[p][1] \in {p[1], k + 1} /\ next[p][2] \in {p[2], k - 1} /\ next[p][3] \in {p[3], k}
          /\ next[p][1] = k + 1 \/ next[p][2] = k - 1
        BY <2>3, <2>5
    <2> QED
        BY <2>2, <2>6 DEF k
<1>3. Falls(Bounds, m, stop, next)
    <2>1. \A p \in Bounds : m[p] \in Nat
        BY <1>1
    <2>2. ASSUME NEW p \in Bounds, ~stop[p] PROVE next[p] \in Bounds /\ m[next[p]] < m[p]
        <3>0. p[1] \in Nat /\ p[2] \in Nat /\ ~ (p[1] > p[2])
            BY <1>1, <2>2
        <3>1. p[1] <= p[2] /\ p[1] \in Nat /\ p[2] \in Nat
            BY <3>0
        <3>2. /\ next[p] \in Bounds /\ Middle(p) \in Nat /\ p[1] <= Middle(p) /\ Middle(p) <= p[2]
              /\ next[p][1] \in {p[1], Middle(p) + 1} /\ next[p][2] \in {p[2], Middle(p) - 1}
              /\ next[p][1] = Middle(p) + 1 \/ next[p][2] = Middle(p) - 1
            BY <3>1, <1>2
        <3> DEFINE q == next[p]
        <3>3. m[q] = (IF q[1] <= q[2] THEN q[2] + 1 - q[1] ELSE 0) /\ m[p] = p[2] + 1 - p[1]
            BY <3>1, <3>2
        <3> HIDE DEF m, q
        <3>4. /\ q[1] \in {p[1], Middle(p) + 1} /\ q[2] \in {p[2], Middle(p) - 1}
              /\ q[1] = Middle(p) + 1 \/ q[2] = Middle(p) - 1
            BY <3>2 DEF q
        <3>5. m[q] < m[p]
            BY <3>1, <3>2, <3>3, <3>4
        <3> QED
            BY <3>2, <3>5 DEF q
    <2> HIDE DEF m, stop
    <2> QED
        BY <2>1, <2>2 DEF Falls
<1>4. ASSUME NEW F, F = Handing(Bounds, stop, out, next, F), NEW s \in Nat, NEW n \in Nat,
             NEW p0 \in Bounds, s <= p0[1], p0[2] <= n, p0[3] \in s..n
      PROVE  F[p0] \in s..n
    <2> DEFINE I == {p \in Bounds : s <= p[1] /\ p[2] <= n /\ p[3] \in s..n}
               R == s..n
    <2>1. I \in SUBSET Bounds /\ p0 \in I
        BY <1>4
    <2>2. ASSUME NEW p \in I PROVE (stop[p] => out[p] \in R) /\ (~stop[p] => next[p] \in I)
        <3>1. p \in Bounds /\ s <= p[1] /\ p[2] <= n /\ p[3] \in s..n
            OBVIOUS
        <3>2. p[1] \in Nat /\ p[2] \in Nat /\ p[3] \in Nat
            BY <1>1
        <3>3. CASE stop[p]
            BY <3>1, <3>3
        <3>4. CASE ~stop[p]
            <4>0. ~ (p[1] > p[2])
                BY <3>1, <3>4
            <4>1. p[1] <= p[2]
                BY <4>0, <3>2
            <4>2. /\ Middle(p) \in Nat /\ p[1] <= Middle(p) /\ Middle(p) <= p[2] /\ next[p] \in Bounds
                  /\ next[p][1] \in {p[1], Middle(p) + 1} /\ next[p][2] \in {p[2], Middle(p) - 1}
                  /\ next[p][3] \in {p[3], Middle(p)}
                BY <4>1, <1>2
            <4>3. s <= next[p][1] /\ next[p][2] <= n /\ next[p][3] \in s..n
                BY <4>2, <3>1, <3>2
            <4> QED
                BY <3>4, <4>2, <4>3
        <3> QED
            BY <3>3, <3>4
    <2> HIDE DEF I, R, stop, out, m
    <2>3. Leads(I, stop, out, next, R)
        BY <2>2 DEF Leads
    <2>4. F = Handing(Bounds, stop, out, next, F)
        BY <1>4
    <2>5. F[p0] \in R
        BY <1>3, <2>1, <2>3, <2>4, HandingEnds
    <2> QED
        BY <2>5 DEF R
<1>5. \E f : f = Handing(Bounds, stop, out, next, f)
    <2> HIDE DEF m, stop, out
    <2> QED
        BY <1>3, HandingExists
<1> QED
    BY <1>4, <1>5

LEMMA BudgetPositive ==
    ASSUME job \in Jobs
    PROVE  LeafBudget \in Nat \ {0} /\ LeafMin \in Nat /\ job.overlap \in Nat
<1>1. job.max \in Nat \ {0} /\ job.overlap \in Nat /\ job.overlap < job.max /\ job.min \in Nat
    BY JobsTyped
<1>2. LeafBudget \in Nat \ {0}
    BY <1>1 DEF LeafBudget
<1> QED
    BY <1>1, <1>2, OfTwo DEF LeafMin

\* A probe ends at two positions of the region.
LEMMA LargestWithin ==
    ASSUME job \in Jobs, NEW s \in Nat, Here.to \in Nat, s <= Here.to
    PROVE  LargestEnd(s) \in s..Here.to
<1> DEFINE n == Here.to
           fits(e) == Tokens(s, e) <= LeafBudget
           W == Max({ProbeChars, LeafBudget * ProbeFactor})
           high(w) == Min({n, s + w})
           P == Nat \ {0}
           ProbeStep(f) ==
               [w \in P |->
                   IF ~fits(high(w)) THEN <<IF w = Max({ProbeChars, LeafBudget * ProbeFactor}) THEN s
                                            ELSE high(w \div 2), high(w)>>
                   ELSE IF high(w) = n THEN <<n, n>> ELSE f[2 * w]]
           Probe == CHOOSE f : f = ProbeStep(f)
           SearchStep(f) ==
               [p \in (Nat \ {0}) \X Nat \X Nat |->
                   LET middle == (p[1] + p[2]) \div 2 IN
                   IF p[1] > p[2] THEN p[3]
                   ELSE IF fits(middle) THEN f[<<middle + 1, p[2], middle>>]
                   ELSE f[<<p[1], middle - 1, p[3]>>]]
           Search == CHOOSE f : f = SearchStep(f)
           probed == Probe[W]
<1>1. LargestEnd(s) = IF probed[1] = n THEN n ELSE Search[<<probed[1] + 1, probed[2], probed[1]>>]
    BY DEF LargestEnd
<1>2. W \in P
    <2> DEFINE c == LeafBudget * ProbeFactor
    <2>1. c \in Nat
        BY BudgetPositive, ProbeAssumption
    <2> HIDE DEF c
    <2>2. Max({ProbeChars, c}) = IF ProbeChars <= c THEN c ELSE ProbeChars
        BY <2>1, OfTwo, ProbeAssumption
    <2>3. Max({ProbeChars, c}) \in Nat \ {0}
        BY <2>1, <2>2, ProbeAssumption
    <2> QED
        BY <2>3 DEF c
<1>3. n \in Nat /\ s <= n
    OBVIOUS
<1>4. \A w \in Nat : high(w) \in s..n /\ (high(w) # n => s + w < n)
    <2> TAKE w \in Nat
    <2>1. Min({n, s + w}) = IF n <= s + w THEN n ELSE s + w
        BY <1>3, OfTwo
    <2> QED
        BY <2>1, <1>3
<1> HIDE DEF W, high, n, fits
<1>5. probed \in (s..n) \X (s..n)
    <2> DEFINE stop == [w \in P |-> ~fits(high(w)) \/ high(w) = n]
               out == [w \in P |-> IF ~fits(high(w)) THEN <<IF w = W THEN s ELSE high(w \div 2), high(w)>>
                                   ELSE <<n, n>>]
               next == [w \in P |-> 2 * w]
               m == [w \in P |-> IF s + w < n THEN n - (s + w) ELSE 0]
               R == (s..n) \X (s..n)
    <2>1. \A f : ProbeStep(f) = Handing(P, stop, out, next, f)
        BY DEF Handing, W
    <2>2. Falls(P, m, stop, next)
        <3>1. \A w \in P : m[w] \in Nat
            BY <1>3
        <3>2. ASSUME NEW w \in P, ~stop[w] PROVE next[w] \in P /\ m[next[w]] < m[w]
            <4>1. s + w < n
                BY <3>2, <1>4
            <4> QED
                BY <4>1, <1>3
        <3> HIDE DEF m, stop, next
        <3> QED
            BY <3>1, <3>2 DEF Falls
    <2>3. Leads(P, stop, out, next, R)
        <3> SUFFICES ASSUME NEW w \in P PROVE (stop[w] => out[w] \in R) /\ (~stop[w] => next[w] \in P)
            BY DEF Leads
        <3>1. w \in Nat /\ w \div 2 \in Nat /\ 2 * w \in P
            OBVIOUS
        <3>2. high(w) \in s..n /\ high(w \div 2) \in s..n /\ s \in s..n /\ n \in s..n
            BY <3>1, <1>3, <1>4
        <3> QED
            BY <3>1, <3>2
    <2> HIDE DEF m, stop, next, out, R, ProbeStep
    <2>4. Probe = Handing(P, stop, out, next, Probe)
        <3>1. \E f : f = ProbeStep(f)
            BY <2>1, <2>2, HandingExists
        <3>2. Probe = ProbeStep(Probe)
            BY <3>1
        <3> HIDE DEF Probe
        <3> QED
            BY <3>2, <2>1
    <2> HIDE DEF Probe
    <2>5. P \in SUBSET P
        OBVIOUS
    <2>6. probed \in R
        <3> HIDE DEF P
        <3> QED
            BY <2>2, <2>3, <2>4, <2>5, <1>2, HandingEnds
    <2> QED
        BY <2>6 DEF R
<1> HIDE DEF probed
<1>6. ASSUME probed[1] # n PROVE Search[<<probed[1] + 1, probed[2], probed[1]>>] \in s..n
    <2> DEFINE stop == [p \in Bounds |-> p[1] > p[2]]
               out == [p \in Bounds |-> p[3]]
               next == [p \in Bounds |-> IF fits(Middle(p)) THEN <<Middle(p) + 1, p[2], Middle(p)>>
                                         ELSE <<p[1], Middle(p) - 1, p[3]>>]
    <2>1. \A f : SearchStep(f) = Handing(Bounds, stop, out, next, f)
        BY DEF Handing, Bounds, Middle
    <2>2. \A p \in Bounds : p[1] <= p[2] =>
               next[p] \in {<<Middle(p) + 1, p[2], Middle(p)>>, <<Middle(p) + 1, p[2], p[3]>>,
                            <<p[1], Middle(p) - 1, Middle(p)>>, <<p[1], Middle(p) - 1, p[3]>>}
        OBVIOUS
    <2> HIDE DEF next, SearchStep
    <2>3. /\ \E f : f = Handing(Bounds, stop, out, next, f)
          /\ \A F : F = Handing(Bounds, stop, out, next, F) =>
                \A a, b \in Nat : \A p \in Bounds :
                    a <= p[1] /\ p[2] <= b /\ p[3] \in a..b => F[p] \in a..b
        BY <2>2, Bisected
    <2> HIDE DEF stop, out
    <2>4. Search = Handing(Bounds, stop, out, next, Search)
        <3>1. \E f : f = SearchStep(f)
            BY <2>1, <2>3
        <3>2. Search = SearchStep(Search)
            BY <3>1
        <3> HIDE DEF Search
        <3> QED
            BY <3>2, <2>1
    <2> HIDE DEF Search
    <2>5. probed[1] \in s..n /\ probed[2] \in s..n
        BY <1>5
    <2> DEFINE p0 == <<probed[1] + 1, probed[2], probed[1]>>
    <2>6. p0 \in Bounds /\ s <= p0[1] /\ p0[2] <= n /\ p0[3] \in s..n
        BY <2>5, <1>3 DEF Bounds
    <2> HIDE DEF p0
    <2>7. Search[p0] \in s..n
        BY <2>3, <2>4, <2>6, <1>3
    <2> QED
        BY <2>7 DEF p0
<1>7. LargestEnd(s) \in s..n
    BY <1>1, <1>3, <1>6
<1> QED
    BY <1>7 DEF n

LEMMA SmallestWithin ==
    ASSUME job \in Jobs, NEW s \in Nat, NEW upper \in Nat
    PROVE  SmallestEnd(s, upper) \in Nat
<1> DEFINE worth(e) == Tokens(s, e) >= LeafMin
           SearchStep(f) ==
               [p \in (Nat \ {0}) \X Nat \X Nat |->
                   LET middle == (p[1] + p[2]) \div 2 IN
                   IF p[1] > p[2] THEN p[3]
                   ELSE IF worth(middle) THEN f[<<p[1], middle - 1, middle>>]
                   ELSE f[<<middle + 1, p[2], p[3]>>]]
           Search == CHOOSE f : f = SearchStep(f)
           p0 == <<s + 1, upper, upper>>
<1>1. SmallestEnd(s, upper) = IF LeafMin <= 1 THEN Min({s + 1, upper}) ELSE Search[p0]
    BY DEF SmallestEnd
<1>2. Min({s + 1, upper}) \in Nat
    <2>1. Min({s + 1, upper}) = IF s + 1 <= upper THEN s + 1 ELSE upper
        BY OfTwo
    <2> QED
        BY <2>1
<1> HIDE DEF worth
<1> DEFINE stop == [p \in Bounds |-> p[1] > p[2]]
           out == [p \in Bounds |-> p[3]]
           next == [p \in Bounds |-> IF worth(Middle(p)) THEN <<p[1], Middle(p) - 1, Middle(p)>>
                                     ELSE <<Middle(p) + 1, p[2], p[3]>>]
<1>3. \A f : SearchStep(f) = Handing(Bounds, stop, out, next, f)
    BY DEF Handing, Bounds, Middle
<1>4. \A p \in Bounds : p[1] <= p[2] =>
           next[p] \in {<<Middle(p) + 1, p[2], Middle(p)>>, <<Middle(p) + 1, p[2], p[3]>>,
                        <<p[1], Middle(p) - 1, Middle(p)>>, <<p[1], Middle(p) - 1, p[3]>>}
    OBVIOUS
<1> HIDE DEF next, SearchStep
<1>5. /\ \E f : f = Handing(Bounds, stop, out, next, f)
      /\ \A F : F = Handing(Bounds, stop, out, next, F) =>
            \A a, b \in Nat : \A p \in Bounds :
                a <= p[1] /\ p[2] <= b /\ p[3] \in a..b => F[p] \in a..b
    BY <1>4, Bisected
<1> HIDE DEF stop, out
<1>6. Search = Handing(Bounds, stop, out, next, Search)
    <2>1. \E f : f = SearchStep(f)
        BY <1>3, <1>5
    <2>2. Search = SearchStep(Search)
        BY <2>1
    <2> HIDE DEF Search
    <2> QED
        BY <2>2, <1>3
<1> HIDE DEF Search
<1>7. p0 \in Bounds /\ 0 <= p0[1] /\ p0[2] <= upper /\ p0[3] \in 0..upper
    BY DEF Bounds
<1> HIDE DEF p0
<1>8. Search[p0] \in 0..upper
    BY <1>5, <1>6, <1>7
<1> QED
    BY <1>1, <1>2, <1>8

LEMMA BreakWithin ==
    ASSUME NEW lower \in Nat, NEW upper \in Nat
    PROVE  LastBreak(lower, upper) \in Int /\ LastBreak(lower, upper) <= upper
<1> DEFINE char(p) == job.text[p + 1]
           within == lower..(upper - 1)
           paragraphs == {p \in within : p + 1 \in within /\ char(p) = "lf" /\ char(p + 1) = "lf"}
           lines == {p \in within : char(p) = "lf"}
           sentences == {p \in within : char(p) = "dot" /\ p + 1 < Here.to /\ char(p + 1) \in Spaces}
           words == {p \in within : char(p) \in Spaces}
<1>1. LastBreak(lower, upper) =
         IF paragraphs # {} THEN Max(paragraphs) + 2
         ELSE IF lines # {} THEN Max(lines) + 1
         ELSE IF sentences # {} THEN Max(sentences) + 1
         ELSE IF words # {} THEN Max(words) + 1
         ELSE upper
    BY DEF LastBreak
<1>2. ASSUME NEW S \in SUBSET within, S # {} PROVE Max(S) \in S /\ Max(S) \in Int /\ Max(S) + 1 <= upper
    <2>1. S \in SUBSET Int /\ \A x \in S : x <= upper - 1
        OBVIOUS
    <2>2. Max(S) \in S
        <3>1. upper - 1 \in Int
            OBVIOUS
        <3> QED
            BY <3>1, <2>1, <1>2, GreatestWithin
    <2>3. Max(S) \in lower..(upper - 1)
        BY <2>2
    <2> QED
        BY <2>2, <2>3
<1>3. /\ paragraphs \in SUBSET within /\ lines \in SUBSET within
      /\ sentences \in SUBSET within /\ words \in SUBSET within
    OBVIOUS
<1>4. \A p \in paragraphs : p + 1 \in within
    OBVIOUS
<1>5. paragraphs # {} => Max(paragraphs) + 2 \in Int /\ Max(paragraphs) + 2 <= upper
    <2> HAVE paragraphs # {}
    <2>1. Max(paragraphs) \in Int /\ Max(paragraphs) + 1 \in within
        BY <1>2, <1>3, <1>4
    <2> DEFINE k == Max(paragraphs)
    <2>2. k \in Int /\ k + 1 \in lower..(upper - 1)
        BY <2>1
    <2> HIDE DEF k
    <2>3. k + 2 \in Int /\ k + 2 <= upper
        BY <2>2
    <2> QED
        BY <2>3 DEF k
<1>6. /\ lines # {} => Max(lines) + 1 \in Int /\ Max(lines) + 1 <= upper
      /\ sentences # {} => Max(sentences) + 1 \in Int /\ Max(sentences) + 1 <= upper
      /\ words # {} => Max(words) + 1 \in Int /\ Max(words) + 1 <= upper
    <2> HIDE DEF lines, sentences, words, within
    <2> QED
        BY <1>2, <1>3
<1> HIDE DEF paragraphs, lines, sentences, words
<1> QED
    BY <1>1, <1>5, <1>6

LEMMA LeafWithin ==
    ASSUME job \in Jobs, NEW s \in Nat, Here.to \in Nat, s <= Here.to
    PROVE  LeafEnd(s) \in s..Here.to
<1> DEFINE upper == LargestEnd(s)
           end == LastBreak(SmallestEnd(s, upper), upper)
           S == {s} \cup {e \in (s + 1)..end : Tokens(s, e) <= LeafBudget}
<1>1. upper \in s..Here.to /\ upper \in Nat
    BY LargestWithin
<1>2. end \in Int /\ end <= upper
    BY <1>1, SmallestWithin, BreakWithin
<1>3. LeafEnd(s) = IF upper = Here.to THEN upper ELSE Max(S)
    BY DEF LeafEnd
<1> HIDE DEF upper, end
<1>4. S \in SUBSET Int /\ s \in S /\ \A x \in S : x \in s..Here.to
    BY <1>1, <1>2
<1> HIDE DEF S
<1>5. Max(S) \in S
    <2>1. Here.to \in Int /\ S # {} /\ \A x \in S : x <= Here.to
        BY <1>4
    <2> QED
        BY <2>1, <1>4, GreatestWithin
<1> QED
    BY <1>1, <1>3, <1>4, <1>5

LEMMA OverlapWithin ==
    ASSUME job \in Jobs, NEW end \in Nat, Here.from \in Nat, Here.from <= end
    PROVE  OverlapStart(end) \in (Here.from)..end
<1> DEFINE a == Here.from
           small(p) == Tokens(p, end) <= job.overlap
           SearchStep(f) ==
               [p \in Nat \X Nat |->
                   LET middle == (p[1] + p[2]) \div 2 IN
                   IF p[1] >= p[2] THEN p[1]
                   ELSE IF small(middle) THEN f[<<p[1], middle>>]
                   ELSE f[<<middle + 1, p[2]>>]]
           Search == CHOOSE f : f = SearchStep(f)
           ForwardStep(f) == [p \in Nat |-> IF p < end /\ ~small(p) THEN f[p + 1] ELSE p]
           Forward == CHOOSE f : f = ForwardStep(f)
           BackStep(f) == [p \in Nat |-> IF p > a /\ small(p - 1) THEN f[p - 1] ELSE p]
           Back == CHOOSE f : f = BackStep(f)
           found == Search[<<a, end>>]
           R == a..end
<1>1. OverlapStart(end) = Back[Forward[found]]
    BY DEF OverlapStart
<1>2. a \in Nat /\ a <= end
    OBVIOUS
<1> HIDE DEF a, small
<1>3. found \in R
    <2> DEFINE S == Nat \X Nat
               mid(p) == (p[1] + p[2]) \div 2
               stop == [p \in S |-> p[1] >= p[2]]
               out == [p \in S |-> p[1]]
               next == [p \in S |-> IF small(mid(p)) THEN <<p[1], mid(p)>> ELSE <<mid(p) + 1, p[2]>>]
               m == [p \in S |-> IF p[1] < p[2] THEN p[2] - p[1] ELSE 0]
               I == {p \in S : p[1] \in a..end /\ p[2] \in a..end}
    <2>1. \A f : SearchStep(f) = Handing(S, stop, out, next, f)
        BY DEF Handing
    <2>2. ASSUME NEW p \in S, ~stop[p]
          PROVE  /\ p[1] \in Nat /\ p[2] \in Nat /\ p[1] < p[2]
                 /\ mid(p) \in Nat /\ p[1] <= mid(p) /\ mid(p) < p[2]
                 /\ next[p] \in {<<p[1], mid(p)>>, <<mid(p) + 1, p[2]>>}
        <3>1. p[1] \in Nat /\ p[2] \in Nat /\ ~ (p[1] >= p[2])
            BY <2>2
        <3>2. p[1] < p[2] /\ mid(p) \in Nat /\ p[1] <= mid(p) /\ mid(p) < p[2]
            BY <3>1
        <3> QED
            BY <3>1, <3>2
    <2> HIDE DEF mid, stop
    <2>3. Falls(S, m, stop, next)
        <3>1. \A p \in S : m[p] \in Nat
            OBVIOUS
        <3>2. ASSUME NEW p \in S, ~stop[p] PROVE next[p] \in S /\ m[next[p]] < m[p]
            <4>1. /\ p[1] \in Nat /\ p[2] \in Nat /\ p[1] < p[2]
                  /\ mid(p) \in Nat /\ p[1] <= mid(p) /\ mid(p) < p[2]
                  /\ next[p] \in {<<p[1], mid(p)>>, <<mid(p) + 1, p[2]>>}
                BY <3>2, <2>2
            <4> DEFINE x == <<p[1], mid(p)>>
                       y == <<mid(p) + 1, p[2]>>
            <4>2. x \in S /\ y \in S /\ next[p] \in {x, y}
                BY <4>1
            <4>3. m[p] = p[2] - p[1] /\ m[x] < m[p] /\ m[y] < m[p]
                BY <4>1, <4>2
            <4> HIDE DEF x, y, m, next, S
            <4> QED
                BY <4>2, <4>3
        <3> HIDE DEF m, next, S
        <3> QED
            BY <3>1, <3>2 DEF Falls
    <2>4. Leads(I, stop, out, next, R)
        <3> SUFFICES ASSUME NEW p \in I PROVE (stop[p] => out[p] \in R) /\ (~stop[p] => next[p] \in I)
            BY DEF Leads
        <3>1. p \in S /\ p[1] \in a..end /\ p[2] \in a..end
            OBVIOUS
        <3>2. stop[p] => out[p] \in R
            BY <3>1
        <3>3. ASSUME ~stop[p] PROVE next[p] \in I
            <4>1. /\ mid(p) \in Nat /\ p[1] <= mid(p) /\ mid(p) < p[2]
                  /\ next[p] \in {<<p[1], mid(p)>>, <<mid(p) + 1, p[2]>>}
                BY <3>1, <3>3, <2>2
            <4>2. <<p[1], mid(p)>> \in I /\ <<mid(p) + 1, p[2]>> \in I
                BY <4>1, <3>1, <1>2
            <4> HIDE DEF next, I
            <4> QED
                BY <4>1, <4>2
        <3> QED
            BY <3>2, <3>3
    <2>5. I \in SUBSET S /\ <<a, end>> \in I
        BY <1>2
    <2> HIDE DEF m, next, out, I, S, SearchStep
    <2>6. Search = Handing(S, stop, out, next, Search)
        <3>1. \E f : f = SearchStep(f)
            BY <2>1, <2>3, HandingExists
        <3>2. Search = SearchStep(Search)
            BY <3>1
        <3> HIDE DEF Search
        <3> QED
            BY <3>2, <2>1
    <2> HIDE DEF Search, R
    <2> QED
        BY <2>3, <2>4, <2>5, <2>6, HandingEnds
<1> HIDE DEF found
<1>4. Forward[found] \in R
    <2> DEFINE stop == [p \in Nat |-> ~ (p < end /\ ~small(p))]
               out == [p \in Nat |-> p]
               next == [p \in Nat |-> p + 1]
               m == [p \in Nat |-> IF p < end THEN end - p ELSE 0]
    <2>1. \A f : ForwardStep(f) = Handing(Nat, stop, out, next, f)
        BY DEF Handing
    <2>0. \A p \in Nat : ~stop[p] => p < end
        OBVIOUS
    <2> HIDE DEF stop
    <2>2. Falls(Nat, m, stop, next)
        <3>1. \A p \in Nat : m[p] \in Nat
            OBVIOUS
        <3>2. \A p \in Nat : ~stop[p] => next[p] \in Nat /\ m[next[p]] < m[p]
            BY <2>0
        <3> HIDE DEF m, next
        <3> QED
            BY <3>1, <3>2 DEF Falls
    <2>3. Leads(R, stop, out, next, R)
        <3>1. \A p \in R : out[p] \in R /\ (~stop[p] => next[p] \in R)
            BY <1>2, <2>0
        <3> QED
            BY <3>1 DEF Leads
    <2>4. R \in SUBSET Nat
        BY <1>2
    <2> HIDE DEF m, next, out, stop, ForwardStep
    <2>5. Forward = Handing(Nat, stop, out, next, Forward)
        <3>1. \E f : f = ForwardStep(f)
            BY <2>1, <2>2, HandingExists
        <3>2. Forward = ForwardStep(Forward)
            BY <3>1
        <3> HIDE DEF Forward
        <3> QED
            BY <3>2, <2>1
    <2> HIDE DEF Forward, R
    <2> QED
        BY <2>2, <2>3, <2>4, <2>5, <1>3, HandingEnds
<1> DEFINE ahead == Forward[found]
<1> HIDE DEF ahead
<1>5. Back[ahead] \in R
    <2> DEFINE stop == [p \in Nat |-> ~ (p > a /\ small(p - 1))]
               out == [p \in Nat |-> p]
               next == [p \in Nat |-> p - 1]
               m == [p \in Nat |-> p]
    <2>1. \A f : BackStep(f) = Handing(Nat, stop, out, next, f)
        BY DEF Handing
    <2>0. \A p \in Nat : ~stop[p] => p > a
        OBVIOUS
    <2> HIDE DEF stop
    <2>2. Falls(Nat, m, stop, next)
        <3>1. \A p \in Nat : m[p] \in Nat
            OBVIOUS
        <3>2. \A p \in Nat : ~stop[p] => next[p] \in Nat /\ m[next[p]] < m[p]
            BY <1>2, <2>0
        <3> HIDE DEF m, next
        <3> QED
            BY <3>1, <3>2 DEF Falls
    <2>3. Leads(R, stop, out, next, R)
        <3>1. \A p \in R : out[p] \in R /\ (~stop[p] => next[p] \in R)
            BY <1>2, <2>0
        <3> QED
            BY <3>1 DEF Leads
    <2>4. R \in SUBSET Nat /\ ahead \in R
        BY <1>2, <1>4 DEF ahead
    <2> HIDE DEF m, next, out, stop, BackStep
    <2>5. Back = Handing(Nat, stop, out, next, Back)
        <3>1. \E f : f = BackStep(f)
            BY <2>1, <2>2, HandingExists
        <3>2. Back = BackStep(Back)
            BY <3>1
        <3> HIDE DEF Back
        <3> QED
            BY <3>2, <2>1
    <2> HIDE DEF Back, R
    <2> QED
        BY <2>2, <2>3, <2>4, <2>5, HandingEnds
<1> QED
    BY <1>1, <1>5 DEF ahead, a

-----------------------------------------------------------------------------
\* Units.
LEMMA StepRefuse ==
    ASSUME SegInv, Refuse
    PROVE  SegInv'
BY DEF Refuse, SegInv, StartInv, WindowsInv, RegionsInv, TileInv, StackInv, UnitsInv, CutInv, PackInv, DoneInv,
   Chained, CutPhases

\* Once the text is tiled the regions stay.
LEMMA TilingKept ==
    ASSUME SegInv, phase \in CutPhases, phase' \in CutPhases, UNCHANGED <<job, Tiling>>
    PROVE  (StartInv /\ WindowsInv /\ RegionsInv /\ TileInv)'
<1>1. job' = job /\ windows' = windows /\ tile' = tile /\ regions' = regions
    BY DEF Tiling
<1>2. Chained /\ Chained' /\ phase # "tile" /\ phase' # "tile" /\ phase' # "begin"
    BY DEF CutPhases, Chained
<1>3. StartInv'
    BY <1>1, <1>2 DEF SegInv, StartInv
<1>4. WindowsInv'
    BY <1>1, <1>2 DEF SegInv, WindowsInv
<1>5. RegionsInv'
    BY <1>1, <1>2 DEF SegInv, RegionsInv
<1>6. TileInv'
    BY <1>1, <1>2 DEF SegInv, TileInv, TextTiled, IsParagraph, IsHeading, Chars
<1> QED
    BY <1>3, <1>4, <1>5, <1>6

LEMMA LevelInt ==
    ASSUME NEW s
    PROVE  HeadingLevel(s) \in Int
<1> DEFINE marks == {k \in 1..6 : /\ k + 1 < Len(s)
                                  /\ \A i \in 1..k : s[i] = "hash"
                                  /\ s[k + 1] \in Blanks
                                  /\ \E b \in (k + 1)..(Len(s) - 1) :
                                         /\ \A i \in (k + 1)..b : s[i] \in Blanks
                                         /\ s[b + 1] \notin Spaces}
<1>1. HeadingLevel(s) = IF "lf" \in ToSet(s) \/ marks = {} THEN 0 ELSE Max(marks)
    BY DEF HeadingLevel
<1>2. marks \in SUBSET Int /\ \A k \in marks : k <= 6
    OBVIOUS
<1> HIDE DEF marks
<1>3. marks # {} => Max(marks) \in Int
    <2>1. 6 \in Int
        OBVIOUS
    <2>2. marks # {} => Max(marks) \in marks
        BY <2>1, <1>2, GreatestWithin
    <2> QED
        BY <2>2, <1>2
<1> QED
    BY <1>1, <1>3

\* The region at hand, those before it and those after it.
LEMMA RegionAtHand ==
    ASSUME SegInv, phase = "units", at <= Len(regions)
    PROVE  /\ at \in DOMAIN regions /\ at \in Nat /\ at + 1 \in 1..(Len(regions) + 1)
           /\ Here.from \in Nat /\ Here.to \in Nat /\ Here.from < Here.to
           /\ \A r \in DOMAIN regions :
                /\ regions[r].from \in Nat /\ regions[r].to \in Nat /\ regions[r].from < regions[r].to
                /\ r < at => regions[r].to <= Here.from
                /\ r > at => Here.to <= regions[r].from
           /\ Heads(at + 1) = IF Here.kind = "heading" THEN Heads(at) \cup {Here} ELSE Heads(at)
<1>1. RegionsInv /\ CutInv /\ Chained
    BY DEF SegInv, Chained, CutPhases
<1>2. /\ Len(regions) \in Nat /\ DOMAIN regions = 1..Len(regions)
      /\ \A r \in DOMAIN regions : regions[r].from \in Nat /\ regions[r].to \in Nat
    BY <1>1, RegionsTyped
<1>3. at \in 1..(Len(regions) + 1)
    BY <1>1 DEF CutInv
<1>4. at \in DOMAIN regions /\ at \in Nat /\ at + 1 \in 1..(Len(regions) + 1)
    BY <1>2, <1>3
<1>5. \A r \in DOMAIN regions :
        /\ regions[r].from < regions[r].to
        /\ \A q \in DOMAIN regions : q < r => regions[q].to <= regions[r].from
    BY <1>1 DEF RegionsInv
<1>6. \A i \in DOMAIN regions : i < at + 1 <=> i < at \/ i = at
    BY <1>2, <1>4
<1>7. Heads(at + 1) = IF Here.kind = "heading" THEN Heads(at) \cup {Here} ELSE Heads(at)
    <2>1. CASE Here.kind = "heading"
        BY <2>1, <1>4, <1>6 DEF Heads, IsHeading, Here
    <2>2. CASE Here.kind # "heading"
        BY <2>2, <1>4, <1>6 DEF Heads, IsHeading, Here
    <2> QED
        BY <2>1, <2>2
<1> QED
    BY <1>2, <1>4, <1>5, <1>7 DEF Here

LEMMA UnitsTyped ==
    ASSUME UnitsInv, phase \in CutPhases
    PROVE  /\ Len(units) \in Nat /\ DOMAIN units = 1..Len(units) /\ units \in Seq(UnitRecords)
           /\ \A k \in DOMAIN units :
                /\ units[k] \in UnitRecords
                /\ units[k].from \in Nat /\ units[k].to \in Nat /\ units[k].key[2] \in Nat
                /\ units[k].from <= units[k].to
<1>1. units \in Seq(UnitRecords)
    BY DEF UnitsInv
<1>2. \A u \in UnitRecords : u.from \in Nat /\ u.to \in Nat /\ u.key[2] \in Nat
    BY DEF UnitRecords
<1>3. \A k \in DOMAIN units : units[k] \in UnitRecords
    BY <1>1
<1>4. \A k \in DOMAIN units : units[k].from <= units[k].to
    BY DEF UnitsInv, LiesIn
<1> QED
    BY <1>1, <1>2, <1>3, <1>4

\* Headings before the region at hand are before it in the text.
LEMMA HeadsBefore ==
    ASSUME SegInv, phase = "units", at <= Len(regions), NEW h \in Heads(at)
    PROVE  h.from \in Nat /\ h.to \in Nat /\ h.from < h.to /\ h.to <= Here.from
<1>1. PICK k \in DOMAIN regions : k < at /\ h = regions[k]
    BY DEF Heads
<1> QED
    BY <1>1, RegionAtHand

LEMMA PlacesKept ==
    ASSUME UNCHANGED <<job, regions>>
    PROVE  \A u, r : LiesIn(u, r)' <=> LiesIn(u, r)
<1>1. job' = job /\ regions' = regions
    OBVIOUS
<1> SUFFICES ASSUME NEW u, NEW r PROVE LiesIn(u, r)' <=> LiesIn(u, r)
    OBVIOUS
<1>2. Heads(r)' = Heads(r)
    BY <1>1 DEF Heads, IsHeading
<1>3. \A H : StillOpen(H)' = StillOpen(H)
    BY <1>1 DEF StillOpen, Level
<1>4. Path(u.headings, Heads(r))' <=> Path(u.headings, Heads(r))
    BY <1>2, <1>3 DEF Path
<1> QED
    BY <1>1, <1>4 DEF LiesIn, IsParagraph

LEMMA UnitsKept ==
    ASSUME SegInv, phase \in CutPhases, phase' \in CutPhases, UNCHANGED <<job, regions, units>>
    PROVE  UnitsInv'
<1>1. \A u, r : LiesIn(u, r)' <=> LiesIn(u, r)
    BY PlacesKept
<1>2. regions' = regions /\ units' = units /\ UnitsInv
    BY DEF SegInv
<1> QED
    BY <1>1, <1>2 DEF UnitsInv, IsHeading

\* The loop over the regions leaves one that is no paragraph.
LEMMA RegionPassed ==
    ASSUME SegInv, phase = "units", at <= Len(regions), Here.kind # "paragraph",
           UNCHANGED <<phase, job, regions, units, leaf>>, at' = at + 1,
           IF Here.kind = "heading" THEN epoch' = epoch + 1 ELSE epoch' = epoch
    PROVE  CutInv'
<1>1. CutInv /\ UnitsInv /\ Chained /\ RegionsInv
    BY DEF SegInv, Chained, CutPhases
<1>2. /\ at \in DOMAIN regions /\ at \in Nat /\ at + 1 \in 1..(Len(regions) + 1)
      /\ Here.from \in Nat /\ Here.to \in Nat /\ Here.from < Here.to
      /\ \A r \in DOMAIN regions :
           /\ regions[r].from \in Nat /\ regions[r].to \in Nat /\ regions[r].from < regions[r].to
           /\ r < at => regions[r].to <= Here.from
           /\ r > at => Here.to <= regions[r].from
      /\ Len(regions) \in Nat /\ DOMAIN regions = 1..Len(regions)
    BY <1>1, RegionAtHand, RegionsTyped
<1>3. leaf = 0 /\ leaf' = 0 /\ phase' = "units" /\ regions' = regions /\ units' = units
    BY <1>1 DEF CutInv, InRegion
<1>4. epoch \in Nat /\ epoch' \in Nat /\ epoch <= epoch'
    BY <1>1 DEF CutInv
<1>5. \A k \in DOMAIN units : units[k].key[2] \in Nat /\ units[k].to \in Nat
    BY <1>1, UnitsTyped DEF CutPhases
<1>6. ASSUME NEW k \in DOMAIN units
      PROVE  /\ units[k].key[2] <= epoch'
             /\ at + 1 <= Len(regions) => units[k].to <= regions[at + 1].from
             /\ \A h \in DOMAIN regions :
                 h < at + 1 /\ IsHeading(h) /\ regions[h].from >= units[k].from => units[k].key[2] < epoch'
    <2>1. /\ units[k].key[2] <= epoch /\ units[k].to <= Here.from
          /\ \A h \in DOMAIN regions :
                h < at /\ IsHeading(h) /\ regions[h].from >= units[k].from => units[k].key[2] < epoch
        BY <1>1, <1>3 DEF CutInv
    <2>2. units[k].key[2] <= epoch'
        BY <2>1, <1>4, <1>5
    <2>3. at + 1 <= Len(regions) => units[k].to <= regions[at + 1].from
        <3>1. at + 1 <= Len(regions) => at + 1 \in DOMAIN regions
            BY <1>2
        <3> QED
            BY <3>1, <2>1, <1>2, <1>5
    <2>4. ASSUME NEW h \in DOMAIN regions, h < at + 1, IsHeading(h), regions[h].from >= units[k].from
          PROVE  units[k].key[2] < epoch'
        <3>1. CASE h = at
            BY <3>1, <2>4, <2>1, <1>4, <1>5 DEF IsHeading, Here
        <3>2. CASE h < at
            BY <3>2, <2>4, <2>1, <1>4, <1>5
        <3> QED
            BY <3>1, <3>2, <2>4, <1>2
    <2> QED
        BY <2>2, <2>3, <2>4
<1>7. ASSUME NEW r \in DOMAIN regions, r < at + 1, IsParagraph(r), NEW p \in Chars(regions[r])
      PROVE  InUnits(p)
    <2>1. r # at
        BY <1>7 DEF IsParagraph, Here
    <2>2. r < at
        BY <2>1, <1>2, <1>7
    <2> QED
        BY <2>2, <1>1, <1>7 DEF CutInv
<1> QED
    BY <1>2, <1>3, <1>4, <1>6, <1>7 DEF CutInv, Here, IsHeading, IsParagraph, InUnits, Chars

LEMMA StepHeading ==
    ASSUME SegInv, PushHeading
    PROVE  SegInv'
<1>1. /\ phase = "units" /\ phase' = "units" /\ at <= Len(regions) /\ Here.kind = "heading"
      /\ UNCHANGED <<job, Tiling, leaf, units, Packing, result>>
      /\ job' = job /\ regions' = regions /\ windows' = windows /\ leaf' = leaf /\ units' = units
      /\ group' = group /\ groups' = groups
      /\ epoch' = epoch + 1 /\ at' = at + 1
    BY DEF PushHeading, InRegion, Tiling, Packing
<1>2. /\ at \in DOMAIN regions /\ at \in Nat /\ at + 1 \in 1..(Len(regions) + 1)
      /\ Here.from \in Nat /\ Here.to \in Nat /\ Here.from < Here.to
      /\ \A r \in DOMAIN regions :
           /\ regions[r].from \in Nat /\ regions[r].to \in Nat /\ regions[r].from < regions[r].to
           /\ r < at => regions[r].to <= Here.from
           /\ r > at => Here.to <= regions[r].from
      /\ Heads(at + 1) = Heads(at) \cup {Here}
      /\ Len(regions) \in Nat /\ DOMAIN regions = 1..Len(regions)
    <2>1. Chained /\ RegionsInv
        BY <1>1 DEF SegInv, Chained, CutPhases
    <2> QED
        BY <1>1, <2>1, RegionAtHand, RegionsTyped
<1>3. (StartInv /\ WindowsInv /\ RegionsInv /\ TileInv)'
    BY <1>1, TilingKept DEF CutPhases
<1>4. StackInv'
    <2> DEFINE H == Heads(at)
               n == Len(stack)
               level == HeadingLevel(Slice(job.text, Here.from, Here.to))
               open == {0} \cup {i \in DOMAIN stack : stack[i].level < level}
               m == Max(open)
               new == [level |-> level, title |-> Here.from]
    <2>1. /\ stack \in Seq([level : Int, title : Nat])
          /\ n \in Nat /\ DOMAIN stack = 1..n
          /\ \A i \in DOMAIN stack :
                /\ stack[i].level \in Int /\ stack[i].title \in Nat
                /\ \E h \in StillOpen(H) : stack[i].title = h.from /\ stack[i].level = Level(h)
                /\ \A j \in DOMAIN stack : i < j => stack[i].title < stack[j].title /\ stack[i].level < stack[j].level
          /\ \A h \in StillOpen(H) : \E i \in DOMAIN stack : stack[i].title = h.from /\ stack[i].level = Level(h)
        <3> DEFINE E == [level : Int, title : Nat]
        <3>1. StackInv /\ stack \in Seq(E)
            BY <1>1 DEF SegInv, StackInv
        <3>2. \A x \in E : x.level \in Int /\ x.title \in Nat
            OBVIOUS
        <3> HIDE DEF E
        <3>3. \A i \in DOMAIN stack : stack[i] \in E
            BY <3>1
        <3>4. n \in Nat /\ DOMAIN stack = 1..n
            BY <3>1
        <3> HIDE DEF n
        <3>5. stack \in Seq([level : Int, title : Nat])
            BY <3>1 DEF E
        <3> QED
            BY <3>1, <3>2, <3>3, <3>4, <3>5, <1>1 DEF StackInv
    <2>2. level \in Int /\ level = Level(Here)
        BY LevelInt DEF Level
    <2>3. stack' = Append(SubSeq(stack, 1, m), new)
        BY DEF PushHeading
    <2> HIDE DEF level
    <2>4. m \in 0..n /\ \A i \in DOMAIN stack : i <= m <=> stack[i].level < level
        <3>1. open \in SUBSET Int /\ open # {} /\ (\A x \in open : x <= n) /\ n \in Int
            BY <2>1
        <3>2. m \in open /\ \A x \in open : x <= m
            <4> HIDE DEF open
            <4> QED
                BY <3>1, GreatestWithin
        <3>3. m \in 0..n
            BY <3>2, <2>1
        <3>4. ASSUME NEW i \in DOMAIN stack, stack[i].level < level PROVE i <= m
            BY <3>2, <3>4
        <3>5. ASSUME NEW i \in DOMAIN stack, i <= m PROVE stack[i].level < level
            <4>1. m \in DOMAIN stack /\ m # 0
                BY <3>3, <3>5, <2>1
            <4>2. stack[m].level < level
                BY <3>2, <4>1
            <4> HIDE DEF m
            <4>3. i = m \/ i < m
                BY <3>5, <3>3, <2>1
            <4>4. i < m => stack[i].level < stack[m].level
                BY <4>1, <2>1
            <4>5. stack[i].level \in Int /\ stack[m].level \in Int
                BY <4>1, <2>1
            <4> QED
                BY <4>2, <4>3, <4>4, <4>5, <2>2
        <3> QED
            BY <3>3, <3>4, <3>5
    <2>12. m \in Nat /\ m <= n
        BY <2>1, <2>4
    <2> HIDE DEF m, n
    <2>5. /\ stack' \in Seq([level : Int, title : Nat])
          /\ DOMAIN stack' = 1..(m + 1)
          /\ stack'[m + 1].level = level /\ stack'[m + 1].title = Here.from
          /\ \A i \in 1..m : stack'[i] = stack[i] /\ i \in DOMAIN stack
        <3> DEFINE E == [level : Int, title : Nat]
                   q == SubSeq(stack, 1, m)
        <3>1. new \in E /\ new.level = level /\ new.title = Here.from
            BY <2>2, <1>2
        <3> HIDE DEF new, E
        <3>2. stack \in Seq(E) /\ Len(stack) = n
            BY <2>1 DEF E, n
        <3>3. q \in Seq(E) /\ Len(q) = m /\ \A i \in 1..m : q[i] = stack[i]
            BY <3>2, <2>4
        <3> HIDE DEF q
        <3>4. /\ Append(q, new) \in Seq(E) /\ DOMAIN Append(q, new) = 1..(m + 1)
              /\ Append(q, new)[m + 1] = new /\ \A i \in 1..m : Append(q, new)[i] = q[i]
            BY <3>1, <3>3, <2>4
        <3>5. \A i \in 1..m : i \in DOMAIN stack
            BY <2>1, <2>4
        <3> QED
            BY <3>1, <3>3, <3>4, <3>5, <2>3 DEF q, E
    <2>6. \A h \in H : h.from \in Nat /\ h.from < Here.from
        <3> TAKE h \in H
        <3>1. h.from \in Nat /\ h.to \in Nat /\ h.from < h.to /\ h.to <= Here.from
            BY <1>1, HeadsBefore
        <3> QED
            BY <3>1, <1>2
    <2>7. StillOpen(H \cup {Here}) = {h \in StillOpen(H) : Level(h) < level} \cup {Here}
        <3>1. ASSUME NEW h \in StillOpen(H \cup {Here}), h # Here PROVE h \in StillOpen(H) /\ Level(h) < level
            <4>1. h \in H /\ Here.from > h.from
                BY <3>1, <2>6, <1>2 DEF StillOpen
            <4>2. Level(Here) > Level(h) /\ h \in StillOpen(H)
                BY <4>1 DEF StillOpen
            <4>3. Level(h) \in Int
                BY LevelInt DEF Level
            <4> QED
                BY <4>2, <4>3, <2>2
        <3>2. ASSUME NEW h \in StillOpen(H), Level(h) < level PROVE h \in StillOpen(H \cup {Here})
            <4>1. Level(h) \in Int
                BY LevelInt DEF Level
            <4> QED
                BY <4>1, <3>2, <2>2 DEF StillOpen
        <3>3. Here \in StillOpen(H \cup {Here})
            <4>1. \A g \in H \cup {Here} : ~ (g.from > Here.from)
                BY <2>6, <1>2
            <4> QED
                BY <4>1 DEF StillOpen
        <3> QED
            BY <3>1, <3>2, <3>3
    <2>8. StillOpen(Heads(at))' = StillOpen(H \cup {Here})
        <3>1. Heads(at)' = H \cup {Here}
            BY <1>1, <1>2 DEF Heads, IsHeading
        <3> QED
            BY <3>1, <1>1 DEF StillOpen, Level
    <2>9. \A h : Level(h)' = Level(h)
        BY <1>1 DEF Level
    <2> HIDE DEF H
    <2>10. ASSUME NEW i \in DOMAIN stack'
           PROVE  /\ \E h \in StillOpen(H \cup {Here}) : stack'[i].title = h.from /\ stack'[i].level = Level(h)
                  /\ \A j \in DOMAIN stack' : i < j => stack'[i].title < stack'[j].title /\ stack'[i].level < stack'[j].level
        <3>1. CASE i = m + 1
            <4>1. \A j \in DOMAIN stack' : ~ (i < j)
                BY <3>1, <2>4, <2>5
            <4> QED
                BY <3>1, <4>1, <2>2, <2>5, <2>7
        <3>2. CASE i \in 1..m
            <4>1. stack'[i] = stack[i] /\ i \in DOMAIN stack /\ stack[i].level < level
                BY <3>2, <2>4, <2>5
            <4>2. PICK h \in StillOpen(H) : stack[i].title = h.from /\ stack[i].level = Level(h)
                BY <4>1, <2>1
            <4>3. h \in StillOpen(H \cup {Here})
                BY <4>1, <4>2, <2>7
            <4>4. stack[i].title < Here.from
                BY <4>2, <2>6 DEF StillOpen
            <4>5. ASSUME NEW j \in DOMAIN stack', i < j
                  PROVE  stack'[i].title < stack'[j].title /\ stack'[i].level < stack'[j].level
                <5>1. j = m + 1 \/ j \in 1..m
                    BY <2>4, <2>5
                <5>2. CASE j = m + 1
                    BY <5>2, <4>1, <4>4, <2>5
                <5>3. CASE j \in 1..m
                    BY <5>3, <4>1, <4>5, <2>1, <2>5
                <5> QED
                    BY <5>1, <5>2, <5>3
            <4> QED
                BY <4>1, <4>2, <4>3, <4>5
        <3>3. i = m + 1 \/ i \in 1..m
            BY <2>5, <2>12
        <3> QED
            BY <3>1, <3>2, <3>3
    <2>11. ASSUME NEW h \in StillOpen(H \cup {Here})
           PROVE  \E i \in DOMAIN stack' : stack'[i].title = h.from /\ stack'[i].level = Level(h)
        <3>1. CASE h = Here
            <4>1. m + 1 \in DOMAIN stack'
                BY <2>4, <2>5
            <4> QED
                BY <3>1, <4>1, <2>2, <2>5
        <3>2. CASE h # Here
            <4>1. h \in StillOpen(H) /\ Level(h) < level
                BY <3>2, <2>7
            <4>2. PICK i \in DOMAIN stack : stack[i].title = h.from /\ stack[i].level = Level(h)
                BY <4>1, <2>1
            <4>3. i <= m /\ i \in 1..n
                BY <4>1, <4>2, <2>1, <2>4
            <4>4. i \in 1..m /\ i \in DOMAIN stack'
                BY <4>3, <2>5, <2>12, <2>1
            <4> QED
                BY <4>2, <4>4, <2>5
        <3> QED
            BY <3>1, <3>2
    <2> QED
        BY <2>5, <2>8, <2>9, <2>10, <2>11 DEF StackInv
<1>5. UnitsInv'
    BY <1>1, UnitsKept DEF CutPhases
<1>6. CutInv'
    BY <1>1, RegionPassed
<1>7. (PackInv /\ DoneInv)'
    BY <1>1 DEF SegInv, PackInv, DoneInv, CutPhases
<1> QED
    BY <1>3, <1>4, <1>5, <1>6, <1>7 DEF SegInv

\* What keeps the open headings keeps the stack right.
LEMMA StackKept ==
    ASSUME SegInv, phase = "units", phase' = "units", UNCHANGED <<job, regions, stack>>, Heads(at)' = Heads(at)
    PROVE  StackInv'
<1>1. job' = job /\ regions' = regions /\ stack' = stack /\ StackInv
    BY DEF SegInv
<1>2. \A h : Level(h)' = Level(h)
    BY <1>1 DEF Level
<1>3. StillOpen(Heads(at))' = StillOpen(Heads(at))
    BY <1>1, <1>2 DEF StillOpen
<1> QED
    BY <1>1, <1>2, <1>3 DEF StackInv

\* The heads before the next region are those before this one, if this is no heading.
LEMMA HeadsStay ==
    ASSUME SegInv, phase = "units", at <= Len(regions), Here.kind # "heading",
           UNCHANGED regions, at' \in {at, at + 1}
    PROVE  Heads(at)' = Heads(at)
<1>1. Heads(at + 1) = Heads(at)
    BY RegionAtHand
<1>2. CASE at' = at
    BY <1>2 DEF Heads, IsHeading
<1>3. CASE at' = at + 1
    BY <1>1, <1>3 DEF Heads, IsHeading
<1> QED
    BY <1>2, <1>3

LEMMA StepEmpty ==
    ASSUME SegInv, HoldEmpty
    PROVE  SegInv'
<1>1. /\ phase = "units" /\ phase' = "units" /\ at <= Len(regions) /\ Here.kind = "empty"
      /\ UNCHANGED <<job, Tiling, Packing, result>>
      /\ job' = job /\ regions' = regions /\ leaf' = leaf /\ units' = units
      /\ group' = group /\ groups' = groups /\ stack' = stack
      /\ epoch' = epoch /\ at' = at + 1
    BY DEF HoldEmpty, InRegion, Tiling, Packing
<1>2. (StartInv /\ WindowsInv /\ RegionsInv /\ TileInv)'
    BY <1>1, TilingKept DEF CutPhases
<1>3. StackInv'
    BY <1>1, HeadsStay, StackKept
<1>4. UnitsInv'
    BY <1>1, UnitsKept DEF CutPhases
<1>5. CutInv'
    BY <1>1, RegionPassed
<1>6. (PackInv /\ DoneInv)'
    BY <1>1 DEF SegInv, PackInv, DoneInv, CutPhases
<1> QED
    BY <1>2, <1>3, <1>4, <1>5, <1>6 DEF SegInv

\* A unit taken from the paragraph at hand is one like those before.
LEMMA UnitAdded ==
    ASSUME SegInv, InRegion("paragraph"), NEW f \in Nat, NEW e \in Nat, NEW split \in BOOLEAN,
           Here.from <= f, f <= e, e <= Here.to, ~split => leaf = 0 /\ f = Here.from,
           UNCHANGED <<job, regions>>, phase' = "units", units' = Append(units, Unit(f, e, split))
    PROVE  /\ UnitsInv'
           /\ Len(units) + 1 \in DOMAIN units' /\ units'[Len(units) + 1].from = f /\ units'[Len(units) + 1].to = e
           /\ \A k \in DOMAIN units : k \in DOMAIN units' /\ units'[k] = units[k]
           /\ \A k \in DOMAIN units' :
                /\ k \in DOMAIN units \/ k = Len(units) + 1
                /\ units'[k].key[2] <= epoch
                /\ \A h \in DOMAIN regions :
                    h < at /\ IsHeading(h) /\ regions[h].from >= units'[k].from => units'[k].key[2] < epoch
<1> DEFINE u == Unit(f, e, split)
           n == Len(units)
<1>1. /\ CutInv /\ UnitsInv /\ StackInv /\ RegionsInv /\ Chained /\ phase \in CutPhases
      /\ phase = "units" /\ at <= Len(regions) /\ Here.kind = "paragraph"
    BY DEF SegInv, InRegion, Chained, CutPhases
<1>2. /\ at \in DOMAIN regions /\ at \in Nat
      /\ Here.from \in Nat /\ Here.to \in Nat /\ Here.from < Here.to
      /\ \A r \in DOMAIN regions :
           /\ regions[r].from \in Nat /\ regions[r].to \in Nat /\ regions[r].from < regions[r].to
           /\ r < at => regions[r].to <= Here.from
           /\ r > at => Here.to <= regions[r].from
      /\ Len(regions) \in Nat /\ DOMAIN regions = 1..Len(regions)
      /\ Here.win \in Nat
    <2>1. regions[at] \in RegionRecords
        BY <1>1, RegionAtHand DEF RegionsInv
    <2> QED
        BY <1>1, <2>1, RegionAtHand, RegionsTyped DEF Here, RegionRecords
<1>3. /\ n \in Nat /\ DOMAIN units = 1..n /\ units \in Seq(UnitRecords)
      /\ \A k \in DOMAIN units :
          units[k].from \in Nat /\ units[k].to \in Nat /\ units[k].key[2] \in Nat /\ units[k].from <= units[k].to
    BY <1>1, UnitsTyped
<1>4. epoch \in Nat /\ \A k \in DOMAIN units :
          /\ units[k].key[2] <= epoch
          /\ units[k].to <= (IF leaf = 0 THEN Here.from ELSE leaf)
          /\ \A h \in DOMAIN regions :
                h < at /\ IsHeading(h) /\ regions[h].from >= units[k].from => units[k].key[2] < epoch
    BY <1>1 DEF CutInv
<1>5. leaf \in Nat /\ (leaf # 0 => leaf <= Here.to)
    BY <1>1 DEF CutInv
<1> DEFINE titles == [i \in DOMAIN stack |-> stack[i].title]
<1>6. titles \in Seq(Nat) /\ Path(titles, Heads(at))
    <2> DEFINE E == [level : Int, title : Nat]
    <2>1. stack \in Seq(E)
        BY <1>1 DEF StackInv
    <2>2. \A x \in E : x.title \in Nat
        OBVIOUS
    <2> HIDE DEF E
    <2>3. Len(stack) \in Nat /\ DOMAIN stack = 1..Len(stack) /\ \A i \in DOMAIN stack : stack[i].title \in Nat
        BY <2>1, <2>2
    <2>4. titles \in Seq(Nat)
        BY <2>3
    <2>5. \A i, j \in DOMAIN titles : i < j => titles[i] < titles[j]
        BY <1>1 DEF StackInv
    <2>6. ToSet(titles) = {stack[i].title : i \in DOMAIN stack}
        BY DEF ToSet
    <2>7. {stack[i].title : i \in DOMAIN stack} = {h.from : h \in StillOpen(Heads(at))}
        <3>1. ASSUME NEW i \in DOMAIN stack PROVE stack[i].title \in {h.from : h \in StillOpen(Heads(at))}
            BY <1>1 DEF StackInv
        <3>2. ASSUME NEW h \in StillOpen(Heads(at)) PROVE h.from \in {stack[i].title : i \in DOMAIN stack}
            BY <1>1 DEF StackInv
        <3> QED
            BY <3>1, <3>2
    <2> QED
        BY <2>4, <2>5, <2>6, <2>7 DEF Path
<1>7. /\ u.from = f /\ u.to = e /\ u.headings = titles /\ u.key = <<Here.win, epoch>> /\ u.split = split
      /\ u.key[1] = Here.win /\ u.key[2] = epoch
      /\ u \in UnitRecords
    <2> HIDE DEF titles
    <2>1. u = [from |-> f, to |-> e, headings |-> titles, key |-> <<Here.win, epoch>>, split |-> split]
        BY DEF Unit, titles
    <2> QED
        BY <2>1, <1>2, <1>4, <1>6 DEF UnitRecords
<1> HIDE DEF u, n, titles
<1>8. /\ units' \in Seq(UnitRecords) /\ DOMAIN units' = 1..(n + 1) /\ units'[n + 1] = u
      /\ \A k \in DOMAIN units : k \in DOMAIN units' /\ units'[k] = units[k]
      /\ \A k \in DOMAIN units' : k \in DOMAIN units \/ k = n + 1
    <2>1. units' = Append(units, u)
        BY DEF u
    <2> QED
        BY <2>1, <1>3, <1>7 DEF n
<1>9. LiesIn(u, at)
    BY <1>1, <1>2, <1>6, <1>7 DEF LiesIn, IsParagraph, Here
<1>10. \A h \in DOMAIN regions : IsHeading(h) => h # at
    BY <1>1 DEF IsHeading, Here
<1>11. ASSUME NEW h \in DOMAIN regions, IsHeading(h), regions[h].from >= f PROVE h > at
    <2>1. ~ (h < at)
        BY <1>2, <1>11
    <2> QED
        BY <2>1, <1>2, <1>10, <1>11
<1>12. ASSUME NEW h \in DOMAIN regions, IsHeading(h), regions[h].to <= e PROVE h < at
    <2>1. ~ (h > at)
        BY <1>2, <1>12
    <2> QED
        BY <2>1, <1>2, <1>10, <1>12
<1>13. ASSUME NEW k \in DOMAIN units'
       PROVE  /\ units'[k].key[2] <= epoch
              /\ \A h \in DOMAIN regions :
                   h < at /\ IsHeading(h) /\ regions[h].from >= units'[k].from => units'[k].key[2] < epoch
    <2>1. CASE k \in DOMAIN units
        BY <2>1, <1>4, <1>8
    <2>2. CASE k = n + 1
        BY <2>2, <1>2, <1>4, <1>7, <1>8, <1>11
    <2> QED
        BY <2>1, <2>2, <1>8
<1>14. ASSUME NEW k \in DOMAIN units', NEW j \in DOMAIN units'
       PROVE  /\ j < k /\ ~units'[k].split => units'[j].to <= units'[k].from
              /\ \A h \in DOMAIN regions :
                  IsHeading(h) /\ regions[h].from >= units'[j].from /\ regions[h].to <= units'[k].to
                      => units'[j].key[2] < units'[k].key[2]
    <2>1. CASE k \in DOMAIN units /\ j \in DOMAIN units
        BY <2>1, <1>1, <1>8 DEF UnitsInv
    <2>2. CASE k = n + 1 /\ j \in DOMAIN units
        <3>1. ~split => units[j].to <= f
            BY <2>2, <1>4
        <3>2. ASSUME NEW h \in DOMAIN regions, IsHeading(h), regions[h].from >= units[j].from, regions[h].to <= e
              PROVE  units[j].key[2] < epoch
            BY <2>2, <3>2, <1>4, <1>12
        <3> QED
            BY <2>2, <3>1, <3>2, <1>7, <1>8
    <2>3. CASE j = n + 1
        <3>1. ~ (j < k)
            BY <2>3, <1>3, <1>8
        <3>2. ASSUME NEW h \in DOMAIN regions, IsHeading(h), regions[h].from >= f, regions[h].to <= units'[k].to
              PROVE  FALSE
            <4>1. h > at /\ Here.to <= regions[h].from /\ regions[h].from < regions[h].to
                BY <3>2, <1>2, <1>11
            <4>2. units'[k].to <= Here.to /\ units'[k].to \in Nat
                <5>1. CASE k \in DOMAIN units
                    BY <5>1, <1>2, <1>3, <1>4, <1>5, <1>8
                <5>2. CASE k = n + 1
                    BY <5>2, <1>7, <1>8
                <5> QED
                    BY <5>1, <5>2, <1>8
            <4> QED
                BY <4>1, <4>2, <3>2, <1>2
        <3> QED
            BY <2>3, <3>1, <3>2, <1>7, <1>8
    <2> QED
        BY <2>1, <2>2, <2>3, <1>8
<1>15. \A k \in DOMAIN units' : \E r \in DOMAIN regions : LiesIn(units'[k], r)
    <2> TAKE k \in DOMAIN units'
    <2>1. CASE k \in DOMAIN units
        BY <2>1, <1>1, <1>8 DEF UnitsInv
    <2>2. CASE k = n + 1
        BY <2>2, <1>2, <1>8, <1>9
    <2> QED
        BY <2>1, <2>2, <1>8
<1>16. UnitsInv'
    <2>1. \A x, r : LiesIn(x, r)' <=> LiesIn(x, r)
        BY PlacesKept
    <2>2. regions' = regions
        OBVIOUS
    <2> QED
        BY <2>1, <2>2, <1>8, <1>14, <1>15 DEF UnitsInv, IsHeading
<1> QED
    BY <1>7, <1>8, <1>13, <1>16 DEF n

LEMMA StepWhole ==
    ASSUME SegInv, TakeWhole
    PROVE  SegInv'
<1>1. /\ InRegion("paragraph") /\ phase = "units" /\ phase' = "units" /\ at <= Len(regions)
      /\ Here.kind = "paragraph" /\ ~Oversized
      /\ UNCHANGED <<job, Tiling, Packing, result>>
      /\ job' = job /\ regions' = regions /\ leaf' = leaf /\ epoch' = epoch
      /\ units' = Append(units, Unit(Here.from, Here.to, FALSE))
      /\ group' = group /\ groups' = groups /\ stack' = stack /\ at' = at + 1
    BY DEF TakeWhole, InRegion, Tiling, Packing
<1>2. CutInv /\ UnitsInv /\ RegionsInv /\ Chained /\ leaf = 0
    BY <1>1 DEF SegInv, CutInv, Chained, CutPhases
<1>3. /\ at \in DOMAIN regions /\ at \in Nat /\ at + 1 \in 1..(Len(regions) + 1)
      /\ Here.from \in Nat /\ Here.to \in Nat /\ Here.from < Here.to /\ Here.from <= Here.from
      /\ \A r \in DOMAIN regions :
           /\ regions[r].from \in Nat /\ regions[r].to \in Nat /\ regions[r].from < regions[r].to
           /\ r < at => regions[r].to <= Here.from
           /\ r > at => Here.to <= regions[r].from
      /\ Len(regions) \in Nat /\ DOMAIN regions = 1..Len(regions)
    BY <1>1, <1>2, RegionAtHand, RegionsTyped
<1> DEFINE n == Len(units)
<1>4. /\ UnitsInv'
      /\ n + 1 \in DOMAIN units' /\ units'[n + 1].from = Here.from /\ units'[n + 1].to = Here.to
      /\ \A k \in DOMAIN units : k \in DOMAIN units' /\ units'[k] = units[k]
      /\ \A k \in DOMAIN units' :
           /\ k \in DOMAIN units \/ k = n + 1
           /\ units'[k].key[2] <= epoch
           /\ \A h \in DOMAIN regions :
               h < at /\ IsHeading(h) /\ regions[h].from >= units'[k].from => units'[k].key[2] < epoch
    <2> DEFINE f == Here.from
               e == Here.to
               split == FALSE
    <2>1. f \in Nat /\ e \in Nat /\ Here.from <= f /\ f <= e /\ e <= Here.to /\ split \in BOOLEAN
        BY <1>3
    <2>2. (~split => leaf = 0 /\ f = Here.from) /\ UNCHANGED <<job, regions>>
        BY <1>1, <1>2
    <2>3. units' = Append(units, Unit(f, e, split))
        BY <1>1
    <2>4. f = Here.from /\ e = Here.to
        OBVIOUS
    <2> HIDE DEF f, e, split
    <2> QED
        BY <2>1, <2>2, <2>3, <2>4, <1>1, UnitAdded
<1> HIDE DEF n
<1>5. (StartInv /\ WindowsInv /\ RegionsInv /\ TileInv)'
    BY <1>1, TilingKept DEF CutPhases
<1>6. StackInv'
    BY <1>1, HeadsStay, StackKept
<1>7. ASSUME NEW k \in DOMAIN units'
      PROVE  /\ at + 1 <= Len(regions) => units'[k].to <= regions[at + 1].from
             /\ \A h \in DOMAIN regions :
                  h < at + 1 /\ IsHeading(h) /\ regions[h].from >= units'[k].from => units'[k].key[2] < epoch
    <2>1. units'[k].to \in Nat /\ units'[k].to <= Here.to
        <3>1. CASE k \in DOMAIN units
            <4>1. units[k].to <= Here.from /\ units[k].to \in Nat
                BY <3>1, <1>1, <1>2, UnitsTyped DEF CutInv, CutPhases
            <4> QED
                BY <3>1, <4>1, <1>3, <1>4
        <3>2. CASE k = n + 1
            BY <3>2, <1>3, <1>4
        <3> QED
            BY <3>1, <3>2, <1>4
    <2>2. at + 1 <= Len(regions) => Here.to <= regions[at + 1].from /\ regions[at + 1].from \in Nat
        <3>1. at + 1 <= Len(regions) => at + 1 \in DOMAIN regions
            BY <1>3
        <3> QED
            BY <3>1, <1>3
    <2>3. \A h \in DOMAIN regions : h < at + 1 /\ IsHeading(h) => h < at
        <3>1. ~IsHeading(at)
            BY <1>1 DEF IsHeading, Here
        <3> QED
            BY <3>1, <1>3
    <2> QED
        BY <2>1, <2>2, <2>3, <1>3, <1>4
<1>8. ASSUME NEW r \in DOMAIN regions, r < at + 1, IsParagraph(r), NEW p \in Chars(regions[r])
      PROVE  InUnits(p)'
    <2>1. CASE r = at
        <3>1. p \in Chars(units'[n + 1])
            BY <2>1, <1>4, <1>8 DEF Chars, Here
        <3> QED
            BY <3>1, <1>4 DEF InUnits, Chars
    <2>2. CASE r < at
        <3>1. InUnits(p)
            BY <2>2, <1>1, <1>2, <1>8 DEF CutInv
        <3> QED
            BY <3>1, <1>4 DEF InUnits, Chars
    <2> QED
        BY <2>1, <2>2, <1>3, <1>8
<1>9. CutInv'
    <2>1. epoch \in Nat
        BY <1>1, <1>2 DEF CutInv
    <2> QED
        BY <2>1, <1>1, <1>2, <1>3, <1>4, <1>7, <1>8 DEF CutInv, Here, IsHeading, IsParagraph, Chars
<1>10. (PackInv /\ DoneInv)'
    BY <1>1 DEF SegInv, PackInv, DoneInv, CutPhases
<1> QED
    BY <1>4, <1>5, <1>6, <1>9, <1>10 DEF SegInv

LEMMA StepSplit ==
    ASSUME SegInv, SplitLeaf
    PROVE  SegInv'
<1> DEFINE s == IF leaf = 0 THEN Here.from ELSE leaf
           e == LeafEnd(s)
           f == IF s = Here.from THEN s ELSE OverlapStart(s)
           n == Len(units)
<1>1. /\ InRegion("paragraph") /\ phase = "units" /\ at <= Len(regions)
      /\ Here.kind = "paragraph" /\ Oversized
    BY DEF SplitLeaf, InRegion
<1>2. CASE Refuse
    BY <1>2, StepRefuse
<1>3. CASE ~Refuse
    <2>1. /\ phase' = "units" /\ UNCHANGED <<job, Tiling, Packing, result>>
          /\ job' = job /\ regions' = regions /\ epoch' = epoch
          /\ group' = group /\ groups' = groups /\ stack' = stack
          /\ units' = Append(units, Unit(f, e, TRUE))
          /\ IF e = Here.to THEN leaf' = 0 /\ at' = at + 1 ELSE leaf' = e /\ at' = at
        BY <1>1, <1>3 DEF SplitLeaf, Tiling, Packing
    <2>2. CutInv /\ UnitsInv /\ RegionsInv /\ Chained /\ job \in Jobs
        BY <1>1 DEF SegInv, StartInv, Chained, CutPhases
    <2>3. /\ at \in DOMAIN regions /\ at \in Nat /\ at + 1 \in 1..(Len(regions) + 1)
          /\ at \in 1..(Len(regions) + 1)
          /\ Here.from \in Nat /\ Here.to \in Nat /\ Here.from < Here.to
          /\ \A r \in DOMAIN regions :
               /\ regions[r].from \in Nat /\ regions[r].to \in Nat /\ regions[r].from < regions[r].to
               /\ r < at => regions[r].to <= Here.from
               /\ r > at => Here.to <= regions[r].from
          /\ Len(regions) \in Nat /\ DOMAIN regions = 1..Len(regions)
        BY <1>1, <2>2, RegionAtHand, RegionsTyped DEF CutInv
    <2>4. /\ leaf \in Nat /\ epoch \in Nat
          /\ leaf # 0 => Here.from <= leaf /\ leaf <= Here.to
          /\ leaf # 0 => \A p \in (Here.from)..(leaf - 1) : InUnits(p)
          /\ \A k \in DOMAIN units :
               units[k].to \in Nat /\ units[k].to <= (IF leaf = 0 THEN Here.from ELSE leaf)
        BY <1>1, <2>2, UnitsTyped DEF CutInv, CutPhases
    <2>5. s \in Nat /\ Here.from <= s /\ s <= Here.to
        BY <2>3, <2>4
    <2> HIDE DEF s
    <2>6. e \in s..Here.to /\ e \in Nat
        BY <2>2, <2>3, <2>5, LeafWithin
    <2>7. f \in Nat /\ Here.from <= f /\ f <= s
        <3>1. CASE s = Here.from
            BY <3>1, <2>3
        <3>2. CASE s # Here.from
            <4>1. OverlapStart(s) \in (Here.from)..s
                BY <2>2, <2>3, <2>5, OverlapWithin
            <4> QED
                BY <3>2, <4>1, <2>3, <2>5
        <3> QED
            BY <3>1, <3>2
    <2> HIDE DEF e, f
    <2>8. /\ UnitsInv'
          /\ n + 1 \in DOMAIN units' /\ units'[n + 1].from = f /\ units'[n + 1].to = e
          /\ \A k \in DOMAIN units : k \in DOMAIN units' /\ units'[k] = units[k]
          /\ \A k \in DOMAIN units' :
               /\ k \in DOMAIN units \/ k = n + 1
               /\ units'[k].key[2] <= epoch
               /\ \A h \in DOMAIN regions :
                   h < at /\ IsHeading(h) /\ regions[h].from >= units'[k].from => units'[k].key[2] < epoch
        <3>1. f <= e /\ e <= Here.to /\ TRUE \in BOOLEAN
            BY <2>3, <2>5, <2>6, <2>7
        <3> QED
            BY <3>1, <1>1, <2>1, <2>6, <2>7, UnitAdded
    <2> HIDE DEF n
    <2>9. (StartInv /\ WindowsInv /\ RegionsInv /\ TileInv)'
        BY <1>1, <2>1, TilingKept DEF CutPhases
    <2>10. StackInv'
        <3>1. at' \in {at, at + 1}
            BY <2>1
        <3>2. Heads(at)' = Heads(at)
            BY <3>1, <1>1, <2>1, HeadsStay
        <3> QED
            BY <3>2, <1>1, <2>1, StackKept
    <2>11. \A k \in DOMAIN units' : units'[k].to \in Nat /\ units'[k].to <= e
        <3> TAKE k \in DOMAIN units'
        <3>1. CASE k \in DOMAIN units
            <4>1. units[k].to \in Nat /\ units[k].to <= s
                BY <3>1, <2>4 DEF s
            <4> QED
                BY <3>1, <4>1, <2>5, <2>6, <2>8
        <3>2. CASE k = n + 1
            BY <3>2, <2>6, <2>8
        <3> QED
            BY <3>1, <3>2, <2>8
    <2>12. \A p \in (Here.from)..(e - 1) : InUnits(p)'
        <3> TAKE p \in (Here.from)..(e - 1)
        <3>1. CASE p < s
            <4>1. leaf # 0 /\ s = leaf
                BY <3>1, <2>3 DEF s
            <4>2. p \in (Here.from)..(leaf - 1)
                BY <3>1, <4>1, <2>3, <2>4
            <4>3. InUnits(p)
                BY <4>1, <4>2, <2>4
            <4> QED
                BY <4>3, <2>8 DEF InUnits, Chars
        <3>2. CASE p >= s
            <4>1. p \in Chars(units'[n + 1])
                BY <3>2, <2>3, <2>5, <2>6, <2>7, <2>8 DEF Chars
            <4> QED
                BY <4>1, <2>8 DEF InUnits, Chars
        <3> QED
            BY <3>1, <3>2, <2>3, <2>5
    <2>13. \A r \in DOMAIN regions : r < at /\ IsParagraph(r) => \A p \in Chars(regions[r]) : InUnits(p)'
        <3> SUFFICES ASSUME NEW r \in DOMAIN regions, r < at, IsParagraph(r), NEW p \in Chars(regions[r])
                     PROVE  InUnits(p)'
            OBVIOUS
        <3>1. InUnits(p)
            BY <1>1, <2>2 DEF CutInv
        <3> QED
            BY <3>1, <2>8 DEF InUnits, Chars
    <2>14. CutInv'
        <3>1. CASE e = Here.to
            <4>1. leaf' = 0 /\ at' = at + 1
                BY <3>1, <2>1
            <4>2. ASSUME NEW k \in DOMAIN units'
                  PROVE  /\ at + 1 <= Len(regions) => units'[k].to <= regions[at + 1].from
                         /\ \A h \in DOMAIN regions :
                              h < at + 1 /\ IsHeading(h) /\ regions[h].from >= units'[k].from
                                  => units'[k].key[2] < epoch
                <5>1. at + 1 <= Len(regions) => Here.to <= regions[at + 1].from /\ regions[at + 1].from \in Nat
                    <6>1. at + 1 <= Len(regions) => at + 1 \in DOMAIN regions
                        BY <2>3
                    <6> QED
                        BY <6>1, <2>3
                <5>2. \A h \in DOMAIN regions : h < at + 1 /\ IsHeading(h) => h < at
                    <6>1. ~IsHeading(at)
                        BY <1>1 DEF IsHeading, Here
                    <6> QED
                        BY <6>1, <2>3
                <5>3. units'[k].to \in Nat /\ units'[k].to <= Here.to
                    BY <3>1, <2>11
                <5> QED
                    BY <5>1, <5>2, <5>3, <2>3, <2>8
            <4>3. ASSUME NEW r \in DOMAIN regions, r < at + 1, IsParagraph(r), NEW p \in Chars(regions[r])
                  PROVE  InUnits(p)'
                <5>1. CASE r = at
                    BY <5>1, <4>3, <3>1, <2>12 DEF Chars, Here
                <5>2. CASE r < at
                    BY <5>2, <4>3, <2>13
                <5> QED
                    BY <5>1, <5>2, <4>3, <2>3
            <4> QED
                BY <4>1, <4>2, <4>3, <2>1, <2>3, <2>4, <2>8 DEF CutInv, Here, IsHeading, IsParagraph, Chars
        <3>2. CASE e # Here.to
            <4>1. leaf' = e /\ at' = at
                BY <3>2, <2>1
            <4>2. Here' = Here /\ Oversized' /\ InRegion("paragraph")'
                BY <4>1, <1>1, <2>1 DEF Here, Oversized, Tokens, InRegion
            <4>3. Here.from <= e /\ e <= Here.to
                BY <2>3, <2>5, <2>6
            <4>4. \A k \in DOMAIN units' : units'[k].to <= (IF e = 0 THEN Here.from ELSE e)
                BY <2>3, <2>11
            <4> QED
                BY <4>1, <4>2, <4>3, <4>4, <2>1, <2>3, <2>4, <2>6, <2>8, <2>12, <2>13
                DEF CutInv, IsHeading, IsParagraph, Chars
        <3> QED
            BY <3>1, <3>2
    <2>15. (PackInv /\ DoneInv)'
        BY <1>1, <2>1 DEF SegInv, PackInv, DoneInv, CutPhases
    <2> QED
        BY <2>8, <2>9, <2>10, <2>14, <2>15 DEF SegInv
<1> QED
    BY <1>2, <1>3

LEMMA StepEndUnits ==
    ASSUME SegInv, EndUnits
    PROVE  SegInv'
<1>1. /\ phase = "units" /\ phase' = "pack" /\ at > Len(regions) /\ at' = 1
      /\ UNCHANGED <<job, Tiling, Packing, result>>
      /\ job' = job /\ regions' = regions /\ units' = units /\ group' = group /\ groups' = groups
    BY DEF EndUnits, Cutting, Tiling, Packing
<1>2. (StartInv /\ WindowsInv /\ RegionsInv /\ TileInv)'
    BY <1>1, TilingKept DEF CutPhases
<1>3. UnitsInv'
    BY <1>1, UnitsKept DEF CutPhases
<1>4. StackInv' /\ DoneInv'
    BY <1>1 DEF StackInv, DoneInv
<1>5. CutInv'
    <2>1. Chained /\ RegionsInv /\ CutInv
        BY <1>1 DEF SegInv, Chained, CutPhases
    <2>2. Len(regions) \in Nat /\ DOMAIN regions = 1..Len(regions) /\ at \in 1..(Len(regions) + 1)
        BY <1>1, <2>1, RegionsTyped DEF CutInv
    <2>3. \A r \in DOMAIN regions : r < at
        BY <1>1, <2>2
    <2>4. \A r \in DOMAIN regions : IsParagraph(r) => \A p \in Chars(regions[r]) : InUnits(p)
        BY <1>1, <2>1, <2>3 DEF CutInv
    <2> QED
        BY <2>4, <1>1 DEF CutInv, IsParagraph, InUnits, Chars
<1>6. PackInv'
    <2>1. group = None /\ groups = <<>>
        BY <1>1 DEF SegInv, PackInv
    <2>2. Len(units) \in Nat /\ DOMAIN units = 1..Len(units)
        BY <1>1, UnitsTyped DEF SegInv, CutPhases
    <2>3. 1 \in 1..(Len(units) + 1) /\ \A k \in DOMAIN units : ~ (k < 1)
        BY <2>2
    <2> QED
        BY <2>1, <2>3, <1>1 DEF PackInv, CutPhases
<1> QED
    BY <1>2, <1>3, <1>4, <1>5, <1>6 DEF SegInv

-----------------------------------------------------------------------------
\* Groups.
LEMMA AppendHolds ==
    ASSUME NEW S, NEW gs \in Seq(S), NEW x \in S, NEW k,
           Holds(gs, k) \/ (x.from <= units[k].from /\ units[k].to <= x.to)
    PROVE  Holds(Append(gs, x), k)
<1>1. /\ Len(gs) \in Nat /\ DOMAIN gs = 1..Len(gs) /\ DOMAIN Append(gs, x) = 1..(Len(gs) + 1)
      /\ \A i \in DOMAIN gs : i \in DOMAIN Append(gs, x) /\ Append(gs, x)[i] = gs[i]
      /\ Append(gs, x)[Len(gs) + 1] = x /\ Len(gs) + 1 \in DOMAIN Append(gs, x)
    OBVIOUS
<1> QED
    BY <1>1 DEF Holds

LEMMA FlushedGathers ==
    ASSUME SegInv, phase = "pack"
    PROVE  Flushed \in Seq(UnitRecords) /\ \A i \in DOMAIN Flushed : Gathers(Flushed[i])
<1>1. PackInv /\ groups \in Seq(UnitRecords) /\ \A i \in DOMAIN groups : Gathers(groups[i])
    BY DEF SegInv, PackInv, CutPhases
<1>2. CASE group = None
    BY <1>1, <1>2 DEF Flushed
<1>3. CASE group # None
    <2>1. group \in UnitRecords /\ Gathers(group)
        BY <1>1, <1>3 DEF PackInv, Gathers
    <2>2. Flushed = Append(groups, group)
        BY <1>3 DEF Flushed
    <2>3. /\ Flushed \in Seq(UnitRecords)
          /\ \A i \in DOMAIN Flushed : (i \in DOMAIN groups /\ Flushed[i] = groups[i]) \/ Flushed[i] = group
        BY <1>1, <2>1, <2>2
    <2> QED
        BY <1>1, <2>1, <2>3
<1> QED
    BY <1>2, <1>3

LEMMA StepPack ==
    ASSUME SegInv, PackUnit
    PROVE  SegInv'
<1> DEFINE u == units[at]
           Before == \A k \in DOMAIN units : k < at => Holds(Flushed, k)
<1>1. /\ phase = "pack" /\ phase' = "pack" /\ at <= Len(units) /\ at' = at + 1
      /\ UNCHANGED <<job, Tiling, Cutting, result>>
      /\ job' = job /\ regions' = regions /\ units' = units
    BY DEF PackUnit, Tiling, Cutting
<1>2. UnitsInv /\ CutInv /\ PackInv
    BY DEF SegInv
<1>3. (StartInv /\ WindowsInv /\ RegionsInv /\ TileInv)'
    BY <1>1, TilingKept DEF CutPhases
<1>4. UnitsInv'
    BY <1>1, UnitsKept DEF CutPhases
<1>5. CutInv'
    BY <1>1, <1>2 DEF CutInv, CutPhases, IsParagraph, InUnits
<1>6. StackInv' /\ DoneInv'
    BY <1>1 DEF StackInv, DoneInv
<1>7. /\ Len(units) \in Nat /\ DOMAIN units = 1..Len(units) /\ at \in DOMAIN units /\ at \in Nat
      /\ at + 1 \in 1..(Len(units) + 1)
      /\ \A k \in DOMAIN units :
           /\ units[k] \in UnitRecords /\ units[k].from \in Nat /\ units[k].to \in Nat /\ units[k].from <= units[k].to
           /\ k < at + 1 => k < at \/ k = at
      /\ u \in UnitRecords
    <2>1. /\ Len(units) \in Nat /\ DOMAIN units = 1..Len(units)
          /\ \A k \in DOMAIN units :
               units[k] \in UnitRecords /\ units[k].from \in Nat /\ units[k].to \in Nat /\ units[k].from <= units[k].to
        BY <1>1, <1>2, UnitsTyped DEF CutPhases
    <2>2. at \in 1..(Len(units) + 1)
        BY <1>1, <1>2 DEF PackInv
    <2> QED
        BY <1>1, <2>1, <2>2
<1>8. /\ Flushed \in Seq(UnitRecords) /\ \A i \in DOMAIN Flushed : Gathers(Flushed[i])
      /\ groups \in Seq(UnitRecords) /\ \A i \in DOMAIN groups : Gathers(groups[i])
      /\ Before
    BY <1>1, <1>2, FlushedGathers DEF PackInv, CutPhases
<1>9. \A x \in UnitRecords : x # None
    BY UnitsAssumption DEF UnitRecords
<1>10. Reaches(u, at, at) /\ u.from <= u.to /\ Gathers(u)
    BY <1>7 DEF Reaches, Gathers
<1>11. \A gs \in Seq(UnitRecords), x \in UnitRecords :
           (\A i \in DOMAIN gs : Gathers(gs[i])) /\ Gathers(x)
               => Append(gs, x) \in Seq(UnitRecords) /\ \A i \in DOMAIN Append(gs, x) : Gathers(Append(gs, x)[i])
    <2> TAKE gs \in Seq(UnitRecords), x \in UnitRecords
    <2>1. /\ Append(gs, x) \in Seq(UnitRecords)
          /\ \A i \in DOMAIN Append(gs, x) :
               (i \in DOMAIN gs /\ Append(gs, x)[i] = gs[i]) \/ Append(gs, x)[i] = x
        OBVIOUS
    <2> QED
        BY <2>1
<1>12. /\ groups' \in Seq(UnitRecords) /\ \A i \in DOMAIN groups' : Gathers(groups'[i])
       /\ group' # None => /\ group' \in UnitRecords /\ group'.from <= group'.to
                           /\ \E a, b \in DOMAIN units : b < at + 1 /\ Reaches(group', a, b)
       /\ \A k \in DOMAIN units : k < at + 1 => Holds(Flushed', k)
    <2>1. CASE u.split
        <3>1. groups' = Append(Flushed, u) /\ group' = None /\ Flushed' = groups'
            BY <1>1, <2>1 DEF PackUnit, Flushed
        <3>2. \A k \in DOMAIN units : k < at + 1 => Holds(groups', k)
            <4> TAKE k \in DOMAIN units
            <4> HAVE k < at + 1
            <4>1. Holds(Flushed, k) \/ (u.from <= units[k].from /\ units[k].to <= u.to)
                BY <1>7, <1>8
            <4> QED
                BY <4>1, <3>1, <1>7, <1>8, AppendHolds
        <3> QED
            BY <3>1, <3>2, <1>7, <1>8, <1>10, <1>11
    <2>2. CASE ~u.split /\ group = None
        <3>1. groups' = groups /\ group' = u /\ Flushed = groups
            BY <1>1, <2>2 DEF PackUnit, Flushed
        <3>2. Flushed' = Append(groups, u)
            BY <3>1, <1>7, <1>9 DEF Flushed
        <3>3. \A k \in DOMAIN units : k < at + 1 => Holds(Flushed', k)
            <4> TAKE k \in DOMAIN units
            <4> HAVE k < at + 1
            <4>1. Holds(groups, k) \/ (u.from <= units[k].from /\ units[k].to <= u.to)
                BY <1>7, <1>8, <3>1
            <4> QED
                BY <4>1, <3>2, <1>7, <1>8, AppendHolds
        <3> QED
            BY <3>1, <3>3, <1>7, <1>8, <1>10
    <2>3. CASE ~u.split /\ group # None /\ (group.key # u.key \/ Tokens(group.from, u.to) > job.max)
        <3>1. groups' = Flushed /\ group' = u
            BY <1>1, <2>3 DEF PackUnit
        <3>2. Flushed' = Append(Flushed, u)
            BY <3>1, <1>7, <1>9 DEF Flushed
        <3>3. \A k \in DOMAIN units : k < at + 1 => Holds(Flushed', k)
            <4> TAKE k \in DOMAIN units
            <4> HAVE k < at + 1
            <4>1. Holds(Flushed, k) \/ (u.from <= units[k].from /\ units[k].to <= u.to)
                BY <1>7, <1>8
            <4> QED
                BY <4>1, <3>2, <1>7, <1>8, AppendHolds
        <3> QED
            BY <3>1, <3>3, <1>7, <1>8, <1>10
    <2>4. CASE ~u.split /\ group # None /\ ~ (group.key # u.key \/ Tokens(group.from, u.to) > job.max)
        <3>1. groups' = groups /\ group' = [group EXCEPT !.to = u.to] /\ group.key = u.key
            BY <1>1, <2>4 DEF PackUnit
        <3>2. group \in UnitRecords /\ group.from <= group.to
            BY <1>1, <1>2, <2>4 DEF PackInv
        <3>3. PICK a \in DOMAIN units, b \in DOMAIN units : b < at /\ Reaches(group, a, b)
            BY <1>1, <1>2, <2>4 DEF PackInv
        <3>4. /\ group' \in UnitRecords /\ group'.to = u.to /\ group'.from = group.from
              /\ group'.headings = group.headings /\ group'.key = group.key
            BY <3>1, <3>2, <1>7 DEF UnitRecords
        <3>5. group.from \in Nat /\ group.to \in Nat /\ u.from \in Nat /\ u.to \in Nat
            BY <3>2, <1>7 DEF UnitRecords
        <3>6. group.to <= u.from /\ u.from <= u.to
            <4>1. units[b].to <= u.from
                BY <3>3, <2>4, <1>1, <1>2, <1>7 DEF UnitsInv, CutPhases
            <4> QED
                BY <4>1, <3>3, <1>10 DEF Reaches
        <3>7. Reaches(group', a, at) /\ at < at + 1
            BY <3>1, <3>3, <3>4, <1>7 DEF Reaches
        <3>8. group' # None /\ Flushed' = Append(groups, group') /\ Flushed = Append(groups, group)
            BY <3>1, <3>4, <1>9, <2>4 DEF Flushed
        <3>9. \A k \in DOMAIN units : k < at + 1 => Holds(Flushed', k)
            <4> TAKE k \in DOMAIN units
            <4> HAVE k < at + 1
            <4>1. units[k].from \in Nat /\ units[k].to \in Nat
                BY <1>7
            <4>2. CASE k = at
                <5>1. group'.from <= units[k].from /\ units[k].to <= group'.to
                    BY <4>2, <3>2, <3>4, <3>5, <3>6
                <5> QED
                    BY <5>1, <3>4, <3>8, <1>8, AppendHolds
            <4>3. CASE k < at
                <5>1. Holds(Append(groups, group), k)
                    BY <4>3, <3>8, <1>8
                <5>2. PICK i \in DOMAIN Append(groups, group) :
                          Append(groups, group)[i].from <= units[k].from /\ units[k].to <= Append(groups, group)[i].to
                    BY <5>1 DEF Holds
                <5>3. CASE i \in DOMAIN groups /\ Append(groups, group)[i] = groups[i]
                    <6>1. Holds(groups, k)
                        BY <5>2, <5>3 DEF Holds
                    <6> QED
                        BY <6>1, <3>4, <3>8, <1>8, AppendHolds
                <5>4. CASE Append(groups, group)[i] = group
                    <6>1. group'.from <= units[k].from /\ units[k].to <= group'.to
                        BY <5>2, <5>4, <4>1, <3>4, <3>5, <3>6
                    <6> QED
                        BY <6>1, <3>4, <3>8, <1>8, AppendHolds
                <5>5. (i \in DOMAIN groups /\ Append(groups, group)[i] = groups[i]) \/ Append(groups, group)[i] = group
                    BY <3>2, <1>8
                <5> QED
                    BY <5>3, <5>4, <5>5
            <4> QED
                BY <4>2, <4>3, <1>7
        <3>10. group'.from <= group'.to
            BY <3>2, <3>4, <3>5, <3>6
        <3> QED
            BY <3>1, <3>4, <3>7, <3>9, <3>10, <1>7, <1>8
    <2> QED
        BY <2>1, <2>2, <2>3, <2>4
<1>13. PackInv'
    <2> DEFINE fl == Flushed'
    <2>1. \A g : Gathers(g)' <=> Gathers(g)
        BY <1>1 DEF Gathers, Reaches
    <2>2. \A g, a, b : Reaches(g, a, b)' <=> Reaches(g, a, b)
        BY <1>1 DEF Reaches
    <2> QED
        BY <2>1, <2>2, <1>1, <1>7, <1>12 DEF PackInv, CutPhases, Holds
<1> QED
    BY <1>3, <1>4, <1>5, <1>6, <1>13 DEF SegInv

LEMMA StepEndPack ==
    ASSUME SegInv, EndPack
    PROVE  SegInv'
<1>1. /\ phase = "pack" /\ phase' = "account" /\ at > Len(units)
      /\ UNCHANGED <<job, Tiling, Cutting, result>> /\ groups' = Flushed
      /\ job' = job /\ regions' = regions /\ units' = units
    BY DEF EndPack, Tiling, Cutting
<1>2. UnitsInv /\ CutInv /\ PackInv
    BY DEF SegInv
<1>3. (StartInv /\ WindowsInv /\ RegionsInv /\ TileInv)'
    BY <1>1, TilingKept DEF CutPhases
<1>4. UnitsInv'
    BY <1>1, UnitsKept DEF CutPhases
<1>5. CutInv'
    BY <1>1, <1>2 DEF CutInv, CutPhases, IsParagraph, InUnits
<1>6. StackInv' /\ DoneInv'
    BY <1>1 DEF StackInv, DoneInv
<1>7. PackInv'
    <2>1. Flushed \in Seq(UnitRecords) /\ \A i \in DOMAIN Flushed : Gathers(Flushed[i])
        BY <1>1, FlushedGathers
    <2>2. \A k \in DOMAIN units : k < at
        <3>1. Len(units) \in Nat /\ DOMAIN units = 1..Len(units)
            BY <1>1, <1>2, UnitsTyped DEF CutPhases
        <3>2. at \in 1..(Len(units) + 1)
            BY <1>1, <1>2 DEF PackInv
        <3> QED
            BY <3>1, <3>2, <1>1
    <2>3. \A k \in DOMAIN units : Holds(Flushed, k)
        BY <1>1, <1>2, <2>2 DEF PackInv
    <2>4. \A g : Gathers(g)' <=> Gathers(g)
        BY <1>1 DEF Gathers, Reaches
    <2> QED
        BY <1>1, <2>1, <2>3, <2>4 DEF PackInv, CutPhases, Holds
<1> QED
    BY <1>3, <1>4, <1>5, <1>6, <1>7 DEF SegInv

-----------------------------------------------------------------------------
\* Accounting.
LEMMA TokensInt ==
    ASSUME job \in Jobs, NEW s \in Nat, NEW e \in Nat, e <= Len(job.text)
    PROVE  Tokens(s, e) \in Int
<1> DEFINE t == job.text
           x == SubSeq(t, s + 1, e)
           S == ToSet(t)
           I == {i \in DOMAIN x : x[i] \notin Spaces /\ (i = 1 \/ x[i - 1] \in Spaces)}
<1>1. t \in Seq(S)
    BY MappingAssumption
<1>2. job.counter.cost \in Int
    BY CounterAssumption
<1> HIDE DEF S
<1>3. Len(x) \in Nat /\ DOMAIN x = 1..Len(x)
    BY <1>1
<1>4. Cardinality(I) \in Nat
    <2>1. IsFiniteSet(1..Len(x))
        BY <1>3, FS_Interval
    <2>2. IsFiniteSet(I)
        BY <2>1, <1>3, FS_Subset
    <2> QED
        BY <2>2, FS_CardinalityType
<1> QED
    <2>1. Tokens(s, e) = IF x = job.counter.expensive THEN job.counter.cost
                         ELSE IF job.counter.unit = "characters" THEN Len(x) ELSE Cardinality(I)
        BY DEF Tokens, Count, Slice
    <2> HIDE DEF x, I
    <2> QED
        BY <1>2, <1>3, <1>4, <2>1

LEMMA StepAccount ==
    ASSUME SegInv, Account
    PROVE  SegInv'
<1>1. phase = "account" /\ job' = job
    BY DEF Account, Refuse
<1>2. CASE Refuse
    BY <1>2, StepRefuse
<1>3. CASE ~Refuse
    <2> DEFINE spans == [i \in DOMAIN groups |-> Span(groups[i])]
    <2>1. /\ ~ \E i \in DOMAIN spans : Tokens(spans[i].from, spans[i].to) > job.max
          /\ result'.spans = [i \in DOMAIN spans |-> InBytes(spans[i])]
          /\ result'.headings = [i \in DOMAIN groups |-> groups[i].headings]
          /\ phase' = "done" /\ UNCHANGED <<job, at, Tiling, Cutting, Packing>>
        BY <1>3 DEF Account
    <2>2. job' = job /\ regions' = regions /\ units' = units /\ groups' = groups
        BY <2>1 DEF Tiling, Cutting, Packing
    <2>3. UnitsInv /\ CutInv /\ PackInv
        BY DEF SegInv
    <2>4. (StartInv /\ WindowsInv /\ RegionsInv /\ TileInv)'
        BY <1>1, <2>1, TilingKept DEF CutPhases
    <2>5. UnitsInv'
        BY <1>1, <2>1, <2>2, UnitsKept DEF CutPhases
    <2>6. CutInv' /\ StackInv'
        BY <1>1, <2>1, <2>2, <2>3 DEF CutInv, StackInv, CutPhases, IsParagraph, InUnits
    <2>7. PackInv'
        <3>1. \A g : Gathers(g)' <=> Gathers(g)
            BY <2>2 DEF Gathers, Reaches
        <3> QED
            BY <1>1, <2>1, <2>2, <2>3, <3>1 DEF PackInv, CutPhases, Holds
    <2>8. DoneInv'
        <3>1. ASSUME NEW i \in DOMAIN groups
              PROVE  /\ Tokens(groups[i].from, groups[i].to) <= job.max
                     /\ result'.spans[i].from = Offsets(job.text)[groups[i].from]
                     /\ result'.spans[i].to = Offsets(job.text)[groups[i].to]
            <4>1. spans[i].from = groups[i].from /\ spans[i].to = groups[i].to
                BY DEF Span
            <4>2. Tokens(groups[i].from, groups[i].to) \in Int /\ job.max \in Int
                <5>1. job \in Jobs /\ phase \in CutPhases /\ Chained
                    BY <1>1 DEF SegInv, StartInv, CutPhases, Chained
                <5>2. PICK a \in DOMAIN units, b \in DOMAIN units :
                          groups[i].from = units[a].from /\ groups[i].to = units[b].to
                    BY <1>1, <2>3 DEF PackInv, CutPhases, Gathers, Reaches
                <5>3. units[a].from \in Nat /\ units[b].to \in Nat
                    BY <5>1, <2>3, UnitsTyped
                <5>4. PICK r \in DOMAIN regions : units[b].to <= regions[r].to
                    BY <5>1, <2>3 DEF UnitsInv, LiesIn
                <5>5. regions[r].to \in Nat /\ regions[r].to <= Len(job.text) /\ Len(job.text) \in Nat
                    <6>1. WindowsInv /\ RegionsInv
                        BY DEF SegInv
                    <6>2. /\ regions[r].win \in DOMAIN windows /\ regions[r].to <= windows[regions[r].win].to
                        BY <5>1, <6>1 DEF RegionsInv
                    <6>3. windows[regions[r].win].to <= Len(job.text)
                        BY <5>1, <6>1, <6>2 DEF WindowsInv
                    <6> QED
                        BY <5>1, <6>1, <6>2, <6>3, WindowsTyped, RegionsTyped, JobsTyped
                <5>6. units[b].to <= Len(job.text)
                    BY <5>3, <5>4, <5>5
                <5> QED
                    BY <5>1, <5>2, <5>3, <5>6, TokensInt, JobsTyped
            <4>3. ~ (Tokens(groups[i].from, groups[i].to) > job.max)
                BY <2>1, <4>1
            <4>4. result'.spans[i] = InBytes(spans[i])
                BY <2>1
            <4> QED
                BY <4>1, <4>2, <4>3, <4>4 DEF InBytes
        <3>2. DOMAIN result'.spans = DOMAIN groups /\ DOMAIN result'.headings = DOMAIN groups
            BY <2>1
        <3>3. \A i \in DOMAIN groups : result'.headings[i] = groups[i].headings
            BY <2>1
        <3>4. \A s, e : Tokens(s, e)' = Tokens(s, e)
            BY <2>2 DEF Tokens
        <3> QED
            BY <3>1, <3>2, <3>3, <3>4, <2>1, <2>2 DEF DoneInv
    <2> QED
        BY <2>4, <2>5, <2>6, <2>7, <2>8 DEF SegInv
<1> QED
    BY <1>2, <1>3

LEMMA SegStarts ==
    ASSUME Init
    PROVE  SegInv
BY DEF Init, SegInv, StartInv, WindowsInv, RegionsInv, TileInv, StackInv, UnitsInv, CutInv, PackInv, DoneInv,
   Chained, CutPhases

LEMMA SegStutters ==
    ASSUME SegInv, UNCHANGED vars
    PROVE  SegInv'
<1>1. UNCHANGED <<job, phase, windows, tile, at, regions, stack, epoch, leaf, units, held, group, groups, result>>
    BY DEF vars
<1>2. (StartInv /\ WindowsInv /\ RegionsInv /\ TileInv)'
    BY <1>1 DEF SegInv, StartInv, WindowsInv, RegionsInv, TileInv, TextTiled, IsParagraph, IsHeading, Chars,
       Chained
<1>3. \A u, r : LiesIn(u, r)' <=> LiesIn(u, r)
    BY <1>1, PlacesKept
<1>4. UnitsInv'
    BY <1>1, <1>3 DEF SegInv, UnitsInv, IsHeading
<1>5. StackInv'
    BY <1>1 DEF SegInv, StackInv, StillOpen, Heads, Level, IsHeading
<1>6. CutInv'
    BY <1>1 DEF SegInv, CutInv, IsParagraph, IsHeading, InUnits, Chars, InRegion, Here, Oversized, Tokens
<1>7. PackInv'
    BY <1>1 DEF SegInv, PackInv, Gathers, Reaches, Holds, Flushed
<1>8. DoneInv'
    BY <1>1 DEF SegInv, DoneInv, Tokens
<1> QED
    BY <1>2, <1>4, <1>5, <1>6, <1>7, <1>8 DEF SegInv

LEMMA SegSteps ==
    ASSUME SegInv, [Next]_vars
    PROVE  SegInv'
<1>1. CASE UNCHANGED vars
    BY <1>1, SegStutters
<1>2. CASE Next
    BY <1>2, StepBegin, StepTile, StepHeading, StepEmpty, StepWhole, StepSplit, StepEndUnits, StepPack, StepEndPack,
       StepAccount DEF Next
<1> QED
    BY <1>1, <1>2

\* A group begins in a paragraph and ends in one of the same window with no heading between.
LEMMA GroupLies ==
    ASSUME SegInv, phase = "done", NEW i \in DOMAIN groups
    PROVE  \E a, b \in DOMAIN units, r, q \in DOMAIN regions :
              /\ Reaches(groups[i], a, b) /\ LiesIn(units[a], r) /\ LiesIn(units[b], q)
              /\ groups[i].from \in Nat /\ groups[i].to \in Nat
              /\ regions[r].from <= groups[i].from /\ groups[i].from <= regions[r].to
              /\ regions[q].from <= groups[i].to /\ groups[i].to <= regions[q].to
              /\ regions[q].win = regions[r].win
              /\ \A h \in DOMAIN regions :
                    IsHeading(h) => ~ (regions[h].from >= units[a].from /\ regions[h].to <= units[b].to)
<1>1. UnitsInv /\ PackInv /\ RegionsInv /\ Chained /\ phase \in CutPhases
    BY DEF SegInv, Chained, CutPhases
<1>2. PICK a \in DOMAIN units, b \in DOMAIN units : Reaches(groups[i], a, b)
    BY <1>1 DEF PackInv, CutPhases, Gathers
<1>3. PICK r \in DOMAIN regions : LiesIn(units[a], r)
    BY <1>1 DEF UnitsInv
<1>4. PICK q \in DOMAIN regions : LiesIn(units[b], q)
    BY <1>1 DEF UnitsInv
<1>5. /\ units[a].from \in Nat /\ units[a].to \in Nat /\ units[b].from \in Nat /\ units[b].to \in Nat
      /\ units[a].key[2] \in Nat /\ units[b].key[2] \in Nat
    BY <1>1, UnitsTyped
<1>6. /\ regions[r].from \in Nat /\ regions[r].to \in Nat
      /\ regions[q].from \in Nat /\ regions[q].to \in Nat
    BY <1>1, RegionsTyped
<1>7. groups[i].from = units[a].from /\ groups[i].to = units[b].to /\ units[a].key = units[b].key
    BY <1>2 DEF Reaches
<1>8. /\ regions[r].from <= units[a].from /\ units[a].from <= units[a].to /\ units[a].to <= regions[r].to
      /\ regions[q].from <= units[b].from /\ units[b].from <= units[b].to /\ units[b].to <= regions[q].to
      /\ units[a].key[1] = regions[r].win /\ units[b].key[1] = regions[q].win
    BY <1>3, <1>4 DEF LiesIn
<1>9. ASSUME NEW h \in DOMAIN regions, IsHeading(h)
      PROVE  ~ (regions[h].from >= units[a].from /\ regions[h].to <= units[b].to)
    BY <1>1, <1>5, <1>7, <1>9 DEF UnitsInv
<1>10. /\ groups[i].from <= regions[r].to /\ regions[q].from <= groups[i].to
    BY <1>5, <1>6, <1>7, <1>8
<1> QED
    BY <1>2, <1>3, <1>4, <1>5, <1>7, <1>8, <1>9, <1>10

LEMMA SegParagraphs ==
    ASSUME SegInv
    PROVE  ParagraphsKept
<1> SUFFICES ASSUME phase = "done"
             PROVE  /\ OfKind("paragraph") \subseteq UNION {Chars(groups[i]) : i \in DOMAIN groups}
                    /\ OfKind("heading") \cap UNION {Chars(groups[i]) : i \in DOMAIN groups} = {}
    BY DEF ParagraphsKept
<1>1. UnitsInv /\ PackInv /\ CutInv /\ RegionsInv /\ Chained /\ phase \in CutPhases
    BY DEF SegInv, Chained, CutPhases
<1>2. /\ \A k \in DOMAIN units : units[k].from \in Nat /\ units[k].to \in Nat
      /\ \A r \in DOMAIN regions : regions[r].from \in Nat /\ regions[r].to \in Nat
    BY <1>1, UnitsTyped, RegionsTyped
<1>3. ASSUME NEW i \in DOMAIN groups
      PROVE  groups[i].from \in Nat /\ groups[i].to \in Nat
    BY GroupLies
<1>4. ASSUME NEW p, p \in OfKind("paragraph")
      PROVE  \E i \in DOMAIN groups : p \in Chars(groups[i])
    <2>1. PICK r \in DOMAIN regions : IsParagraph(r) /\ p \in Chars(regions[r])
        BY <1>4 DEF OfKind, IsParagraph
    <2>2. InUnits(p)
        BY <1>1, <2>1 DEF CutInv, CutPhases
    <2>3. PICK k \in DOMAIN units : p \in Chars(units[k])
        BY <2>2 DEF InUnits
    <2>4. Holds(groups, k)
        BY <1>1 DEF PackInv
    <2>5. PICK i \in DOMAIN groups : groups[i].from <= units[k].from /\ units[k].to <= groups[i].to
        BY <2>4 DEF Holds
    <2>6. p \in Chars(groups[i])
        BY <2>3, <2>5, <1>2, <1>3 DEF Chars
    <2> QED
        BY <2>6
<1>5. ASSUME NEW p, p \in OfKind("heading"), NEW i \in DOMAIN groups, p \in Chars(groups[i])
      PROVE  FALSE
    <2>1. PICK h \in DOMAIN regions : IsHeading(h) /\ p \in Chars(regions[h])
        BY <1>5 DEF OfKind, IsHeading
    <2>2. PICK a \in DOMAIN units, b \in DOMAIN units, r \in DOMAIN regions, q \in DOMAIN regions :
              /\ Reaches(groups[i], a, b) /\ LiesIn(units[a], r) /\ LiesIn(units[b], q)
              /\ ~ (regions[h].from >= units[a].from /\ regions[h].to <= units[b].to)
        BY <2>1, GroupLies
    <2>3. /\ groups[i].from = units[a].from /\ groups[i].to = units[b].to
          /\ regions[r].from <= units[a].from /\ units[a].from <= regions[r].to
          /\ regions[q].from <= units[b].to /\ units[b].to <= regions[q].to
          /\ IsParagraph(r) /\ IsParagraph(q)
        <3>1. /\ regions[r].from <= units[a].from /\ units[a].from <= units[a].to /\ units[a].to <= regions[r].to
              /\ regions[q].from <= units[b].from /\ units[b].from <= units[b].to /\ units[b].to <= regions[q].to
              /\ IsParagraph(r) /\ IsParagraph(q)
            BY <2>2 DEF LiesIn
        <3>2. groups[i].from = units[a].from /\ groups[i].to = units[b].to
            BY <2>2 DEF Reaches
        <3> QED
            BY <3>1, <3>2, <1>2
    <2>4. h # r /\ h # q
        BY <2>1, <2>3 DEF IsParagraph, IsHeading
    <2>5. \A x, y \in DOMAIN regions : x < y => regions[x].to <= regions[y].from
        BY <1>1 DEF RegionsInv
    <2>6. /\ h \in Nat /\ r \in Nat /\ q \in Nat
        BY <1>1, RegionsTyped
    <2>7. /\ p \in Int /\ regions[h].from <= p /\ p < regions[h].to
          /\ units[a].from <= p /\ p < units[b].to
        BY <2>1, <2>3, <1>2, <1>5 DEF Chars
    <2>8. ~ (h < r)
        BY <2>3, <2>5, <2>7, <1>2
    <2>9. regions[r].to <= regions[h].from
        BY <2>4, <2>5, <2>6, <2>8
    <2>10. ~ (q < h)
        BY <2>3, <2>5, <2>7, <1>2
    <2>11. regions[h].to <= regions[q].from
        BY <2>4, <2>5, <2>6, <2>10
    <2> QED
        BY <2>2, <2>3, <2>9, <2>11, <1>2
<1> QED
    BY <1>4, <1>5

LEMMA SegResolve ==
    ASSUME SegInv
    PROVE  SegmentsResolve
<1> SUFFICES ASSUME phase = "done", NEW i \in DOMAIN groups
             PROVE  /\ Tokens(groups[i].from, groups[i].to) <= job.max
                    /\ \E w \in DOMAIN job.mappings :
                           /\ job.mappings[w].from <= result.spans[i].from
                           /\ result.spans[i].to <= job.mappings[w].to
    BY DEF SegmentsResolve
<1>1. WindowsInv /\ RegionsInv /\ DoneInv /\ Chained /\ job \in Jobs
    BY DEF SegInv, Chained, CutPhases, StartInv
<1>2. PICK r \in DOMAIN regions, q \in DOMAIN regions :
          /\ groups[i].from \in Nat /\ groups[i].to \in Nat
          /\ regions[r].from <= groups[i].from /\ groups[i].from <= regions[r].to
          /\ regions[q].from <= groups[i].to /\ groups[i].to <= regions[q].to
          /\ regions[q].win = regions[r].win
    BY GroupLies
<1> DEFINE w == regions[r].win
           o == Offsets(job.text)
<1>3. /\ w \in DOMAIN windows
      /\ windows[w].from <= regions[r].from /\ regions[r].to <= windows[w].to
      /\ windows[w].from <= regions[q].from /\ regions[q].to <= windows[w].to
    BY <1>1, <1>2 DEF RegionsInv
<1>4. /\ regions[r].from \in Nat /\ regions[r].to \in Nat /\ regions[q].from \in Nat /\ regions[q].to \in Nat
      /\ windows[w].from \in Nat /\ windows[w].to \in Nat /\ Len(job.text) \in Nat
    BY <1>1, <1>3, RegionsTyped, WindowsTyped, JobsTyped
<1>5. /\ w \in DOMAIN job.mappings /\ windows[w].to <= Len(job.text)
      /\ o[windows[w].from] = job.mappings[w].from /\ o[windows[w].to] = job.mappings[w].to
    BY <1>1, <1>3 DEF WindowsInv
<1>6. /\ windows[w].from <= groups[i].from /\ groups[i].to <= windows[w].to
      /\ groups[i].from <= windows[w].to /\ windows[w].from <= groups[i].to
    BY <1>2, <1>3, <1>4
<1>7. /\ windows[w].from \in 0..Len(job.text) /\ windows[w].to \in 0..Len(job.text)
      /\ groups[i].from \in 0..Len(job.text) /\ groups[i].to \in 0..Len(job.text)
    BY <1>2, <1>4, <1>5, <1>6
<1>8. /\ \A p \in 0..Len(job.text) : o[p] \in Int
      /\ \A p, x \in 0..Len(job.text) : p < x => o[p] < o[x]
    BY <1>4, OffsetsRise
<1> HIDE DEF o
<1>9. o[windows[w].from] <= o[groups[i].from] /\ o[groups[i].to] <= o[windows[w].to]
    <2>1. ASSUME NEW x \in 0..Len(job.text), NEW y \in 0..Len(job.text), x <= y
          PROVE  o[x] <= o[y]
        <3>1. CASE x = y
            BY <3>1, <1>8
        <3>2. CASE x < y
            BY <3>2, <1>8
        <3> QED
            BY <3>1, <3>2, <2>1, <1>4
    <2> QED
        BY <2>1, <1>6, <1>7
<1>10. /\ Tokens(groups[i].from, groups[i].to) <= job.max
       /\ result.spans[i].from = o[groups[i].from] /\ result.spans[i].to = o[groups[i].to]
    BY <1>1 DEF DoneInv, o
<1> QED
    BY <1>5, <1>9, <1>10

LEMMA SegRecognised ==
    ASSUME SegInv
    PROVE  WindowsRecognised
<1> SUFFICES ASSUME phase = "done", NEW w \in DOMAIN windows,
                    NEW p \in (windows[w].from)..(windows[w].to - 1), job.text[p + 1] \notin Spaces
             PROVE  p \in OfKind("paragraph") \cup OfKind("heading")
    BY DEF WindowsRecognised, Recognised
<1>1. TextTiled(w, windows[w].to)
    BY DEF SegInv, TileInv, CutPhases
<1>2. PICK r \in DOMAIN regions : p \in Chars(regions[r]) /\ (IsParagraph(r) \/ IsHeading(r))
    BY <1>1 DEF TextTiled
<1> QED
    BY <1>2 DEF OfKind, IsParagraph, IsHeading

LEMMA SegHeadings ==
    ASSUME SegInv
    PROVE  HeadingPath
<1> DEFINE before(i) == {h \in ToSet(regions) : h.kind = "heading" /\ h.to <= groups[i].from}
<1>1. ASSUME phase = "done", NEW i \in DOMAIN groups
      PROVE  Path(result.headings[i], before(i))
    <2>1. RegionsInv /\ DoneInv /\ Chained
        BY <1>1 DEF SegInv, Chained, CutPhases
    <2>2. PICK a \in DOMAIN units, b \in DOMAIN units, r \in DOMAIN regions :
              /\ Reaches(groups[i], a, b) /\ LiesIn(units[a], r) /\ groups[i].from \in Nat
              /\ regions[r].from <= groups[i].from /\ groups[i].from <= regions[r].to
        BY <1>1, GroupLies
    <2>3. result.headings[i] = units[a].headings /\ Path(units[a].headings, Heads(r)) /\ IsParagraph(r)
        BY <1>1, <2>1, <2>2 DEF DoneInv, Reaches, LiesIn
    <2>4. /\ Len(regions) \in Nat /\ DOMAIN regions = 1..Len(regions)
          /\ \A k \in DOMAIN regions : regions[k].from \in Nat /\ regions[k].to \in Nat /\ regions[k].from < regions[k].to
          /\ \A x, y \in DOMAIN regions : x < y => regions[x].to <= regions[y].from
        BY <2>1, RegionsTyped DEF RegionsInv
    <2>5. ToSet(regions) = {regions[k] : k \in DOMAIN regions}
        BY DEF ToSet
    <2>6. ASSUME NEW k \in DOMAIN regions, IsHeading(k)
          PROVE  regions[k].to <= groups[i].from <=> k < r
        <3>1. k # r
            BY <2>3, <2>6 DEF IsHeading, IsParagraph
        <3>2. k < r => regions[k].to <= groups[i].from
            BY <2>2, <2>4
        <3>3. r < k => ~ (regions[k].to <= groups[i].from)
            BY <2>2, <2>4
        <3> QED
            BY <3>1, <3>2, <3>3, <2>4
    <2>7. before(i) = Heads(r)
        BY <2>5, <2>6 DEF Heads, IsHeading
    <2> QED
        BY <2>3, <2>7
<1> HIDE DEF before
<1> SUFFICES ASSUME phase = "done", NEW i \in DOMAIN groups
             PROVE  /\ ToSet(result.headings[i]) = {h.from : h \in StillOpen(before(i))}
                    /\ \A j, k \in DOMAIN result.headings[i] :
                          j < k => result.headings[i][j] < result.headings[i][k]
    BY DEF HeadingPath, StillOpen, Level, before
<1> QED
    BY <1>1 DEF Path

\* Whatever the text, its mappings, the settings and the counter: every character of a
\* paragraph is in a segment and no heading's is, a segment fits the budget and lies in one
\* mapping, what is not white space in a window is in paragraphs and headings, and a segment's
\* heading path is that of the headings before it which no later one closes.
THEOREM SegmentsKept == Spec => [](ParagraphsKept /\ SegmentsResolve /\ WindowsRecognised /\ HeadingPath)
<1>1. Init => SegInv
    BY SegStarts
<1>2. SegInv /\ [Next]_vars => SegInv'
    BY SegSteps
<1>3. SegInv => ParagraphsKept /\ SegmentsResolve /\ WindowsRecognised /\ HeadingPath
    BY SegParagraphs, SegResolve, SegRecognised, SegHeadings
<1> QED
    BY <1>1, <1>2, <1>3, PTL DEF Spec
=============================================================================
