-------------------------------- MODULE Blobs --------------------------------
(***************************************************************************)
(* One address of a content-addressed blob store: the local store, which   *)
(* links a staged file under its digest and persists its name, and the S3  *)
(* store, which creates an object on the condition that there is none      *)
(* (adapters/storage/blobs.py, adapters/storage/files.py,                  *)
(* adapters/s3_blob.py).  Writers of the same bytes race, a conditional    *)
(* request is applied but its answer lost, the machine stops between two   *)
(* steps, and the address may hold foreign bytes to begin with.            *)
(***************************************************************************)
EXTENDS Naturals, FiniteSets

CONSTANTS Writers, Media, Nil

ASSUME NilAssumption == Nil \notin [whole : BOOLEAN, media : Media \cup {Nil}]

VARIABLES
    backend,     \* "local" or "s3"
    object,      \* what a reader finds: Nil, or its bytes and media type
    disk,        \* what a power loss would leave of it
    writer,      \* [Writers -> the call in progress]
    ready,       \* media types of the references handed out
    erased       \* a deletion completed and no put began since

bvars == <<backend, object, disk, writer, ready, erased>>

Object(whole, m) == [whole |-> whole, media |-> m]
Rest == [pc |-> "idle", media |-> Nil]
Doing(w, pc) == writer[w].pc = pc
Moved(w, pc) == [writer EXCEPT ![w].pc = pc]
Away(w) == [writer EXCEPT ![w] = Rest]
Quiet == \A w \in Writers : Doing(w, "idle")

(* The object is the reference's: its bytes, and for S3 its media type.    *)
Matches(m) ==
    /\ object # Nil /\ object.whole
    /\ backend = "s3" => object.media = m

-----------------------------------------------------------------------------
(* put_if_absent.                                                          *)

(* staged_bytes: the input is hashed, synced and within its limits.        *)
Stage(w, m) ==
    /\ Doing(w, "idle")
    /\ ~ \E v \in Writers : Doing(v, "delete")
    /\ writer' = [writer EXCEPT ![w] = [pc |-> IF backend = "local" THEN "link" ELSE "head",
                                        media |-> m]]
    /\ erased' = FALSE
    /\ UNCHANGED <<backend, object, disk, ready>>

(* Variant: the loser of the race leaves the name to its winner.           *)
LinkTrusting(w) ==
    /\ Doing(w, "link")
    /\ object' = IF object = Nil THEN Object(TRUE, Nil) ELSE object
    /\ writer' = IF object = Nil THEN Moved(w, "sync") ELSE Away(w)
    /\ ready' = IF Matches(Nil) THEN ready \cup {writer[w].media} ELSE ready
    /\ UNCHANGED <<backend, disk, erased>>

(* _link_content: the link, or the comparison with the file that won.      *)
Link(w) ==
    /\ Doing(w, "link")
    /\ object' = IF object = Nil THEN Object(TRUE, Nil) ELSE object
    /\ writer' = IF object = Nil \/ Matches(Nil) THEN Moved(w, "sync") ELSE Away(w)
    /\ UNCHANGED <<backend, disk, ready, erased>>

(* ensure_ready of a reference found retained: the bytes, then the name.   *)
EnsureReady(w, m) ==
    /\ Doing(w, "idle") /\ Matches(m)
    /\ ~ \E v \in Writers : Doing(v, "delete")
    /\ writer' = [writer EXCEPT ![w] = [pc |-> "sync", media |-> m]]
    /\ UNCHANGED <<backend, object, disk, ready, erased>>

(* _sync_parents, then the reference is returned.                          *)
Persist(w) ==
    /\ Doing(w, "sync")
    /\ disk' = object
    /\ ready' = ready \cup {writer[w].media}
    /\ writer' = Away(w)
    /\ UNCHANGED <<backend, object, erased>>

(* S3: an existing object is validated and read in full.                   *)
HeadObject(w) ==
    /\ Doing(w, "head")
    /\ writer' = IF object = Nil THEN Moved(w, "put")
                 ELSE IF Matches(writer[w].media) THEN Moved(w, "sync") ELSE Away(w)
    /\ UNCHANGED <<backend, object, disk, ready, erased>>

(* put_object with If-None-Match, and whether its answer arrives; a       *)
(* conflict leads to the object that won the race.                         *)
PutObject(w, answered) ==
    /\ Doing(w, "put")
    /\ object' = IF object = Nil THEN Object(TRUE, writer[w].media) ELSE object
    /\ disk' = object'
    /\ writer' = IF answered THEN Moved(w, "head-again") ELSE Away(w)
    /\ UNCHANGED <<backend, ready, erased>>

HeadAgain(w) ==
    /\ Doing(w, "head-again")
    /\ writer' = IF Matches(writer[w].media) THEN Moved(w, "sync") ELSE Away(w)
    /\ UNCHANGED <<backend, object, disk, ready, erased>>

-----------------------------------------------------------------------------
(* delete, under the policy owner's exclusive protection: intent recorded, *)
(* the bytes verified, the address removed, its absence persisted.  A      *)
(* repeated call of an absent object persists the absence as well.         *)

Delete(w, m) ==
    /\ Quiet
    /\ object = Nil \/ Matches(m)
    /\ ready' = {}
    /\ object' = Nil
    /\ disk' = IF backend = "s3" THEN Nil ELSE disk
    /\ writer' = [writer EXCEPT ![w] = [pc |-> "delete", media |-> m]]
    /\ UNCHANGED <<backend, erased>>

Deleted(w) ==
    /\ Doing(w, "delete")
    /\ disk' = object
    /\ erased' = TRUE
    /\ writer' = Away(w)
    /\ UNCHANGED <<backend, object, ready>>

(* The process or the machine stops: a name that was not persisted may be  *)
(* lost, and one that was removed may come back.                           *)
Crash(power) ==
    /\ writer' = [w \in Writers |-> Rest]
    /\ object' = IF power THEN disk ELSE object
    /\ UNCHANGED <<backend, disk, ready, erased>>

BlobsInit ==
    /\ backend \in {"local", "s3"}
    /\ object \in {Nil} \cup {Object(whole, Nil) : whole \in BOOLEAN}
    /\ disk = object
    /\ writer = [w \in Writers |-> Rest]
    /\ ready = {} /\ erased = FALSE

BlobsNext ==
    \/ \E w \in Writers, m \in Media : Stage(w, m) \/ EnsureReady(w, m) \/ Delete(w, m)
    \/ \E w \in Writers :
            Link(w) \/ Persist(w) \/ HeadObject(w) \/ HeadAgain(w) \/ Deleted(w)
    \/ \E w \in Writers, answered \in BOOLEAN : PutObject(w, answered)
    \/ \E power \in BOOLEAN : Crash(power)

BlobsSpec == BlobsInit /\ [][BlobsNext]_bvars

-----------------------------------------------------------------------------
(* A returned reference is ready: its exact bytes are there and stay there *)
(* through a power loss, also when another writer linked them and had not  *)
(* persisted the name yet, and a completed deletion stays completed.       *)
PutReady ==
    /\ \A m \in ready :
        /\ Matches(m) /\ disk = object
    /\ erased => object = Nil /\ disk = Nil
=============================================================================
