------------------------------- MODULE Records -------------------------------
(***************************************************************************)
(* Layers of the record storage (adapters/storage/records.py): immutable   *)
(* Iceberg snapshots, each a set of Parquet data files and of positional   *)
(* delete files.  A change forks its base's snapshot, adds files to it and *)
(* shares every other file; nothing is rewritten.  A layer exists once its *)
(* files are sealed by checksum receipts and its root is written.          *)
(*                                                                         *)
(* A data file holds rows at positions, a row a key and a value; the value *)
(* decides the partition bucket.  A delete file is a set of positions.     *)
(* `want' is not state of the store: it holds, for every layer, the rows   *)
(* the call that wrote it promised, as a bag.                              *)
(***************************************************************************)
EXTENDS Naturals, Sequences, FiniteSets, Bags, SequencesExt

CONSTANTS
    Keys,          \* record_identity values, or the key column of a typed table
    Vals,          \* record payloads
    None,          \* a null record_json: the row removes its key
    Buckets,       \* partition buckets
    BucketOf,      \* [Vals -> Buckets]: partition_bucket of a record
    MaxLayers,     \* bound on layers ever written
    MaxBatch,      \* bound on the rows of a new layer's batch
    MaxDelta       \* bound on the rows of a batch applied to a base

ASSUME RecordsAssumption ==
    /\ None \notin Vals
    /\ BucketOf \in [Vals -> Buckets]
    /\ {MaxLayers, MaxBatch, MaxDelta} \subseteq Nat

VARIABLES
    data,      \* [file -> [position -> row]]: data files on disk
    dels,      \* [file -> set of positions]: delete files on disk
    sealed,    \* files with a checksum receipt
    layers,    \* [layer -> snapshot]: layers whose root is on disk
    want,      \* [layer -> bag of rows]: what each layer promised
    pending,   \* the write in progress, or None
    made       \* number of layers ever begun

vars == <<data, dels, sealed, layers, want, pending, made>>

Row == [key: Keys, val: Vals]
Change == [key: Keys, val: Vals \cup {None}]

(* A snapshot: what the pinned Iceberg metadata lists, and the root's      *)
(* recordCount.                                                            *)
Snapshot(kind, d, x, n) == [kind |-> kind, data |-> d, dels |-> x, count |-> n]

-----------------------------------------------------------------------------
(* Reading a snapshot.                                                     *)

Positions(s) == UNION {{f} \X DOMAIN data[f] : f \in s.data}

RowAt(p) == data[p[1]][p[2]]

(* iceberg_scan of exactly the pinned snapshot: rows of its data files at  *)
(* positions none of its delete files names.                               *)
Live(s) == Positions(s) \ UNION {dels[f] : f \in s.dels}

BagAt(P) == [r \in {RowAt(p) : p \in P} |-> Cardinality({p \in P : RowAt(p) = r})]

(* Rows read from elsewhere, written one after another.                    *)
Packed(P) == LET order == SetToSeq(P) IN [i \in 1..Cardinality(P) |-> RowAt(order[i])]

(* The files a layer's recovery needs: recovery_references enumerates the  *)
(* checksum tree, and availability checks each file it names.              *)
Recovery(s) == s.data \cup s.dels

Present == DOMAIN data \cup DOMAIN dels

Available(l) ==
    /\ l \in DOMAIN layers
    /\ Recovery(layers[l]) \subseteq Present \cap sealed

(* verify: every recovery file is there under its receipt, and the rows    *)
(* read are as many as the root's recordCount says.                        *)
Verifies(l) == Available(l) /\ Cardinality(Live(layers[l])) = layers[l].count

-----------------------------------------------------------------------------
(* Incoming rows.                                                          *)

Batches(R, max) == UNION {[1..n -> R] : n \in 0..max}

KeysOf(rows) == {rows[i].key : i \in DOMAIN rows}

(* _incoming refuses a repeated identity whatever the order of the rows.   *)
Distinct(rows) == \A i, j \in DOMAIN rows : rows[i].key = rows[j].key => i = j

Put(rows) == {i \in DOMAIN rows : rows[i].val # None}
Puts(rows) == [i \in Put(rows) |-> rows[i]]

Size(rows) == Cardinality(DOMAIN rows)

BagOf(rows) == [r \in Range(rows) |-> Cardinality({i \in DOMAIN rows : rows[i] = r})]

Without(bag, R) == [r \in BagToSet(bag) \ R |-> bag[r]]

NewLayer == made + 1
DataFile(l) == <<l, "data">>
DeleteFile(l) == <<l, "deletes">>

(* One commit on the forked snapshot `s': a delete file for the rows it    *)
(* removes or replaces, a data file for the rows it inserts.  No file of   *)
(* the base is touched.                                                    *)
Fork(s, gone, rows, count, promise) ==
    LET l == NewLayer
        d == IF DOMAIN rows = {} THEN {} ELSE {DataFile(l)}
        x == IF gone = {} THEN {} ELSE {DeleteFile(l)}
    IN  /\ pending = None /\ made < MaxLayers
        /\ made' = l
        /\ data' = [f \in DOMAIN data \cup d |-> IF f \in d THEN rows ELSE data[f]]
        /\ dels' = [f \in DOMAIN dels \cup x |-> IF f \in x THEN gone ELSE dels[f]]
        /\ pending' = [id |-> l, want |-> promise,
                       snap |-> Snapshot(s.kind, s.data \cup d, s.dels \cup x, count)]
        /\ UNCHANGED <<sealed, layers, want>>

-----------------------------------------------------------------------------
(* The writes.                                                             *)

Empty(kind) == Snapshot(kind, {}, {}, 0)

(* write_layer, write_batches and retain_batches: a new encoded layer.     *)
WriteBatches(rows) ==
    /\ Distinct(rows)
    /\ Fork(Empty("records"), {}, rows, Size(rows), BagOf(rows))

(* retain_relation: the same from a native relation, counted and checked   *)
(* by one query.                                                           *)
RetainRelation(rows) ==
    /\ Cardinality(KeysOf(rows)) = Size(rows)
    /\ Fork(Empty("records"), {}, rows, Size(rows), BagOf(rows))

(* write_table: typed rows, which have no identity.                        *)
WriteTable(rows) == Fork(Empty("table"), {}, rows, Size(rows), BagOf(rows))

(* write_batches on a base: the rows of the selected partitions are        *)
(* replaced by the incoming ones, which must lie in those partitions and   *)
(* must not hold an identity the base keeps elsewhere.                     *)
ReplacePartitions(l, parts, rows) ==
    LET s == layers[l]
        Selected(r) == BucketOf[r.val] \in parts
        gone == {p \in Live(s) : Selected(RowAt(p))}
        kept == Live(s) \ gone
    IN  /\ Available(l) /\ s.kind = "records"
        /\ parts # {} \/ DOMAIN rows # {}
        /\ Distinct(rows)
        /\ \A i \in DOMAIN rows : Selected(rows[i])
        /\ \A p \in kept : RowAt(p).key \notin KeysOf(rows)
        /\ Fork(s, gone, rows, Size(rows) + s.count - Cardinality(gone),
                Without(want[l], {r \in Row : Selected(r)}) (+) BagOf(rows))

(* What a delta promises: its rows in place of the rows holding its keys.  *)
Revised(bag, rows) ==
    Without(bag, {r \in Row : r.key \in KeysOf(rows)}) (+) BagOf(Puts(rows))

Held(s, rows) == {p \in Live(s) : RowAt(p).key \in KeysOf(rows)}

(* apply_changes on encoded records: a row replaces the one of its         *)
(* identity, a null one removes it.  The record count comes from the join  *)
(* of the incoming identities with the base.                               *)
ApplyChanges(l, rows) ==
    LET s == layers[l]
        puts == Puts(rows)
        held == {RowAt(p).key : p \in Live(s)}
        inserted == Cardinality(KeysOf(puts) \ held)
        removed == Cardinality((KeysOf(rows) \ KeysOf(puts)) \cap held)
    IN  /\ Available(l) /\ s.kind = "records"
        /\ DOMAIN rows # {} /\ Distinct(rows)
        /\ Fork(s, Held(s, rows), puts, s.count + inserted - removed, Revised(want[l], rows))

(* _apply_table_changes: all rows holding an incoming or removed key are   *)
(* deleted, then the incoming rows inserted, in one commit.                *)
ApplyTableChanges(l, rows) ==
    LET s == layers[l]
        puts == Puts(rows)
        gone == Held(s, rows)
    IN  /\ Available(l) /\ s.kind = "table"
        /\ Distinct(rows)
        /\ gone # {} \/ DOMAIN puts # {}
        /\ Fork(s, gone, puts, s.count + Size(puts) - Cardinality(gone), Revised(want[l], rows))

(* append_table: rows are only added; no rows leave the base as it is.     *)
AppendTable(l, rows) ==
    LET s == layers[l]
    IN  /\ Available(l) /\ s.kind = "table" /\ DOMAIN rows # {}
        /\ Fork(s, {}, rows, s.count + Size(rows), want[l] (+) BagOf(rows))

(* union_disjoint: the rows of `from' whose identity the base does not     *)
(* hold; without exclude_existing an overlap refuses.                      *)
Added(l, from) ==
    {p \in Live(layers[from]) : \A q \in Live(layers[l]) : RowAt(q).key # RowAt(p).key}

UnionDisjoint(l, from, exclude) ==
    LET s == layers[l]
        added == Added(l, from)
        rows == Packed(added)
    IN  /\ Available(l) /\ Available(from)
        /\ s.kind = "records" /\ layers[from].kind = "records"
        /\ exclude \/ added = Live(layers[from])
        /\ added # {}
        /\ Fork(s, {}, rows, s.count + Size(rows),
                want[l] (+) Without(want[from],
                    {r \in Row : \E k \in BagToSet(want[l]) : k.key = r.key}))

(* compact: the admitted rows repacked without delete files, checked row   *)
(* by row against the base before it is used.                              *)
Compact(l) ==
    LET s == layers[l]
        rows == Packed(Live(s))
    IN  /\ Available(l) /\ s.kind = "records"
        /\ Fork(Empty("records"), {}, rows, Size(rows), want[l])

-----------------------------------------------------------------------------
(* Publication of a layer, and its removal.                                *)

(* _pin: seal_snapshot gives every file of the snapshot a receipt, reusing *)
(* the receipts of shared files.                                           *)
Seal ==
    /\ pending # None
    /\ ~ Recovery(pending.snap) \subseteq sealed
    /\ sealed' = sealed \cup Recovery(pending.snap)
    /\ UNCHANGED <<data, dels, layers, want, pending, made>>

(* _pin: the root is written once, after the seal; it names the snapshot.  *)
Root ==
    /\ pending # None
    /\ Recovery(pending.snap) \subseteq sealed
    /\ layers' = [l \in DOMAIN layers \cup {pending.id} |->
                    IF l = pending.id THEN pending.snap ELSE layers[l]]
    /\ want' = [l \in DOMAIN layers' |-> IF l = pending.id THEN pending.want ELSE want[l]]
    /\ pending' = None
    /\ UNCHANGED <<data, dels, sealed, made>>

(* The process stops, or _pin refuses an oversized member: the files of    *)
(* the unfinished write stay, reachable from no root.                      *)
Stop ==
    /\ pending # None
    /\ pending' = None
    /\ UNCHANGED <<data, dels, sealed, layers, want, made>>

(* Variant: removal takes every file of the layer.                         *)
SharedNone(l) == {}

(* Removal by maintenance, which excludes writers: the files of the layer  *)
(* that no other layer's physical_references name, then its root.          *)
Shared(l) == UNION {Recovery(layers[k]) : k \in DOMAIN layers \ {l}}

Delete(l) ==
    LET gone == Recovery(layers[l]) \ Shared(l)
    IN  /\ pending = None /\ l \in DOMAIN layers
        /\ data' = [f \in DOMAIN data \ gone |-> data[f]]
        /\ dels' = [f \in DOMAIN dels \ gone |-> dels[f]]
        /\ sealed' = sealed \ gone
        /\ layers' = [k \in DOMAIN layers \ {l} |-> layers[k]]
        /\ want' = [k \in DOMAIN layers \ {l} |-> want[k]]
        /\ UNCHANGED <<pending, made>>

-----------------------------------------------------------------------------
Init ==
    /\ data = <<>> /\ dels = <<>> /\ sealed = {}
    /\ layers = <<>> /\ want = <<>>
    /\ pending = None
    /\ made = 0

Next ==
    \/ \E rows \in Batches(Row, MaxBatch) :
            WriteBatches(rows) \/ RetainRelation(rows) \/ WriteTable(rows)
    \/ \E l \in DOMAIN layers, rows \in Batches(Row, MaxDelta), parts \in SUBSET Buckets :
            ReplacePartitions(l, parts, rows)
    \/ \E l \in DOMAIN layers, rows \in Batches(Change, MaxDelta) :
            ApplyChanges(l, rows) \/ ApplyTableChanges(l, rows)
    \/ \E l \in DOMAIN layers, rows \in Batches(Row, MaxDelta) : AppendTable(l, rows)
    \/ \E l, from \in DOMAIN layers, exclude \in BOOLEAN : UnionDisjoint(l, from, exclude)
    \/ \E l \in DOMAIN layers : Compact(l)
    \/ Seal
    \/ Root
    \/ Stop
    \/ \E l \in DOMAIN layers : Delete(l)

Spec == Init /\ [][Next]_vars

-----------------------------------------------------------------------------
(* Properties.                                                             *)

(* An encoded layer never holds two rows of one identity: the writers      *)
(* check only the incoming rows and the identities they replace, and       *)
(* readers rely on the layer being globally unique.                        *)
IdentitiesUnique ==
    \A l \in DOMAIN layers : layers[l].kind = "records" =>
        \A p, q \in Live(layers[l]) : RowAt(p).key = RowAt(q).key => p = q

(* Every retained layer still reads as the rows its write promised, and    *)
(* its root's recordCount is their number, whatever was written on top of  *)
(* it, removed beside it or left behind by an interrupted write: positions *)
(* are deleted per file, a shared file keeps all its rows, and no identity *)
(* has two.                                                                *)
LayersExact ==
    /\ \A l \in DOMAIN layers : Verifies(l) /\ BagAt(Live(layers[l])) = want[l]
    /\ IdentitiesUnique
=============================================================================
