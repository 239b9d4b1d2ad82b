-------------------------- MODULE GenerationSource --------------------------
(***************************************************************************)
(* What a producer's generation must satisfy before one of its tables is   *)
(* admitted (adapters/generation_source.py, generation_receipts.py): the   *)
(* bounded metadata a publication pointer selects, the members it names,   *)
(* and the join of every subject row to one accepted ETL receipt.          *)
(*                                                                         *)
(* An artifact is its metadata: the root's declarations, the member        *)
(* manifest and what the publication's index repeats of them.  A member    *)
(* names its bytes by digest; GBytes gives the rows, columns and footer    *)
(* statistics of each digest.  A row is [key, val, part], where part is    *)
(* its value in the partition column.                                      *)
(***************************************************************************)
EXTENDS Naturals, Sequences, FiniteSets, SequencesExt

CONSTANTS
    Blank,       \* nothing: JSON null, an absent field, no value
    GBytes,      \* digest -> [columns, rows: a sequence, groups: a sequence]
    GTable,      \* the table to admit
    GLimit       \* max_bytes of the staging area, in rows

(* A row is in a row group, and has its value where statistics say that    *)
(* the group has only one (Parquet).                                       *)
ASSUME BytesAssumption ==
    \A d \in DOMAIN GBytes :
        /\ GBytes[d].rows \in Seq(ToSet(GBytes[d].rows))
        /\ GBytes[d].groups # <<>> => \A r \in ToSet(GBytes[d].rows) : \E g \in ToSet(GBytes[d].groups) :
               g.low = g.high /\ g.nulls = 0 => r.part = g.low

SumOf(ns) == LET sum[i \in 0..Len(ns)] == IF i = 0 THEN 0 ELSE sum[i - 1] + ns[i] IN sum[Len(ns)]

-----------------------------------------------------------------------------
(* Metadata, read before any payload.                                      *)

(* Members are listed, each with the digest of bytes.                      *)
Wellformed(a) ==
    /\ a.members \in Seq(ToSet(a.members))
    /\ \A m \in ToSet(a.members) : m.digest \in DOMAIN GBytes

(* Members of a table, in object-key order; the receipts are no table.     *)
MembersOf(a, t) == SelectSeq(a.members, LAMBDA m : m.table = t)
Grouped(a) == {m.table : m \in ToSet(a.members)}
Listing(a, t) == {i \in 1..Len(a.members) : a.members[i].table = t}

ReceiptKey == "receipts"
ReceiptMember(a) == a.members[CHOOSE i \in Listing(a, ReceiptKey) : TRUE]
Subjects(a) == IF a.policies = Blank THEN Grouped(a) ELSE Grouped(a) \ {ReceiptKey}

(* One shared receipt member exactly when receipts are declared.           *)
ReceiptMemberOK(a) ==
    a.policies # Blank => \E i \in 1..Len(a.members) : Listing(a, ReceiptKey) = {i} /\ a.members[i].part = Blank

(* What a publication must repeat of the pinned metadata: every table's    *)
(* description with its members, and the receipt selection.                *)
EntryOf(a, t) == [described |-> a.tables[t], members |-> MembersOf(a, t)]

IndexOf(a) ==
    [tables |-> [t \in DOMAIN a.tables |-> EntryOf(a, t)],
     receipts |-> IF a.policies = Blank THEN Blank
                  ELSE [member |-> ReceiptMember(a), policies |-> a.policies]]

(* A direct directory has no publication index to agree with.              *)
IndexAgrees(a) == a.index = Blank \/ a.index = IndexOf(a)

(* Both the metadata-only candidate and the staging read refuse a repeated *)
(* object key.                                                             *)
DistinctObjects(a) ==
    \A i, k \in 1..Len(a.members) :
        a.members[i].table = a.members[k].table /\ a.members[i].part = a.members[k].part => i = k

(* _key_rule: a declared identity with a versioned spelling over columns   *)
(* of the table, from the receipt policy when there is one.                *)
KeyRule(a) ==
    IF a.policies # Blank /\ GTable \in DOMAIN a.policies THEN a.policies[GTable].key
    ELSE a.tables[GTable].key

(* GenerationSource.selected                                               *)
Selectable(a) ==
    /\ GTable \in DOMAIN a.tables
    /\ DistinctObjects(a)
    /\ ReceiptMemberOK(a)
    /\ DOMAIN a.tables = Subjects(a)
    /\ IndexAgrees(a)
    /\ KeyRule(a) # Blank

-----------------------------------------------------------------------------
(* Staged members.                                                         *)

(* _stage: the declared sizes stay within the aggregate limit.             *)
FitsStaging(a) == SumOf([i \in 1..Len(a.members) |-> a.members[i].size]) <= GLimit

(* _check_partition: statistics of every row group prove agreement, and    *)
(* anything else has the column scanned.                                   *)
StatisticsProve(bytes, part) ==
    /\ bytes.groups # <<>>
    /\ \A g \in ToSet(bytes.groups) : g.low = part /\ g.high = part /\ g.nulls = 0

HoldsOnly(bytes, part) ==
    StatisticsProve(bytes, part) \/ \A r \in ToSet(bytes.rows) : r.part = part

(* A member's footer against its descriptor, and its rows against the      *)
(* partition its key spells.                                               *)
MemberSound(m, described) ==
    LET bytes == GBytes[m.digest] IN
    /\ Len(bytes.rows) = m.count
    /\ bytes.columns = described.columns
    /\ described.split => m.part # Blank /\ HoldsOnly(bytes, m.part)

(* _check_table: one member at the table's own key, or a split table whose *)
(* members have distinct bytes and counts that add up.                     *)
TableSound(a, t) ==
    LET listing == Listing(a, t)
        described == a.tables[t]
        counts == [i \in 1..Len(a.members) |-> IF i \in listing THEN a.members[i].count ELSE 0] IN
    /\ listing # {}
    /\ ~ described.split => \E i \in listing : listing = {i} /\ a.members[i].part = Blank
    /\ \A i, k \in listing : a.members[i].digest = a.members[k].digest => i = k
    /\ \A i \in listing : MemberSound(a.members[i], described)
    /\ SumOf(counts) = described.rows

(* The rows of a member, and the places of a table's rows.                 *)
RowsAt(a, i) == GBytes[a.members[i].digest].rows
Places(a, t) == UNION {{i} \X DOMAIN RowsAt(a, i) : i \in Listing(a, t)}
RecordAt(a, p) == RowsAt(a, p[1])[p[2]]

-----------------------------------------------------------------------------
(* verify_receipts: the disk-backed join.                                  *)

(* A receipt row's own content: policy, generation, digest, witnesses and  *)
(* processing fields (sound), and a subject exactly when accepted.         *)
ReceiptSound(a, r) ==
    /\ r.table \in DOMAIN a.policies /\ r.sound
    /\ (r.outcome = "accepted") = (r.version # Blank)
    /\ r.outcome = "accepted" => ~ a.policies[r.table].receiptOnly

(* The receipt identity is unique, and so is an accepted subject.          *)
Collides(held, r) ==
    \E h \in held :
        \/ h.id = r.id
        \/ h.outcome = "accepted" /\ r.outcome = "accepted" /\ h.table = r.table /\ h.key = r.key

ReceiptRows(a) == GBytes[ReceiptMember(a).digest].rows
HeldBy(rs, n) == {rs[k] : k \in 1..n}

(* Receipts are inserted one by one.                                       *)
Inserted(a) ==
    LET rs == ReceiptRows(a) IN
    \A n \in 1..Len(rs) : ReceiptSound(a, rs[n]) /\ ~ Collides(HeldBy(rs, n - 1), rs[n])

(* A subject takes the accepted receipt of its exact version, once.        *)
Unused == [ok |-> TRUE, used |-> {}]
AcceptedFor(held, t, row) == {h \in held : h.outcome = "accepted" /\ h.table = t /\ h.key = row.key /\ h.version = row}
MatchRow(m, found) == [ok |-> m.ok /\ found # {} /\ found \cap m.used = {}, used |-> m.used \cup found]

(* The rows of one member, and every member of a subject table.            *)
MatchMember(a, held, i, m) ==
    LET rows == RowsAt(a, i)
        after[n \in 0..Len(rows)] ==
            IF n = 0 THEN m ELSE MatchRow(after[n - 1], AcceptedFor(held, a.members[i].table, rows[n]))
    IN  after[Len(rows)]

Matched(a, held) ==
    LET after[i \in 0..Len(a.members)] ==
            IF i = 0 THEN Unused
            ELSE IF a.members[i].table = ReceiptKey THEN after[i - 1]
            ELSE MatchMember(a, held, i, after[i - 1])
    IN  after[Len(a.members)]

ReceiptsVerified(a) ==
    LET rs == ReceiptRows(a)
        held == HeldBy(rs, Len(rs)) IN
    /\ {t \in DOMAIN a.policies : ~ a.policies[t].receiptOnly} = DOMAIN a.tables
    /\ Len(rs) = ReceiptMember(a).count
    /\ Inserted(a)
    /\ Matched(a, held).ok
    /\ {h \in held : h.outcome = "accepted"} \subseteq Matched(a, held).used

(* stage_generation's semantic verifier.  complete stands for the root's   *)
(* kind, family and publication status.                                    *)
Verified(a) ==
    /\ FitsStaging(a)
    /\ a.complete
    /\ a.policies # Blank => ReceiptsVerified(a)
    /\ \A t \in DOMAIN a.tables : TableSound(a, t)

-----------------------------------------------------------------------------
(* What admission is meant to establish, without the order of the checks:  *)
(* the rows of each table are declared, lie where their keys say, and      *)
(* correspond one to one to the accepted receipts.                         *)
ReceiptsExact(a) ==
    LET rs == ReceiptRows(a)
        accepted == {i \in DOMAIN rs : rs[i].outcome = "accepted"}
        About(r, t, row) == r.table = t /\ r.key = row.key /\ r.version = row
    IN  /\ \A t \in DOMAIN a.tables : \A i \in Places(a, t) :
              Cardinality({k \in accepted : About(rs[k], t, RecordAt(a, i))}) = 1
        /\ \A k \in accepted : \E t \in DOMAIN a.tables :
              Cardinality({i \in Places(a, t) : About(rs[k], t, RecordAt(a, i))}) = 1
        /\ \A k \in DOMAIN rs : rs[k].sound

Trustworthy(a) ==
    /\ a.complete /\ IndexAgrees(a)
    /\ \A t \in DOMAIN a.tables :
          /\ Cardinality(Places(a, t)) = a.tables[t].rows
          /\ \A i \in Places(a, t) : a.members[i[1]].part \in {Blank, RecordAt(a, i).part}
    /\ a.policies # Blank => ReceiptsExact(a)
=============================================================================
