------------------------------ MODULE MCVerify ------------------------------
(***************************************************************************)
(* Small catalogs: up to seven items in five buckets, sealed as a build    *)
(* seals them, and the same artifacts with one thing changed.              *)
(***************************************************************************)
EXTENDS CatalogVerify

MCBucketOf(id) == (id * 2) % 5
MCInstalled == [producer |-> 1, schemas |-> 1, policy |-> 1, inputs |-> 1, partitions |-> 1]

CatalogRow(id, disposition, reason, joins) ==
    [id |-> id, document |-> id, disposition |-> disposition, reason |-> reason,
     fields |-> <<2, 1>>, joins |-> joins, notes |-> <<1>>, family |-> <<1>>, sound |-> TRUE]

On(join, outcome) == [join |-> join, outcome |-> outcome]

First == CatalogRow(1, "selected", 0, <<On(2, "matched"), On(1, "matched")>>)
Second == CatalogRow(2, "excluded", 1, <<On(1, "no-match")>>)
Third == CatalogRow(3, "excluded", 2, <<On(1, "not-stated"), On(2, "no-match")>>)
Fourth == CatalogRow(4, "unsupported", 1, <<On(2, "not-stated")>>)
Fifth == CatalogRow(5, "selected", 0, <<>>)
Sixth == CatalogRow(6, "excluded", 1, <<On(1, "matched")>>)

Full == Seal({First, Second, Third, Fourth, Fifth, Sixth}, {0, 2}, 95)
Narrow == Seal({First, Second, Fifth, Sixth, CatalogRow(7, "excluded", 2, <<On(2, "no-match")>>)}, {0}, 95)
Short == Seal({First, Second, Third, Sixth}, {}, 9)
Empty == Seal({}, {}, 5)

Bad(a, i, row) == [a EXCEPT !.payload[a.receipt.partitions[1].ref].rows[i] = row]
FirstOf(a) == a.payload[a.receipt.partitions[1].ref].rows[1]

\* One thing changed in the rows or the descriptors.
ChangedRows(a) ==
    LET ps == a.receipt.partitions
        one == ps[1].ref
        two == ps[2].ref IN
    {Bad(a, 1, [FirstOf(a) EXCEPT !.sound = FALSE]),
     Bad(a, 1, [FirstOf(a) EXCEPT !.fields = <<1, 1>>]),
     Bad(a, 1, [FirstOf(a) EXCEPT !.family = <<>>]),
     Bad(a, 1, [FirstOf(a) EXCEPT !.joins = <<On(1, "matched"), On(1, "no-match")>>]),
     Bad(a, 1, [FirstOf(a) EXCEPT !.joins = <<On(1, "no-match"), On(7, "matched"), On(8, "matched"), On(9, "matched")>>]),
     Bad(a, 1, [FirstOf(a) EXCEPT !.disposition = "selected", !.reason = 0]),
     Bad(a, 1, [FirstOf(a) EXCEPT !.document = 9]),
     [a EXCEPT !.payload[one].rows = <<>>],
     [a EXCEPT !.payload[one].rows = <<>>, !.payload[one].count = 0, !.receipt.partitions[1].count = 0],
     [a EXCEPT !.payload[one].rows = Append(@, FirstOf(a)), !.payload[one].count = @ + 1,
               !.receipt.partitions[1].count = @ + 1, !.receipt.itemCount = @ + 1],
     [a EXCEPT !.payload[one].rows = a.payload[two].rows, !.payload[two].rows = a.payload[one].rows],
     [a EXCEPT !.receipt.partitions = Reverse(@)],
     [a EXCEPT !.receipt.partitions = Tail(@)]}

\* One thing changed in what the receipt says of the rows.
ChangedReceipt(a) ==
    {[a EXCEPT !.receipt.dispositions = [@ EXCEPT !["selected"] = @ + 1]],
     [a EXCEPT !.receipt.dispositions = [@ EXCEPT !["selected"] = @ + 1, !["unsupported"] = @ - 1]],
     [a EXCEPT !.receipt.reasons[2].code = 9],
     [a EXCEPT !.receipt.reasons[1].count = @ - 1, !.receipt.reasons[2].count = @ + 1],
     [a EXCEPT !.receipt.coverage[1].matched = @ + 1],
     [a EXCEPT !.receipt.coverage[1].nullResult = @ + 1],
     [a EXCEPT !.receipt.coverage = Tail(@)],
     [a EXCEPT !.receipt.digests["selected"] = SectionOf(0, <<>>)],
     [a EXCEPT !.receipt.digests["renditions"] = SectionOf(0, <<>>)],
     [a EXCEPT !.receipt.published = @ + 1],
     [a EXCEPT !.receipt.reused = @ + 1],
     [a EXCEPT !.identity = [@ EXCEPT !.policy = 2]]}

\* A join that no row matches, and more joins than the limit.
Unmatched == Seal({CatalogRow(k, "selected", 0, <<On(1, "no-match")>>) : k \in 1..4}, {}, 95)
Overjoined == Seal({CatalogRow(k, "selected", 0, <<On(k, "matched")>>) : k \in 1..4}, {}, 95)

MCArtifacts == {Full, Narrow, Short, Empty, Unmatched, Overjoined} \cup ChangedRows(Narrow) \cup ChangedRows(Short) \cup ChangedReceipt(Short)
=============================================================================
