-------------------------- MODULE CatalogPolicies --------------------------
(***************************************************************************)
(* The catalog policies: the Regulations.gov policy over documents,        *)
(* dockets and comments joined with Federal Register records, the Federal  *)
(* Register policy, and the policy for records a caller supplies.  A job   *)
(* is a saved policy member and the source rows in order of their ids.     *)
(* The policy is read back from its member, indexes and samples the rows   *)
(* it joins, then interprets one row at a time into a catalog item, which  *)
(* the builder checks against the row schema before it stages it.          *)
(*                                                                         *)
(*   policy   [kind, docket, comment, register, agencies, sample, max]     *)
(*            which inputs are declared, the agencies it names, the sample *)
(*            limit of a document type and the budget of selected items    *)
(*   index    what the pre-pass staged: unambiguous Federal Register       *)
(*            numbers, dockets, documents, drawn ids and their details     *)
(***************************************************************************)
EXTENDS CatalogItems, FiniteSetsExt

CONSTANTS Jobs,         \* [member, rows, register] to build from
          Fixtures,     \* ids with a publisher's test prefix
          OrderHash,    \* the md5 order of ids under the sample's seed
          Withholding,  \* restriction reasons the policy reads
          Unknown,      \* the placeholder of a version no source states
          Template(_)   \* the URL a policy writes for an id that has no link

VARIABLES job, pc, policy, index, items, selectedCount

policyVars == <<job, pc, policy, index, items, selectedCount>>

(***************************************************************************)
(* The saved policy member.                                                *)
(***************************************************************************)
DeclaredInputs(p) ==
    CASE p.kind = "regulations" -> <<"documents">> \o (IF p.docket THEN <<"dockets">> ELSE <<>>)
                                     \o (IF p.comment THEN <<"comments">> ELSE <<>>)
      [] p.kind = "register" -> <<"register-1.1", "register-1.2">>
      [] OTHER -> <<"supplied">>

Member(p) ==
    [kind |-> p.kind, universe |-> DeclaredInputs(p), docket |-> p.docket,
     comment |-> p.comment, register |-> p.register, agencies |-> p.agencies,
     sample |-> p.sample, max |-> p.max, rules |-> "installed"]

\* What the fields of a member rebuild, before it is compared.
Rebuilt(m) ==
    IF m.kind # "regulations"
    THEN [kind |-> m.kind, docket |-> FALSE, comment |-> FALSE, register |-> FALSE,
          agencies |-> {}, sample |-> Null, max |-> Null]
    ELSE [kind |-> m.kind, docket |-> m.docket, comment |-> m.comment,
          register |-> m.register, agencies |-> m.agencies, sample |-> m.sample, max |-> m.max]

FromMember(m) ==
    {p \in {Rebuilt(m)} : m.universe # <<>> /\ m = Member(p)}

----------------------------------------------------------------------------
(***************************************************************************)
(* The pre-pass: indexes and the stratified sample.                        *)
(***************************************************************************)
\* A number that several records carry cannot be attributed, so the index
\* has none of them.
RegisterIndex(p, register) ==
    IF ~p.register THEN {}
    ELSE {r \in register : r.number \in Texts
                         /\ \A q \in register : q.number = r.number => q = r}

OfScope(rows, scope) == {r \in ToSet(rows) : r.scope = scope}

OnlyOf(values, default) == IF values = {} THEN default ELSE CHOOSE v \in values : TRUE

\* The partition and the stratum a document is sampled in.
Stratum(r) ==
    LET date == OnlyOf(InstantDate(r.posted).value, <<0, 0>>) IN
    <<OnlyOf(TextValue(r.type).value, 0), OnlyOf(TextValue(r.agency).value, 0), date[1]>>

SampleKey(r) == Stratum(r) \o <<OrderHash[r.id], r.id>>

LexLess(a, b) == \E i \in DOMAIN a : a[i] < b[i] /\ \A j \in 1..(i - 1) : a[j] = b[j]

SampleOrder(documents) ==
    SetToSortSeq({r \in documents : ~r.withdrawn},
                 LAMBDA a, b : LexLess(SampleKey(a), SampleKey(b)))

\* rank / sqrt(size), compared without the root; ties by hash, then by id.
Ahead(a, b) ==
    LET x == a.rank * a.rank * b.size
        y == b.rank * b.rank * a.size
    IN x < y \/ (x = y /\ LexLess(<<a.hash, a.id>>, <<b.hash, b.id>>))

StratumSize(order, group) == Cardinality({i \in DOMAIN order : Stratum(order[i]) = group})

Retain(limit, chosen, candidate) ==
    LET all == SetToSortSeq(ToSet(chosen) \cup {candidate}, Ahead) IN
    IF Len(all) > limit THEN SubSeq(all, 1, limit) ELSE all

\* Variant: a new partition does not start its ranks again.
SampleStepContinued(order, limit, acc, r) ==
    LET group == Stratum(r)
        over  == acc.group # <<>> /\ acc.group[1] # group[1]
        rank  == IF group = acc.group \/ over THEN acc.rank + 1 ELSE 1
        me    == [id |-> r.id, hash |-> OrderHash[r.id], rank |-> rank,
                  size |-> StratumSize(order, group), group |-> group]
    IN [group |-> group, rank |-> rank,
        chosen |-> Retain(limit, IF over THEN <<>> ELSE acc.chosen, me),
        drawn |-> acc.drawn \cup (IF over THEN {c.id : c \in ToSet(acc.chosen)} ELSE {}),
        details |-> acc.details \cup {me}]

\* One document of the ordered pass: a new partition puts the one before it
\* away, a new stratum starts its ranks again.
SampleStep(order, limit, acc, r) ==
    LET group == Stratum(r)
        over  == acc.group # <<>> /\ acc.group[1] # group[1]
        rank  == IF group = acc.group THEN acc.rank + 1 ELSE 1
        me    == [id |-> r.id, hash |-> OrderHash[r.id], rank |-> rank,
                  size |-> StratumSize(order, group), group |-> group]
    IN [group |-> group, rank |-> rank,
        chosen |-> Retain(limit, IF over THEN <<>> ELSE acc.chosen, me),
        drawn |-> acc.drawn \cup (IF over THEN {c.id : c \in ToSet(acc.chosen)} ELSE {}),
        details |-> acc.details \cup {me}]

DrawSample(documents, limit) ==
    LET order == SampleOrder(documents)
        start == [group |-> <<>>, rank |-> 0, chosen |-> <<>>, drawn |-> {}, details |-> {}]
        end   == FoldLeft(LAMBDA acc, r : SampleStep(order, limit, acc, r), start, order)
    IN [drawn |-> end.drawn \cup {c.id : c \in ToSet(end.chosen)}, details |-> end.details]

Prepass(p, rows, register) ==
    LET documents == OfScope(rows, "documents")
        sample == IF p.sample = Null THEN [drawn |-> {}, details |-> {}]
                  ELSE DrawSample(documents, p.sample)
    IN [register |-> RegisterIndex(p, register),
        dockets |-> OfScope(rows, "dockets"),
        documents |-> IF p.sample # Null \/ p.comment THEN documents ELSE {},
        drawn |-> sample.drawn, details |-> sample.details]

----------------------------------------------------------------------------
(***************************************************************************)
(* Renditions.                                                             *)
(***************************************************************************)
\* A locator that is no URL must be the digest of an object of known size.
Unsupported(r) ==
    /\ r.locator # Null
    /\ r.locator \notin Urls
    /\ ~(r.locator \in Objects /\ r.sha = r.locator /\ r.size \in Nat)

Candidate(family, r) == [id |-> <<family, r.id>>, locator |-> r.locator]

ById(cs) == SetToSortSeq(cs, LAMBDA a, b : a.id[2] < b.id[2])

\* The first rendition that claims a locator.
FileOffers(rs) ==
    ById({Candidate("file", rs[i]) : i \in
            {k \in DOMAIN rs : /\ rs[k].locator # Null
                               /\ \A j \in 1..(k - 1) : rs[j].locator # rs[k].locator}})

RegisterOrder == <<"xml", "body", "html", "pdf">>

RegisterOffers(rs) ==
    [f \in ToSet(RegisterOrder) |->
       ById({Candidate("register", r) : r \in {q \in ToSet(rs) : q.field = f /\ q.locator \in Urls}})]

RegisterPreference(rs) ==
    LET offers == RegisterOffers(rs)
        p == Preferred(RegisterOrder, offers)
    IN [families |-> p.families, chosen |-> p.chosen,
        candidates |-> IF p.chosen = {} THEN <<>> ELSE offers[OnlyOf(p.chosen, Null)]]

\* A document's own files before at most one Federal Register rendition.
DocumentPreference(rs, matched) ==
    LET fed == RegisterPreference(OnlyOf({m.renditions : m \in matched}, <<>>))
        offers == [file |-> FileOffers(rs), register |-> SubSeq(fed.candidates, 1, Min({1, Len(fed.candidates)}))]
        p == Preferred(<<"file", "register">>, offers)
    IN [families |-> [p.families EXCEPT ![2].offered =
                        FlattenSeq([i \in DOMAIN fed.families |-> fed.families[i].offered])],
        chosen |-> p.chosen,
        candidates |-> IF p.chosen = {} THEN <<>> ELSE offers[OnlyOf(p.chosen, Null)]]

\* The files of a comment before its record; a docket has only its record.
KindPreference(rs, link, files) ==
    LET own == IF files THEN FileOffers(rs) ELSE <<>>
        record == IF link \in Urls /\ \A i \in DOMAIN own : own[i].locator # link
                  THEN <<[id |-> <<"record", 0>>, locator |-> link]>> ELSE <<>>
        offers == [file |-> own, record |-> record]
        p == Preferred(IF files THEN <<"file", "record">> ELSE <<"record">>, offers)
    IN [families |-> p.families, chosen |-> p.chosen,
        candidates |-> IF p.chosen = {} THEN <<>> ELSE offers[OnlyOf(p.chosen, Null)]]

----------------------------------------------------------------------------
(***************************************************************************)
(* Normalization.                                                          *)
(***************************************************************************)
Agency(p, raw) ==
    LET a == TextValue(raw) IN
    IF a.value \subseteq p.agencies THEN a ELSE [value |-> {}, rejected |-> a.value]

\* A missing link is written from the policy's template, a malformed one is not.
SourceUrl(r) ==
    IF r.link = Null THEN Given({Template(r.id)}) ELSE HttpUrlValue(r.link)

Fields(f) == [name \in NormalizedFields |-> NormalizationField(f[name])]

RowFields(p, r, docketIds, rins, closes) ==
    Fields([title |-> TextValue(r.title), agencies |-> Agency(p, r.agency),
            documentType |-> TextValue(r.type),
            publicationDate |-> IF r.scope = "dockets" THEN Absent ELSE InstantDate(r.posted),
            lastUpdatedDate |-> InstantDate(r.modified),
            docketIds |-> docketIds, rins |-> rins, commentCloseDate |-> closes,
            language |-> Given({"en"}), sourceUrl |-> SourceUrl(r)])

RinsOf(rs) == UNION {r.rins : r \in rs}

DocumentFields(p, r, docket, register) ==
    RowFields(p, r, TextValue(r.docket),
              NormalizedRins(r.rins \cup RinsOf(docket) \cup RinsOf(register)), InstantDate(r.closes))

DocketFields(p, r) ==
    RowFields(p, r, Given({r.id}), NormalizedRins(r.rins), Absent)

\* The regulation numbers of a comment are those of its docket alone.
CommentFields(p, r, docket) ==
    RowFields(p, r, TextValue(r.docket), NormalizedRins(RinsOf(docket)), Absent)

RegisterFields(r) ==
    Fields([title |-> TextValue(r.title), agencies |-> Strings(r.agencies),
            documentType |-> TextValue(r.type), publicationDate |-> DateValue(r.posted),
            lastUpdatedDate |-> Absent, docketIds |-> Strings(r.dockets),
            rins |-> NormalizedRins(r.rins), commentCloseDate |-> DateValue(r.closes),
            language |-> Given({"en"}), sourceUrl |-> HttpUrlValue(r.link)])

SuppliedFields(r) ==
    Fields([[n \in NormalizedFields |-> Absent] EXCEPT !.title = Given({r.title} \ {Null})])

Complete(fields, required) == \A f \in required : fields[f].value # {}

DocumentRequired == {"title", "agencies", "documentType", "publicationDate", "sourceUrl"}
CommentRequired == {"agencies", "documentType", "publicationDate", "sourceUrl"}
DocketRequired == {"title", "agencies", "lastUpdatedDate", "sourceUrl"}

----------------------------------------------------------------------------
(***************************************************************************)
(* Selection.                                                              *)
(***************************************************************************)
FixtureCheck(r) ==
    Check("publisher-test-fixture", r.id \notin Fixtures, "excluded", "source.publisher-test-fixture")

WithdrawalCheck(r) ==
    Check("source-withdrawal", ~r.withdrawn, "deleted", "source.withdrawn-after-publication")

MetadataCheck(fields, required) ==
    Check("required-metadata", Complete(fields, required), "failed", "source.normalized-field-missing")

\* What the publisher declared decides between withheld, unread and missing.
RenditionCheck(r, candidates) ==
    Check("candidate-rendition", candidates # <<>>,
          IF r.restrict \in Withholding \cup {Null} THEN "unavailable" ELSE "failed",
          IF r.restrict = Null THEN "source.no-candidate-rendition"
          ELSE IF r.restrict \in Withholding THEN "source.publisher-withheld"
          ELSE "source.restrict-reason-unread")

BudgetLeft(p, count) == p.max = Null \/ count < p.max

BudgetCheck(p, count) ==
    Check("selected-item-budget", BudgetLeft(p, count), "excluded", "policy.item-budget-exhausted")

DocumentSelection(p, r, fields, candidates, drawn, count) ==
    Decided(<<FixtureCheck(r), WithdrawalCheck(r)>>
            \o (IF p.sample = Null THEN <<>>
                ELSE <<Check("sample-draw", r.id \in drawn, "excluded", "policy.sample-not-drawn")>>)
            \o <<MetadataCheck(fields, DocumentRequired), RenditionCheck(r, candidates)>>
            \o (IF p.max = Null THEN <<>> ELSE <<BudgetCheck(p, count)>>))

\* Comments and dockets record the budget check whether or not it is set.
KindSelection(p, r, fields, required, candidates, count) ==
    Decided(<<FixtureCheck(r), WithdrawalCheck(r), MetadataCheck(fields, required),
              RenditionCheck(r, candidates), BudgetCheck(p, count)>>)

RegisterSelection(fields, candidates) ==
    Decided(<<MetadataCheck(fields, DocumentRequired),
              Check("candidate-rendition", candidates # <<>>, "unavailable",
                    "source.no-candidate-rendition")>>)

SamplingResult(p, r, ix) ==
    IF p.sample = Null THEN SampledAll(~r.withdrawn)
    ELSE LET d == {x \in ix.details : x.id = r.id} IN
         [admitted |-> ~r.withdrawn,
          partition |-> IF r.withdrawn THEN Null ELSE OnlyOf(d, Null).group[1],
          stratum |-> IF r.withdrawn THEN <<>> ELSE Tail(OnlyOf(d, Null).group),
          rank |-> IF r.withdrawn THEN Null ELSE OnlyOf(d, Null).rank,
          size |-> IF r.withdrawn THEN Null ELSE OnlyOf(d, Null).size,
          method |-> "rank-over-sqrt-stratum-size", limit |-> p.sample,
          drawn |-> ~r.withdrawn /\ r.id \in ix.drawn]

----------------------------------------------------------------------------
(***************************************************************************)
(* One row becomes one item.                                               *)
(***************************************************************************)
Matching(rs, ids) == {r \in rs : r.id \in ids}

\* Only document and Federal Register rows are read for observed topics; the items
\* of dockets, comments and supplied records have none.
TopicScopes == {"documents", "register"}

TopicsOf(r) == IF r.scope \in TopicScopes THEN ObservedTopics(r.topics) ELSE <<>>

MakeItem(r, version, fields, joins, renditions, candidates, sampling, selection, facts, notes) ==
    [id |-> r.id, version |-> version, fields |-> fields, joins |-> joins,
     renditions |-> renditions, candidates |-> candidates, sampling |-> sampling,
     selection |-> selection, topics |-> TopicsOf(r),
     facts |-> facts, notes |-> notes]

DocumentVersion(r) ==
    LET raw == IF r.modified # Null THEN r.modified ELSE r.posted IN
    IF raw \in {Null, Odd} THEN Unknown ELSE raw

Withheld(r, pref) == IF r.withdrawn THEN [pref EXCEPT !.chosen = {}, !.candidates = <<>>] ELSE pref

FactsOf(r, others) == <<r.scope>> \o others

DocumentItem(p, ix, r, count) ==
    LET docketId == TextValue(r.docket).value
        number == TextValue(r.fr).value
        docket == Matching(ix.dockets, docketId)
        filed == {m \in ix.register : m.number \in number}
        fields == DocumentFields(p, r, docket, filed)
        pref == Withheld(r, DocumentPreference(r.renditions, filed))
    IN MakeItem(r, DocumentVersion(r), fields,
         <<JoinResult("document-docket", docketId, {d.id : d \in docket}),
           JoinResult("document-federal-register", number, {m.id : m \in filed})>>,
         pref, pref.candidates, SamplingResult(p, r, ix),
         DocumentSelection(p, r, fields, pref.candidates, ix.drawn, count),
         FactsOf(r, (IF docket = {} THEN <<>> ELSE <<"dockets">>)
                    \o (IF filed = {} THEN <<>> ELSE <<"register">>)),
         {<<"unparseable-number", v>> : v \in TextValue(r.fr).rejected}
           \cup {<<"cross-file-discard", d>> : d \in r.discards})

DocketItem(p, r, count) ==
    LET fields == DocketFields(p, r)
        pref == KindPreference(r.renditions, r.link, FALSE)
    IN MakeItem(r, IF r.modified \in {Null, Odd} THEN Unknown ELSE r.modified, fields, <<>>,
         pref, pref.candidates, SampledAll(TRUE),
         KindSelection(p, [r EXCEPT !.withdrawn = FALSE], fields, DocketRequired, pref.candidates, count),
         <<r.scope>>, {})

CommentItem(p, ix, r, count) ==
    LET docketId == TextValue(r.docket).value
        parentId == TextValue(r.on).value
        docket == Matching(ix.dockets, docketId)
        parent == Matching(ix.documents, parentId)
        fields == CommentFields(p, r, docket)
        pref == Withheld(r, KindPreference(r.renditions, r.link, TRUE))
    IN MakeItem(r, IF r.modified = Null THEN r.posted ELSE r.modified, fields,
         <<JoinResult("comment-docket", docketId, {d.id : d \in docket}),
           JoinResult("comment-document", parentId, {d.id : d \in parent})>>,
         pref, pref.candidates, SampledAll(~r.withdrawn),
         KindSelection(p, r, fields, CommentRequired, pref.candidates, count),
         FactsOf(r, (IF docket = {} THEN <<>> ELSE <<"dockets">>)
                    \o (IF parent = {} THEN <<>> ELSE <<"documents">>)),
         {<<"version", IF r.modified = Null THEN "posted" ELSE "modified">>}
           \cup {<<"unparseable-parent", v>> : v \in TextValue(r.on).rejected})

\* The version of a comment must be stated; a document falls back.
VersionMissing(r) ==
    \/ r.modified = Odd
    \/ r.modified = Null /\ r.posted \in {Null, Odd}

RegisterItem(r) ==
    LET fields == RegisterFields(r)
        pref == RegisterPreference(r.renditions)
    IN MakeItem(r, IF r.posted = Null THEN Unknown ELSE r.posted, fields, <<>>, pref,
         pref.candidates, SampledAll(TRUE), RegisterSelection(fields, pref.candidates),
         <<r.scope>>, {})

SuppliedItem(r) ==
    LET candidates == [i \in DOMAIN r.renditions |-> Candidate("supplied", r.renditions[i])]
        pref == [families |-> <<[id |-> "supplied",
                                 offered |-> [i \in DOMAIN candidates |-> candidates[i].id]]>>,
                 chosen |-> IF candidates = <<>> THEN {} ELSE {"supplied"},
                 candidates |-> candidates]
    IN MakeItem(r, r.modified, SuppliedFields(r), <<>>, pref, candidates, SampledAll(TRUE),
         Decided(<<Check("supplied-candidates", candidates # <<>>, "unavailable",
                         "supplied.no-candidate")>>), <<r.scope>>, {<<"input-origin", "caller">>})

\* Rows whose renditions are read and whose locator no policy supports.
RefusedRow(r) ==
    \/ r.scope \in {"documents", "comments"} /\ \E i \in DOMAIN r.renditions : Unsupported(r.renditions[i])
    \/ r.scope = "comments" /\ VersionMissing(r)

ItemFromRow(p, ix, r, count) ==
    CASE r.scope = "documents" -> DocumentItem(p, ix, r, count)
      [] r.scope = "dockets"   -> DocketItem(p, r, count)
      [] r.scope = "comments"  -> CommentItem(p, ix, r, count)
      [] r.scope = "register"  -> RegisterItem(r)
      [] OTHER                 -> SuppliedItem(r)

----------------------------------------------------------------------------
(***************************************************************************)
(* The build as the policy drives it.                                      *)
(***************************************************************************)
EmptyIndex == [register |-> {}, dockets |-> {}, documents |-> {}, drawn |-> {}, details |-> {}]

PolicyInit ==
    /\ job \in Jobs
    /\ pc = "member"
    /\ policy = Null
    /\ index = EmptyIndex
    /\ items = <<>>
    /\ selectedCount = 0

ReadMember ==
    /\ pc = "member"
    /\ LET read == FromMember(job.member) IN
       IF read = {} THEN pc' = "no policy" /\ UNCHANGED policy
       ELSE pc' = "fresh" /\ policy' = OnlyOf(read, Null)
    /\ UNCHANGED <<job, index, items, selectedCount>>

Prepare ==
    /\ pc = "fresh"
    /\ index' = IF policy.kind = "regulations" THEN Prepass(policy, job.rows, job.register)
                ELSE EmptyIndex
    /\ pc' = "items"
    /\ UNCHANGED <<job, policy, items, selectedCount>>

Selects(item) == IF item.selection.disposition = "selected" THEN 1 ELSE 0

Interpret ==
    /\ pc = "items"
    /\ Len(items) < Len(job.rows)
    /\ LET r == job.rows[Len(items) + 1]
           item == ItemFromRow(policy, index, r, selectedCount)
       IN IF RefusedRow(r) \/ ~ItemValid(item)
          THEN pc' = "refused" /\ UNCHANGED <<items, selectedCount>>
          ELSE /\ items' = Append(items, item)
               /\ selectedCount' = selectedCount + Selects(item)
               /\ UNCHANGED pc
    /\ UNCHANGED <<job, policy, index>>

Finish ==
    /\ pc = "items"
    /\ Len(items) = Len(job.rows)
    /\ pc' = "done"
    /\ UNCHANGED <<job, policy, index, items, selectedCount>>

\* A policy for supplied records is constructed, not read from a member; it
\* enters ReadMember with the member it will write.
PolicyNext == ReadMember \/ Prepare \/ Interpret \/ Finish

PolicySpec == PolicyInit /\ [][PolicyNext]_policyVars

----------------------------------------------------------------------------
(***************************************************************************)
(* Properties.                                                             *)
(***************************************************************************)
Cited(r) == {m \in job.register : policy.register /\ r.fr \in Texts /\ m.number = r.fr}

\* Federal Register records a document may be attributed to.
Attributed(r) == IF Cardinality(Cited(r)) = 1 THEN Cited(r) ELSE {}

RankIn(frame, r) ==
    Cardinality({q \in frame : /\ Stratum(q) = Stratum(r)
                               /\ \/ OrderHash[q.id] < OrderHash[r.id]
                                  \/ OrderHash[q.id] = OrderHash[r.id] /\ q.id <= r.id})

Standing(frame, r) ==
    [id |-> r.id, hash |-> OrderHash[r.id], rank |-> RankIn(frame, r),
     size |-> Cardinality({q \in frame : Stratum(q) = Stratum(r)})]

\* The documents that stand among the first of their type.
ReferenceDraw(frame, limit) ==
    {r.id : r \in {q \in frame :
        Cardinality({o \in frame : /\ Stratum(o)[1] = Stratum(q)[1]
                                   /\ Ahead(Standing(frame, o), Standing(frame, q))}) < limit}}

Frame == {r \in ToSet(job.rows) : r.scope = "documents" /\ ~r.withdrawn}

\* The bounded ordered passes draw, for each document type, exactly the
\* documents with the smallest rank over the root of their stratum's size,
\* whatever the order in which strata and types follow each other.
SampleExact ==
    (pc = "items" /\ policy.sample # Null) =>
        /\ index.drawn = ReferenceDraw(Frame, policy.sample)
        /\ {d.id : d \in index.details} = {r.id : r \in Frame}

Located(rs) == \E i \in DOMAIN rs : rs[i].locator # Null

Fetchable(r) ==
    CASE r.scope = "documents" ->
            \/ Located(r.renditions)
            \/ \E m \in Attributed(r) : \E i \in DOMAIN m.renditions :
                  m.renditions[i].locator \in Urls /\ m.renditions[i].field \in ToSet(RegisterOrder)
      [] r.scope = "dockets" -> r.link \in Urls
      [] OTHER -> Located(r.renditions) \/ r.link \in Urls

Described(r) ==
    /\ r.agency \in policy.agencies
    /\ r.link \in Urls \cup {Null}
    /\ r.scope # "comments" => r.title \in Texts
    /\ r.scope # "dockets" => r.type \in Texts /\ r.posted \in Instants
    /\ r.scope = "dockets" => r.modified \in Instants

Eligible(r) ==
    /\ r.id \notin Fixtures
    /\ r.scope # "dockets" => ~r.withdrawn
    /\ (r.scope = "documents" /\ policy.sample # Null)
         => r.id \in ReferenceDraw(Frame, policy.sample)
    /\ Described(r)
    /\ Fetchable(r)

\* A Regulations.gov build selects exactly the first eligible rows that its
\* budget allows: a row that fails another check uses none of the budget,
\* and every selected row has something to fetch.
SelectionExact ==
    (policy # Null /\ policy.kind = "regulations") =>
        \A i \in DOMAIN items :
            (items[i].selection.disposition = "selected")
            = (/\ Eligible(job.rows[i])
               /\ \/ policy.max = Null
                  \/ Cardinality({j \in 1..(i - 1) : Eligible(job.rows[j])}) < policy.max)

\* A join is matched exactly when one record carries the stated key: a number
\* several records share is never attributed to one of them, and the reader
\* can tell a key that was not stated from one that found nothing.
JoinsExact ==
    \A i \in DOMAIN items :
        LET r == job.rows[i]
            stated(raw, ids) == IF raw \notin Texts THEN <<"not-stated", {}>>
                                ELSE IF ids = {} THEN <<"no-match", {}>> ELSE <<"matched", ids>>
            scoped(raw, scope) == {q.id : q \in {x \in OfScope(job.rows, scope) : x.id = raw}}
            found == [k \in DOMAIN items[i].joins |-> <<items[i].joins[k].outcome, items[i].joins[k].matched>>]
        IN CASE r.scope = "documents" ->
                  found = <<stated(r.docket, scoped(r.docket, "dockets")),
                            stated(r.fr, {m.id : m \in Attributed(r)})>>
             [] r.scope = "comments" ->
                  found = <<stated(r.docket, scoped(r.docket, "dockets")),
                            stated(r.on, scoped(r.on, "documents"))>>
             [] OTHER -> found = <<>>

Malformed(v) == {v} \cap {Junk, Odd}

\* The malformed values among those an interpretation of the row reads.
MalformedValues(r) ==
    Malformed(r.title) \cup Malformed(r.agency) \cup Malformed(r.type)
    \cup Malformed(r.modified) \cup Malformed(r.link)
    \cup (IF r.scope = "dockets" THEN {} ELSE Malformed(r.posted) \cup Malformed(r.docket))
    \cup (IF r.scope = "documents" THEN Malformed(r.fr) \cup Malformed(r.closes) ELSE {})
    \cup (IF r.scope = "comments" THEN Malformed(r.on) ELSE r.rins \cap {Junk})

\* No source value disappears: a value of the wrong form is kept beside the
\* field it was meant for or among the observations, a filing the loader
\* collapsed is kept, the placeholder version reaches a selected item only
\* when the source states a modification date that is no text, and what is
\* fetched is what the chosen family offers.
SourceEvidence ==
    \A i \in DOMAIN items :
        LET r == job.rows[i]
            item == items[i]
            kept == UNION {item.fields[f].unparseable : f \in NormalizedFields}
                      \cup {n[2] : n \in {m \in item.notes : m[1] # "version"}}
        IN /\ r.scope \in {"documents", "dockets", "comments"}
                 => MalformedValues(r) \subseteq kept
           /\ r.scope = "documents" => r.discards \subseteq kept
           /\ (item.version = Unknown /\ item.selection.disposition = "selected")
                 => r.modified = Odd
           /\ item.candidates # <<>> =>
                 \E k \in DOMAIN item.renditions.families :
                    /\ item.renditions.families[k].id \in item.renditions.chosen
                    /\ \A c \in ToSet(item.candidates) :
                          c.id \in ToSet(item.renditions.families[k].offered)
           /\ (r.withdrawn /\ r.scope \in {"documents", "comments"}) => item.candidates = <<>>

Members == {j.member : j \in Jobs}

Written(m) == \E p \in {Rebuilt(x) : x \in Members} : Member(p) = m

Claiming(rs) == {i \in DOMAIN rs : rs[i].locator # Null
                                 /\ \A j \in 1..(i - 1) : rs[j].locator # rs[i].locator}

Defective(r) ==
    \/ /\ r.scope \in {"documents", "comments"}
       /\ \E i \in DOMAIN r.renditions : Unsupported(r.renditions[i])
    \/ r.scope = "comments" /\ VersionMissing(r)
    \/ /\ r.scope \in {"documents", "comments"}
       /\ \E i, j \in Claiming(r.renditions) : i # j /\ r.renditions[i].id = r.renditions[j].id
    \/ /\ r.scope \in {"documents", "register"}
       /\ \E i, j \in DOMAIN r.topics :
             r.topics[i][1] = r.topics[j][1] /\ r.topics[i][2] # r.topics[j][2]

\* A job is refused for its member exactly when no policy writes that member,
\* and for a row exactly when its renditions cannot be told apart or located,
\* its comment version is not stated, or one topic id of a document or a Federal
\* Register row has two labels.
RefusalsExact ==
    /\ pc = "no policy" => ~Written(job.member)
    /\ policy # Null => Member(policy) = job.member
    /\ pc = "refused" => Defective(job.rows[Len(items) + 1])
    /\ \A i \in DOMAIN items : ~Defective(job.rows[i])

\* What a policy decides is right in all of these respects: the sample, the dispositions, the
\* joins, the evidence kept from the source, and what is refused.
PoliciesExact == SampleExact /\ SelectionExact /\ JoinsExact /\ SourceEvidence /\ RefusalsExact
=============================================================================
