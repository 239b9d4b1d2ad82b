---------------------------- MODULE CatalogItems ----------------------------
(***************************************************************************)
(* The row of a source catalog: how raw source values become normalized    *)
(* fields (application/catalog_policy.py), which shapes the row and its    *)
(* six interpretations may have (domain/source_catalog.py), and how an     *)
(* ordered list of checks becomes a selection.                             *)
(*                                                                         *)
(* Texts, identifiers and locators are members of small sets; a value that *)
(* may be absent is a set with at most one member, so that the empty set   *)
(* is what Python calls false.  Null is the JSON null, Junk a text of a    *)
(* form its field does not admit, Odd a value that is no text at all.      *)
(***************************************************************************)
EXTENDS Integers, Sequences, FiniteSets, SequencesExt

CONSTANTS Null, Junk, Odd,
          Texts,      \* usable text, identifiers included
          Urls,       \* http and https locators
          Objects,    \* locators that are the digest of an immutable object
          Instants    \* canonical UTC instants <<year, day, time>>

NormalizedFields ==
    {"title", "agencies", "documentType", "publicationDate", "lastUpdatedDate",
     "docketIds", "rins", "commentCloseDate", "language", "sourceUrl"}

Dispositions == {"selected", "excluded", "deleted", "unavailable", "failed"}

Unrepeated(s) == \A i, j \in DOMAIN s : s[i] = s[j] => i = j

(***************************************************************************)
(* Values.                                                                 *)
(***************************************************************************)
\* What a field accepts of a raw value, and what it keeps as rejected.
Accept(raw, good) ==
    [value |-> {raw} \cap good, rejected |-> {raw} \ (good \cup {Null})]

TextValue(raw) == Accept(raw, Texts)

HttpUrlValue(raw) == Accept(raw, Urls)

\* An instant is kept as its calendar date.
InstantDate(raw) ==
    LET a == Accept(raw, Instants) IN
    [a EXCEPT !.value = {<<i[1], i[2]>> : i \in @}]

\* Any text whose first ten characters are a date, whatever follows them.
DateValue(raw) ==
    IF raw \in {Null, Junk, Odd} THEN Accept(raw, {})
    ELSE [value |-> {<<raw[1], raw[2]>>}, rejected |-> {}]

\* The distinct texts of an array; a null array has none.
Strings(raws) ==
    [value |-> raws \cap Texts, rejected |-> raws \ Texts]

\* A regulation identifier <<number, spelling>> counts once per number.
NormalizedRins(raws) ==
    [value |-> {r[1] : r \in raws \ {Junk}}, rejected |-> raws \cap {Junk}]

NormalizationField(a) ==
    [value |-> a.value,
     unparseable |-> a.rejected,
     outcome |-> IF a.rejected # {} THEN "unparseable"
                 ELSE IF a.value # {} THEN "normalized" ELSE "absent"]

Absent == [value |-> {}, rejected |-> {}]

Given(values) == [value |-> values, rejected |-> {}]

\* Observed topics are distinct as pairs of an identity and a label.
ObservedTopics(topics) == SetToSeq({<<t[1], t[2]>> : t \in ToSet(topics)})

(***************************************************************************)
(* Selection: the checks of a policy in order, up to the first that fails. *)
(***************************************************************************)
Check(id, passed, disposition, reason) ==
    [id |-> id, passed |-> passed,
     disposition |-> IF passed THEN Null ELSE disposition,
     reason |-> IF passed THEN Null ELSE reason]

Decided(checks) ==
    LET failed == {i \in DOMAIN checks : ~checks[i].passed} IN
    IF failed = {}
    THEN [disposition |-> "selected", reason |-> Null, decisions |-> checks]
    ELSE LET n == CHOOSE i \in failed : \A j \in failed : i <= j IN
         [disposition |-> checks[n].disposition, reason |-> checks[n].reason,
          decisions |-> SubSeq(checks, 1, n)]

(***************************************************************************)
(* Joins, sampling and rendition families as an item records them.         *)
(***************************************************************************)
JoinResult(id, value, matched) ==
    [id |-> id, value |-> value, matched |-> matched,
     outcome |-> IF value = {} THEN "not-stated"
                 ELSE IF matched = {} THEN "no-match" ELSE "matched"]

SampledAll(admitted) ==
    [admitted |-> admitted, partition |-> IF admitted THEN "all" ELSE Null,
     stratum |-> <<>>, rank |-> Null, size |-> Null,
     method |-> "all", limit |-> Null, drawn |-> admitted]

\* The offers of each family in order of preference, and the first family
\* that offers anything.
Preferred(order, offers) ==
    LET some == {i \in DOMAIN order : offers[order[i]] # <<>>} IN
    [families |-> [i \in DOMAIN order |->
                     [id |-> order[i],
                      offered |-> [k \in DOMAIN offers[order[i]] |-> offers[order[i]][k].id]]],
     chosen |-> IF some = {} THEN {} ELSE {order[CHOOSE i \in some : \A j \in some : i <= j]}]

----------------------------------------------------------------------------
(***************************************************************************)
(* The closed row schema.  A row it refuses stops the build.               *)
(***************************************************************************)
SelectionValid(s) ==
    /\ s.disposition \in Dispositions
    /\ (s.disposition = "selected") = (s.reason = Null)

DecisionValid(d) ==
    IF d.passed THEN d.disposition = Null /\ d.reason = Null
    ELSE d.disposition \in Dispositions \ {"selected"} /\ d.reason # Null

FieldValid(f) ==
    /\ f.outcome \in {"normalized", "absent", "unparseable"}
    /\ (f.outcome = "unparseable") = (f.unparseable # {})

JoinValid(j) ==
    CASE j.outcome = "matched"    -> j.value # {} /\ j.matched # {}
      [] j.outcome = "not-stated" -> j.value = {} /\ j.matched = {}
      [] j.outcome = "no-match"   -> j.value # {} /\ j.matched = {}
      [] OTHER -> FALSE

SamplingValid(s) ==
    /\ {s.rank, s.size, s.limit} \subseteq (Nat \ {0}) \cup {Null}
    /\ s.method \in {"all", "rank-over-sqrt-stratum-size"}

TopicsValid(topics) ==
    Unrepeated([i \in DOMAIN topics |-> topics[i][1]])

FamilyValid(f) == Unrepeated(f.offered)

CandidatesValid(candidates, s) ==
    /\ Unrepeated([i \in DOMAIN candidates |-> candidates[i].id])
    /\ s.disposition = "selected" => candidates # <<>>

ItemValid(item) ==
    /\ SelectionValid(item.selection)
    /\ \A i \in DOMAIN item.selection.decisions : DecisionValid(item.selection.decisions[i])
    /\ item.selection.decisions # <<>>
    /\ DOMAIN item.fields = NormalizedFields
    /\ \A f \in NormalizedFields : FieldValid(item.fields[f])
    /\ Unrepeated(item.joins) /\ \A i \in DOMAIN item.joins : JoinValid(item.joins[i])
    /\ SamplingValid(item.sampling)
    /\ TopicsValid(item.topics)
    /\ \A i \in DOMAIN item.renditions.families : FamilyValid(item.renditions.families[i])
    /\ Unrepeated(item.facts) /\ item.facts # <<>>
    /\ CandidatesValid(item.candidates, item.selection)
=============================================================================
