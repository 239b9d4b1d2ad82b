-------------------------------- MODULE Reuse --------------------------------
(***************************************************************************)
(* Reuse of results under declared dependency evidence                     *)
(* (application/core_reuse.py, core_dependencies.py, core_execution.py,    *)
(* the commit of adapters/storage/ledger.py).                              *)
(*                                                                         *)
(* A request declares the inputs and the resource its operation depends    *)
(* on.  A retained result is offered to a later request whose evaluated    *)
(* dependencies are the same.  Omissions recorded on a result make it      *)
(* inadequate until a supplement establishes what was omitted.  Sessions   *)
(* look candidates up, assess them, check them again while publishing, and *)
(* commit, each in transactions of its own; evidence is recorded by others *)
(* meanwhile.  A removal needs the content guard alone and runs between    *)
(* sessions.                                                               *)
(***************************************************************************)
EXTENDS Naturals, Sequences, FiniteSets, Functions, SequencesExt

CONSTANTS
    Workers,       \* sessions of concurrent processes
    Inputs,        \* entity identities
    InputValue,    \* input -> its value
    Calls,         \* selection identities, natural numbers
    Request,       \* call -> [deps: label -> input, resource]
    Groups,        \* sequences of calls that are resolved together
    Outputs,       \* sequence: the entity that each result generates
    Omitted,       \* what an omission may name: records of scope and label
    Findings,      \* what supplements may establish: scope, label, value
    Removable,     \* inputs that removals name
    MaxEvidence,   \* bound on the evidence recorded
    Uncertain      \* the resource value of an undetermined resource

ASSUME ReuseAssumption ==
    /\ InputValue \in [Inputs -> Nat]
    /\ Calls \subseteq Nat /\ DOMAIN Request = Calls
    /\ \A c \in Calls : \A l \in DOMAIN Request[c].deps : Request[c].deps[l] \in Inputs
    /\ Groups \subseteq Seq(Calls)
    /\ Outputs \in Seq(Inputs)
    /\ \A f \in Findings :
        [scope |-> f.scope, label |-> f.label] \in Omitted /\ (f.scope = "dependency" => f.value \in Inputs)

VARIABLES
    has,           \* inputs whose bytes are available
    results,       \* sequence of retained results
    offers,        \* candidates: pairs of a digest and a result
    links,         \* dependency links: pairs of a result and an input
    chosen,        \* calls that have a retained selection -> the selection
    work           \* worker -> its session

rvars == <<has, results, offers, links, chosen, work>>

ResultIds == DOMAIN results
Result(c, comparisons) ==
    [request |-> Request[c], evidence |-> {}, version |-> 0, there |-> TRUE, comparisons |-> comparisons]

-----------------------------------------------------------------------------
(* _fold: supplements correct what omissions name.                         *)

Omissions(ev) == {e \in ev : e.status = "omission"}
Supplements(ev) == {e \in ev : e.status = "supplement"}
Unresolved(ev) ==
    {o \in Omissions(ev) : ~ \E x \in Supplements(ev) : x.scope = o.scope /\ x.label = o.label}

Conflicting(ev) ==
    \E x, y \in Supplements(ev) : x.scope = y.scope /\ x.label = y.label /\ x.value # y.value

Fold(q, ev) ==
    LET found(scope) == {x \in Supplements(ev) : x.scope = scope}
        labels == {x.label : x \in found("dependency")}
    IN  [deps |-> [l \in DOMAIN q.deps \cup labels |->
                    IF l \in labels THEN (CHOOSE x \in found("dependency") : x.label = l).value ELSE q.deps[l]],
         resource |-> IF found("resource") = {} THEN q.resource
                      ELSE (CHOOSE x \in found("resource") : TRUE).value]

Adequate(q, ev) == Unresolved(ev) = {} /\ Fold(q, ev).resource # Uncertain

(* correspondence_bytes over the evaluated dependencies.                   *)
Meaning(f) == [resource |-> f.resource, deps |-> [l \in DOMAIN f.deps |-> InputValue[f.deps[l]]]]

(* _comparisons: an available earlier comparison of this result that had   *)
(* no evidence the result lacks answers for the same label and binding.    *)
Usable(r) == {c \in r.comparisons : c.there /\ c.ids \subseteq r.evidence}
Answering(past, l, input) == {c \in past : l \in DOMAIN c.deps /\ c.deps[l] = input}

(* _assess: the digest, and none where the declaration is inadequate or an *)
(* input that no comparison answers for is gone.                           *)
Assess(q, ev, past) ==
    LET f == Fold(q, ev)
    IN  IF /\ ~ Conflicting(ev) /\ Adequate(q, ev)
           /\ \A l \in DOMAIN f.deps : Answering(past, l, f.deps[l]) # {} \/ f.deps[l] \in has
        THEN {Meaning(f)} ELSE {}

Asked(c) == Assess(Request[c], {}, {})
AssessResult(r, ev) == Assess(results[r].request, ev, Usable(results[r]))

Corresponds(c, r) == Asked(c) # {} /\ Asked(c) = AssessResult(r, results[r].evidence)

(* The latest of them is the one that the assessment rests on.             *)
Answer(past, l, input) ==
    CHOOSE c \in Answering(past, l, input) :
        \A d \in Answering(past, l, input) : Cardinality(d.ids) <= Cardinality(c.ids)

Answered(r) ==
    LET f == Fold(results[r].request, results[r].evidence)
    IN  {l \in DOMAIN f.deps : Answering(Usable(results[r]), l, f.deps[l]) # {}}

Support(r) ==
    LET f == Fold(results[r].request, results[r].evidence)
    IN  {Answer(Usable(results[r]), l, f.deps[l]) : l \in Answered(r)}

Supported(r) == Answered(r) = DOMAIN Fold(results[r].request, results[r].evidence).deps

(* _snapshot, of an assessment that has a digest.                          *)
Snapshot(r, ev) ==
    {[deps |-> Fold(results[r].request, ev).deps, ids |-> ev, there |-> TRUE] : m \in AssessResult(r, ev)}
Digest(r, ev) == AssessResult(r, ev) \X {r}

(* Variant: the request as it was declared.                                *)
DeclaredLinks(r, ev) ==
    {<<r, results[r].request.deps[l]>> : l \in DOMAIN results[r].request.deps}

DependencyLinks(r, ev) ==
    LET f == Fold(results[r].request, ev) IN {<<r, f.deps[l]>> : l \in DOMAIN f.deps}

-----------------------------------------------------------------------------
(* Sessions: resolve_many over a group of calls.                           *)

Put(w, t) == work' = [work EXCEPT ![w] = t]
Idle == [pc |-> "idle", group |-> <<>>, chose |-> {}, wanted |-> <<>>, found |-> {}, pick |-> <<>>,
         pending |-> <<>>, index |-> <<>>, about |-> <<>>]
Closed == [Idle EXCEPT !.pc = "closed"]

OpenSession(w) ==
    work[w].pc = "closed" /\ Put(w, Idle) /\ UNCHANGED <<has, results, offers, links, chosen>>

(* The session ends, or its process dies.                                  *)
EndSession(w) ==
    work[w].pc # "closed" /\ Put(w, Closed) /\ UNCHANGED <<has, results, offers, links, chosen>>

(* existing_many: exact prior choices are read, never made again; a choice *)
(* whose result is gone is an error.  The others are assessed, unless a    *)
(* fresh result is asked for.                                              *)
Look(w, group, fresh) ==
    LET prior == Range(group) \cap DOMAIN chosen
    IN  /\ work[w].pc = "idle"
        /\ \A c \in prior : chosen[c].there /\ results[chosen[c].result].there
        /\ Put(w, [Idle EXCEPT !.pc = "find", !.group = group, !.chose = prior,
                               !.wanted = [c \in Range(group) \ prior |-> IF fresh THEN {} ELSE Asked(c)]])
        /\ UNCHANGED <<has, results, offers, links, chosen>>

(* find_candidates: available successful results, one query for the group, *)
(* each with its evidence version.                                         *)
Find(w) ==
    LET t == work[w]
        match == {m \in (DOMAIN t.wanted) \X ResultIds :
                    results[m[2]].there /\ \E d \in t.wanted[m[1]] : <<d, m[2]>> \in offers}
    IN  /\ t.pc = "find"
        /\ Put(w, [t EXCEPT !.pc = "consider",
                            !.found = {[call |-> m[1], result |-> m[2], version |-> results[m[2]].version] :
                                         m \in match}])
        /\ UNCHANGED <<has, results, offers, links, chosen>>

(* The next candidate, in the order of calls and results, is assessed; the *)
(* policy takes it or leaves it.                                           *)
Earlier(a, b) == a.call < b.call \/ (a.call = b.call /\ a.result < b.result)

Consider(w, taken) ==
    LET t == work[w]
    IN  /\ t.pc = "consider"
        /\ \E c \in t.found :
            /\ \A d \in t.found : d = c \/ Earlier(c, d)
            /\ taken => /\ c.call \notin t.chose
                        /\ t.wanted[c.call] = AssessResult(c.result, results[c.result].evidence)
            /\ Put(w, IF taken THEN [t EXCEPT !.found = @ \ {c}, !.pick = c, !.pc = "check"]
                      ELSE [t EXCEPT !.found = @ \ {c}])
        /\ UNCHANGED <<has, results, offers, links, chosen>>

(* _validate_selections: the publisher assesses both sides again, and the  *)
(* selected output is required in full.  What it refuses the caller skips. *)
Check(w) ==
    LET t == work[w]
        r == t.pick.result
        fine == results[r].version = t.pick.version /\ Corresponds(t.pick.call, r) /\ Outputs[r] \in has
    IN  /\ t.pc = "check"
        /\ Put(w, IF fine THEN [t EXCEPT !.pc = "commit", !.about = [support |-> Support(r), whole |-> Supported(r)]]
                  ELSE [t EXCEPT !.pc = "consider", !.pick = <<>>])
        /\ UNCHANGED <<has, results, offers, links, chosen>>

(* Variant: versions are not compared when committing.                     *)
CurrentAlways(r, version) == results[r].there

(* expected_versions, compared in the transaction that writes.             *)
Current(r, version) == results[r].there /\ results[r].version = version

(* The association, with what its comparison rests on.                     *)
Associate(w) ==
    LET t == work[w]
        c == t.pick.call
        r == t.pick.result
        new == [result |-> r, reuse |-> TRUE, support |-> t.about.support, whole |-> t.about.whole,
                seen |-> results[r].evidence, there |-> TRUE]
        fine == c \notin DOMAIN chosen /\ Current(r, t.pick.version)
        same == c \in DOMAIN chosen /\ chosen[c].result = r
    IN  /\ t.pc = "commit"
        /\ chosen' = IF fine THEN [x \in DOMAIN chosen \cup {c} |-> IF x = c THEN new ELSE chosen[x]] ELSE chosen
        /\ Put(w, [t EXCEPT !.pc = "consider", !.pick = <<>>, !.about = <<>>,
                            !.chose = IF fine \/ same THEN @ \cup {c} ELSE @])
        /\ UNCHANGED <<has, results, offers, links>>

(* The producer of the next call without a choice succeeds, or fails, and  *)
(* then the completed ones are published all the same.                     *)
Left(t) == {i \in DOMAIN t.group : t.group[i] \notin t.chose}
Produce(w, success) ==
    LET t == work[w]
    IN  /\ t.pc = "consider" /\ t.found = {}
        /\ Len(results) + Len(t.pending) < Len(Outputs)
        /\ \E i \in Left(t) :
            /\ \A j \in Left(t) : i <= j
            /\ Range(Request[t.group[i]].deps) \subseteq has
            /\ Put(w, IF success THEN [t EXCEPT !.pending = Append(@, t.group[i]), !.chose = @ \cup {t.group[i]}]
                      ELSE [t EXCEPT !.pc = "flush"])
        /\ UNCHANGED <<has, results, offers, links, chosen>>

(* publish: results and their selections in one unit, which is refused     *)
(* whole when another session has chosen for one of the calls.             *)
Flush(w) ==
    LET t == work[w]
        ready == Range(t.pending)
        made == [i \in DOMAIN t.pending |-> Result(t.pending[i], {})]
        id(c) == Len(results) + CHOOSE i \in DOMAIN t.pending : t.pending[i] = c
        new(c) == [result |-> id(c), reuse |-> FALSE, support |-> {}, whole |-> FALSE, seen |-> {}, there |-> TRUE]
    IN  /\ t.pc = "flush" \/ (t.pc = "consider" /\ t.found = {} /\ Left(t) = {})
        /\ IF ready \cap DOMAIN chosen = {}
           THEN /\ Len(results) + Len(t.pending) <= Len(Outputs)
                /\ results' = results \o made
                /\ has' = has \cup {Outputs[id(c)] : c \in ready}
                /\ chosen' = [c \in DOMAIN chosen \cup ready |-> IF c \in ready THEN new(c) ELSE chosen[c]]
                /\ Put(w, [Idle EXCEPT !.pc = "index", !.index = [i \in DOMAIN t.pending |-> Len(results) + i]])
           ELSE Put(w, Idle) /\ UNCHANGED <<has, results, chosen>>
        /\ UNCHANGED <<offers, links>>

-----------------------------------------------------------------------------
(* Evidence: an assessment is read, then committed against the versions it *)
(* read.                                                                   *)

Write(r, added, ev) ==
    /\ results' = [results EXCEPT ![r].evidence = @ \cup added,
                                  ![r].version = @ + Cardinality(added \ results[r].evidence),
                                  ![r].comparisons = @ \cup Snapshot(r, ev)]
    /\ offers' = offers \cup Digest(r, ev)
    /\ links' = links \cup DependencyLinks(r, ev)

(* index_results, of what was just published: each is assessed, and then   *)
(* indexed if its version is still the one assessed.                       *)
Index(w) ==
    LET t == work[w]
        r == Head(t.index)
    IN  /\ \/ /\ t.pc = "index" /\ t.index = <<>>
              /\ Put(w, Idle) /\ UNCHANGED <<results, offers, links>>
           \/ /\ t.pc = "index" /\ t.index # <<>>
              /\ Put(w, [t EXCEPT !.pc = "assessed",
                                  !.about = [version |-> results[r].version, evidence |-> results[r].evidence]])
              /\ UNCHANGED <<results, offers, links>>
           \/ /\ t.pc = "assessed"
              /\ IF Current(r, t.about.version)
                 THEN /\ Write(r, {}, t.about.evidence)
                      /\ Put(w, [t EXCEPT !.pc = "index", !.index = Tail(@), !.about = <<>>])
                 ELSE Put(w, Idle) /\ UNCHANGED <<results, offers, links>>
        /\ UNCHANGED <<has, chosen>>

(* record_evidence: an omission, or a supplement of one with its receipt.  *)
(* A supplement that contradicts another is refused, and so is one whose   *)
(* historical input is gone.                                               *)
EvidenceAdmissible(r, e) ==
    /\ e \notin results[r].evidence
    /\ e.status = "supplement" =>
            /\ \E o \in Omissions(results[r].evidence) : o.scope = e.scope /\ o.label = e.label
            /\ e.scope = "dependency" => e.value \in has
            /\ ~ Conflicting(results[r].evidence \cup {e})

Evidences ==
    {[status |-> "omission", scope |-> o.scope, label |-> o.label] : o \in Omitted}
    \cup {[status |-> "supplement", scope |-> f.scope, label |-> f.label, value |-> f.value] : f \in Findings}

Examine(w, r, e) ==
    /\ work[w].pc = "idle"
    /\ EvidenceAdmissible(r, e)
    /\ SumFunction([q \in ResultIds |-> Cardinality(results[q].evidence)]) < MaxEvidence
    /\ Put(w, [Idle EXCEPT !.pc = "record",
                 !.about = [result |-> r, added |-> e, version |-> results[r].version,
                            evidence |-> results[r].evidence \cup {e}]])
    /\ UNCHANGED <<has, results, offers, links, chosen>>

RecordEvidence(w) ==
    LET a == work[w].about
    IN  /\ work[w].pc = "record"
        /\ IF Current(a.result, a.version)
           THEN Write(a.result, {a.added}, a.evidence)
           ELSE UNCHANGED <<results, offers, links>>
        /\ Put(w, Idle)
        /\ UNCHANGED <<has, chosen>>

-----------------------------------------------------------------------------
(* Removal between sessions: what no retained selection requires, which    *)
(* are the inputs of its request, its outputs and its support.             *)

Alone == \A w \in Workers : work[w].pc = "closed"
Selected == {c \in DOMAIN chosen : chosen[c].there}
Required(c) == Range(Request[c].deps) \cup {Outputs[chosen[c].result]}

RemoveInput(i) ==
    /\ Alone /\ i \in has
    /\ \A c \in Selected : i \notin Required(c)
    /\ has' = has \ {i}
    /\ UNCHANGED <<results, offers, links, chosen, work>>

RemoveComparison(r, c) ==
    /\ Alone /\ c \in results[r].comparisons /\ c.there
    /\ \A x \in Selected : chosen[x].result = r => c \notin chosen[x].support
    /\ results' = [results EXCEPT ![r].comparisons = (@ \ {c}) \cup {[c EXCEPT !.there = FALSE]}]
    /\ UNCHANGED <<has, offers, links, chosen, work>>

RemoveSelection(c) ==
    /\ Alone /\ c \in Selected
    /\ chosen' = [chosen EXCEPT ![c].there = FALSE]
    /\ UNCHANGED <<has, results, offers, links, work>>

RemoveResult(r) ==
    /\ Alone /\ results[r].there
    /\ results' = [results EXCEPT ![r].there = FALSE]
    /\ UNCHANGED <<has, offers, links, chosen, work>>

-----------------------------------------------------------------------------
ReuseInit ==
    /\ has = Inputs \ Range(Outputs)
    /\ results = <<>> /\ offers = {} /\ links = {}
    /\ chosen = <<>>
    /\ work = [w \in Workers |-> Closed]

ReuseNext ==
    \/ \E w \in Workers :
        \/ OpenSession(w) \/ EndSession(w) \/ Find(w) \/ Check(w) \/ Associate(w)
        \/ Flush(w) \/ Index(w) \/ RecordEvidence(w)
        \/ \E g \in Groups, fresh \in BOOLEAN : Look(w, g, fresh)
        \/ \E yes \in BOOLEAN : Consider(w, yes) \/ Produce(w, yes)
        \/ \E r \in ResultIds, e \in Evidences : Examine(w, r, e)
    \/ \E i \in Removable : RemoveInput(i)
    \/ \E c \in Calls : RemoveSelection(c)
    \/ \E r \in ResultIds : RemoveResult(r) \/ \E c \in results[r].comparisons : RemoveComparison(r, c)

ReuseSpec == ReuseInit /\ [][ReuseNext]_rvars

(* affected_results: the closure over dependency links and outputs, the    *)
(* least set that the recursive query arrives at.                          *)
Closes(S, changed) ==
    \A r \in ResultIds : \A i \in changed \cup {Outputs[q] : q \in S} : <<r, i>> \in links => r \in S

Affected(changed) == {r \in ResultIds : \A S \in SUBSET ResultIds : Closes(S, changed) => r \in S}

(* SelectedOutputReader.rows: a retained choice is read when its records   *)
(* are available and the evidence still corresponds.                       *)
SelectedOutput(c) ==
    LET r == chosen[c].result
    IN  /\ chosen[c].there /\ results[r].there /\ Outputs[r] \in has
        /\ Corresponds(c, r)

-----------------------------------------------------------------------------
(* A result is associated with another request only when, under the        *)
(* evidence it has at that moment, nothing is omitted and its dependencies *)
(* mean what the request's mean.                                           *)
ReuseChosen ==
    \A c \in DOMAIN chosen : chosen[c].reuse =>
        LET r == results[chosen[c].result]
        IN  /\ Adequate(r.request, chosen[c].seen)
            /\ Meaning(Fold(r.request, chosen[c].seen)) = Meaning(Request[c])

(* Evidence never contradicts itself, whoever records it, so that a result *)
(* can be assessed again; and its version counts it.                       *)
EvidenceCoherent ==
    \A r \in ResultIds :
        ~ Conflicting(results[r].evidence) /\ results[r].version = Cardinality(results[r].evidence)

(* A reused result keeps corresponding to the request it was chosen for    *)
(* while no evidence is added, whatever is removed: its comparisons answer *)
(* for inputs that are gone.                                               *)
StillCorresponds ==
    \A c \in Selected :
        chosen[c].reuse /\ chosen[c].whole /\ results[chosen[c].result].evidence = chosen[c].seen
            => Corresponds(c, chosen[c].result) /\ (results[chosen[c].result].there => SelectedOutput(c))

(* Whatever an indexed result was found to depend on, directly or through  *)
(* the outputs of others, a change of it finds the result.                 *)
AffectedComplete ==
    \A r \in ResultIds : \A c \in results[r].comparisons : \A l \in DOMAIN c.deps :
        /\ r \in Affected({c.deps[l]})
        /\ \A q \in ResultIds : Outputs[q] = c.deps[l] =>
             \A d \in results[q].comparisons : \A m \in DOMAIN d.deps : r \in Affected({d.deps[m]})

(* Reuse is sound: results are chosen under sufficient evidence, evidence  *)
(* stays consistent, and a choice keeps its meaning while it stands.       *)
ReuseSound == ReuseChosen /\ EvidenceCoherent /\ StillCorresponds
=============================================================================
