----------------------------- MODULE CatalogBuild -----------------------------
(***************************************************************************)
(* One durable resume workspace and the catalog builds that run on it.     *)
(* A build loads its sources, lets a policy index and interpret them, and  *)
(* stages the rows in batches.  It can be killed at any point, or refuse;  *)
(* what it had not committed is then gone, and the same request starts     *)
(* again from the last resume point.                                       *)
(*                                                                         *)
(* A source row is a record with                                           *)
(*   id      its sourceRecordId, a number in the order of the UTF-16 keys  *)
(*   sel     the selector it is staged under: scope, schema and version    *)
(*   owns    whether the filing reconstructs its own document id           *)
(*   good    whether only the budget can keep it from being selected       *)
(*   docket  the docket it refers to, or None                              *)
(*   key     the number by which documents and lookup rows are joined      *)
(***************************************************************************)
EXTENDS Integers, Sequences, FiniteSets, SequencesExt, FiniteSetsExt

CONSTANTS
    Requests,    \* names of build requests
    Ids,         \* numbers: the sourceRecordIds
    Selectors,
    Partitions,
    None,
    Sources,     \* [Requests -> sequences of sources, a source a sequence of rows]
    Policy,      \* [Requests -> records: universe, lookup, twoPass, resolves, limit]
    BatchItems,  \* [Requests -> the size of a resume batch]
    Family,      \* [Selectors -> schema families]
    DocketSel,   \* the selector of dockets
    PartitionOf  \* [Ids -> Partitions]

\* A source row, what the workspace keeps of it, and the counts of the items staged so far.
Rows == [id : Ids, sel : Selectors, owns : BOOLEAN, good : BOOLEAN,
         docket : Nat \cup {None}, key : Nat \cup {None}]
Entries == [source : Nat, row : Rows, discards : Seq(Nat)]
Counts == [after : Ids \cup {None}, count : Nat, selected : Nat, parts : [Partitions -> Nat]]

ASSUME BatchAssumption == \A rq \in Requests : BatchItems[rq] \in Nat \ {0}

ASSUME IdsAssumption == IsFiniteSet(Ids) /\ Ids \subseteq Nat /\ PartitionOf \in [Ids -> Partitions]

ASSUME NoneAssumption ==
    None \notin Requests /\ None \notin Nat /\ None \notin Selectors /\ None \notin Entries /\ None \notin Counts

\* A policy that joins a lookup input has a pre-pass to index it (CatalogSourcePolicy).
ASSUME PolicyAssumption ==
    \A rq \in Requests :
        /\ Policy[rq].universe \in Seq(Selectors) /\ Policy[rq].lookup \in Selectors \cup {None}
        /\ Policy[rq].twoPass \in BOOLEAN /\ Policy[rq].resolves \in BOOLEAN
        /\ Policy[rq].limit \in Nat \cup {None}
        /\ Policy[rq].lookup # None => Policy[rq].twoPass

\* _source_rows refuses a source whose records are not strictly ordered.
ASSUME SourceAssumption ==
    \A rq \in Requests :
        /\ Sources[rq] \in Seq(Seq(Rows))
        /\ \A i \in DOMAIN Sources[rq] : \A j, k \in DOMAIN Sources[rq][i] :
               j < k => Sources[rq][i][j].id < Sources[rq][i][k].id

VARIABLES
    disk,       \* the workspace as of its last commit
    work,       \* the workspace as the running build sees it
    proc,       \* the running build
    published,  \* [Requests -> the catalog published for it, or None]
    refused     \* requests whose build raised an IntegrityError

vars == <<disk, work, proc, published, refused>>

-----------------------------------------------------------------------------
\* Workspace entries, keyed within their namespaces.

\* A fresh database: every namespace is empty.
EmptyWorkspace ==
    [build |-> None, inputs |-> {}, schemas |-> {}, rows |-> <<>>, lookup |-> <<>>,
     dockets |-> <<>>, universe |-> {}, items |-> <<>>, output |-> {},
     indexed |-> FALSE, cursor |-> None, staged |-> None]

\* put and replace store a value under a key.
Put(entries, k, v) == [x \in DOMAIN entries \cup {k} |-> IF x = k THEN v ELSE entries[x]]

\* get answers None for an absent key.
Get(entries, k) == IF k \in DOMAIN entries THEN entries[k] ELSE None

-----------------------------------------------------------------------------
\* The counts a receipt needs, and the running build.

NoCounts == [after |-> None, count |-> 0, selected |-> 0, parts |-> [p \in Partitions |-> 0]]

FreshPoint == [indexed |-> FALSE, after |-> None, selected |-> 0]

Down == [pc |-> "down", rq |-> None, point |-> FreshPoint, src |-> 1, pos |-> 1,
         firstPass |-> TRUE, started |-> FALSE, previous |-> None, budget |-> 0,
         counts |-> NoCounts]

\* No build is running: there was none, it was killed or it is over, or it refused.
Ended == proc.pc \in {"down", "refused"}

Init ==
    /\ disk = EmptyWorkspace
    /\ work = EmptyWorkspace
    /\ proc = Down
    /\ published = [rq \in Requests |-> None]
    /\ refused = {}

\* An IntegrityError ends the build; closing the connection rolls it back.
Refuse ==
    /\ refused' = refused \cup {proc.rq}
    /\ proc' = [Down EXCEPT !.pc = "refused"]
    /\ work' = disk
    /\ UNCHANGED <<disk, published>>

\* A mark is stored with everything written before it.
Mark(w) == work' = w /\ disk' = w

-----------------------------------------------------------------------------
\* Mutated: the cursor is found again without the counts saved with it.
ResumePointUncounted(w) ==
    LET s == IF w.staged # None THEN w.staged ELSE w.cursor IN
    [indexed |-> w.indexed, after |-> IF s = None THEN None ELSE s.after, selected |-> 0]

\* What the policy is told of the earlier runs.
ResumePoint(w) ==
    LET s == IF w.staged # None THEN w.staged ELSE w.cursor IN
    [indexed |-> w.indexed,
     after |-> IF s = None THEN None ELSE s.after,
     selected |-> IF s = None THEN 0 ELSE s.selected]

\* A build opens the workspace: it binds an empty one to its identity, resumes its own,
\* and is turned away from one that a different build has staged.
Start(rq) ==
    /\ Ended
    /\ disk.build \in {None, rq}
    /\ Mark([disk EXCEPT !.build = rq])
    /\ proc' = [Down EXCEPT !.rq = rq, !.point = ResumePoint(disk),
                            !.pc = IF disk.staged # None THEN "publish" ELSE "load",
                            !.counts = IF disk.staged # None THEN disk.staged
                                       ELSE IF disk.cursor # None THEN disk.cursor
                                       ELSE NoCounts]
    /\ UNCHANGED <<published, refused>>

-----------------------------------------------------------------------------
\* Loading: every source not yet marked, row by row.

Loading == proc.pc = "load" /\ proc.src <= Len(Sources[proc.rq])

\* The policy names the owner of a record that two sources file, or nobody.
Owner(stored, incoming) ==
    LET owners == {f \in {stored, incoming} : f.row.owns} IN
    IF Policy[proc.rq].resolves /\ Cardinality(owners) = 1 THEN CHOOSE f \in owners : TRUE
    ELSE None

\* The owner keeps the record and lists the other filing as discarded.
Resolved(stored, incoming) ==
    LET owner == Owner(stored, incoming)
        other == IF owner = stored THEN incoming ELSE stored
    IN [owner EXCEPT !.discards = Append(@, other.source)]

\* One row is staged under its selector, or its repeat is resolved or refused.
LoadRow ==
    /\ Loading /\ proc.src \notin work.inputs
    /\ proc.pos <= Len(Sources[proc.rq][proc.src])
    /\ LET row == Sources[proc.rq][proc.src][proc.pos]
           k == <<row.sel, row.id>>
           incoming == [source |-> proc.src, row |-> row, discards |-> <<>>]
           stored == Get(work.rows, k)
       IN IF stored # None /\ Owner(stored, incoming) = None
          THEN Refuse
          ELSE /\ work' = [work EXCEPT
                             !.schemas = @ \cup {row.sel},
                             !.rows = Put(@, k, IF stored = None THEN incoming
                                                ELSE Resolved(stored, incoming))]
               /\ proc' = [proc EXCEPT !.pos = @ + 1]
               /\ UNCHANGED <<disk, published, refused>>

\* A source that ended is marked; one that an earlier run marked is not read again.
EndSource ==
    /\ Loading
    /\ \/ proc.src \in work.inputs /\ UNCHANGED <<disk, work>>
       \/ /\ proc.src \notin work.inputs
          /\ proc.pos > Len(Sources[proc.rq][proc.src])
          /\ Mark([work EXCEPT !.inputs = @ \cup {proc.src}])
    /\ proc' = [proc EXCEPT !.src = @ + 1, !.pos = 1]
    /\ UNCHANGED <<published, refused>>

-----------------------------------------------------------------------------
\* Reading the universe.

UniverseSelectors(rq) == {Policy[rq].universe[i] : i \in DOMAIN Policy[rq].universe}

\* A policy with a pre-pass runs it unless an earlier run committed it.
PrePassDue == Policy[proc.rq].twoPass /\ ~proc.point.indexed

\* Selectors this run reads.
Read ==
    UniverseSelectors(proc.rq)
    \cup IF PrePassDue /\ Policy[proc.rq].lookup # None THEN {Policy[proc.rq].lookup} ELSE {}

\* A read refuses staged rows of its own family in a version it does not read.
Unread(schemas, s) ==
    \E t \in schemas :
        /\ Family[t] = Family[s]
        /\ t # s
        /\ t \notin UniverseSelectors(proc.rq)

\* Staged rows of the universe under one id, by selector.
Held(rows, id) == {s \in UniverseSelectors(proc.rq) : <<s, id>> \in DOMAIN rows}

\* Loading is over: reads start, unless a staged schema version would be skipped.
EndLoad ==
    /\ proc.pc = "load"
    /\ proc.src > Len(Sources[proc.rq])
    /\ IF \E s \in Read : Unread(work.schemas, s) THEN Refuse
       ELSE /\ proc' = [proc EXCEPT !.pc = IF PrePassDue THEN "index" ELSE "rows",
                                    !.budget = proc.point.selected]
            /\ UNCHANGED <<disk, work, published, refused>>

\* Keys that more than one lookup row states are left out of the index.
LookupIndex(rows, s) ==
    LET named == {k \in DOMAIN rows : k[1] = s /\ rows[k].row.key # None}
        keys == {rows[k].row.key : k \in named}
        clear == {n \in keys : Cardinality({k \in named : rows[k].row.key = n}) = 1}
    IN [n \in clear |-> rows[CHOOSE k \in named : rows[k].row.key = n]]

\* The pre-pass: index the lookup input and the dockets, and account for the universe.
PrePass ==
    /\ proc.pc = "index"
    /\ LET ids == {id \in Ids : Held(work.rows, id) # {}}
           dockets == {id \in ids : DocketSel \in Held(work.rows, id)}
           lookup == IF Policy[proc.rq].lookup = None THEN <<>>
                     ELSE LookupIndex(work.rows, Policy[proc.rq].lookup)
       IN IF (\E id \in ids : Cardinality(Held(work.rows, id)) > 1)
             \/ ids \cap work.universe # {}
             \/ dockets \cap DOMAIN work.dockets # {}
             \/ DOMAIN lookup \cap DOMAIN work.lookup # {}
          THEN Refuse
          ELSE /\ work' = [work EXCEPT
                             !.universe = @ \cup ids,
                             !.dockets = [id \in dockets |-> work.rows[<<DocketSel, id>>]],
                             !.lookup = lookup]
               /\ proc' = [proc EXCEPT !.pc = "rows", !.firstPass = FALSE]
               /\ UNCHANGED <<disk, published, refused>>

-----------------------------------------------------------------------------
\* Staging items.

\* Ids the pass has still to reach: it starts after the resume point.
Remaining(rows) ==
    LET last == IF proc.previous # None THEN proc.previous ELSE proc.point.after IN
    {id \in Ids : Held(rows, id) # {} /\ (last # None => id > last)}

\* Two universe inputs hold the id this pass has just read.
Repeated(rows) == proc.previous # None /\ Cardinality(Held(rows, proc.previous)) > 1

\* A resuming pass looks before it writes; a first pass from the start does not.
Resuming == proc.point.indexed \/ proc.point.after # None

\* Mutated: every pass writes without looking.
TakeRowBlindly ==
    /\ proc.pc = "rows" /\ ~Repeated(work.rows) /\ Remaining(work.rows) # {}
    /\ LET id == Min(Remaining(work.rows)) IN
       IF proc.firstPass /\ id \in work.universe THEN Refuse
       ELSE LET w == [work EXCEPT !.universe = @ \cup (IF proc.firstPass THEN {id} ELSE {})] IN
            /\ IF ~proc.started /\ ~proc.point.indexed THEN Mark([w EXCEPT !.indexed = TRUE])
               ELSE work' = w /\ UNCHANGED disk
            /\ proc' = [proc EXCEPT !.pc = "item", !.previous = id, !.started = TRUE]
            /\ UNCHANGED <<published, refused>>

\* The next row of the ordered universe is accounted for; the first item of a run shows
\* that the pre-pass is over, which is committed on its own.
TakeRow ==
    /\ proc.pc = "rows" /\ ~Repeated(work.rows) /\ Remaining(work.rows) # {}
    /\ LET id == Min(Remaining(work.rows))
           writes == proc.firstPass /\ ~(Resuming /\ id \in work.universe)
       IN IF writes /\ id \in work.universe THEN Refuse
          ELSE LET w == [work EXCEPT !.universe = @ \cup (IF writes THEN {id} ELSE {})] IN
               /\ IF ~proc.started /\ ~proc.point.indexed
                  THEN Mark([w EXCEPT !.indexed = TRUE])
                  ELSE work' = w /\ UNCHANGED disk
               /\ proc' = [proc EXCEPT !.pc = "item", !.previous = id, !.started = TRUE]
               /\ UNCHANGED <<published, refused>>

\* A stream whose universe repeats an id is refused when the repeat is reached.
RefuseRepeat == proc.pc = "rows" /\ Repeated(work.rows) /\ Refuse

\* The row of an id that comes first in the order of the universe inputs.
RowOf(id) ==
    LET u == Policy[proc.rq].universe
        i == Min({j \in DOMAIN u : u[j] \in Held(work.rows, id)})
    IN work.rows[<<u[i], id>>]

BudgetAvailable == Policy[proc.rq].limit # None => proc.budget < Policy[proc.rq].limit

\* The item a policy makes of a row: where it is from, what it joins, whether it is selected.
Item(id) ==
    LET staged == RowOf(id) IN
    [source |-> staged.source, discards |-> staged.discards,
     docket |-> LET d == Get(work.dockets, staged.row.docket) IN IF d = None THEN None ELSE d.source,
     lookup |-> LET r == Get(work.lookup, staged.row.key) IN IF r = None THEN None ELSE r.row.id,
     selected |-> staged.row.good /\ BudgetAvailable]

\* Counts after one more item.
Counted(c, id, selected) ==
    [after |-> id, count |-> c.count + 1,
     selected |-> c.selected + (IF selected THEN 1 ELSE 0),
     parts |-> [c.parts EXCEPT ![PartitionOf[id]] = @ + 1]]

\* The item is stored beside its accounting; every full batch commits a cursor.
StageItem ==
    /\ proc.pc = "item"
    /\ LET id == proc.previous
           item == Item(id)
           c == Counted(proc.counts, id, item.selected)
           w == [work EXCEPT !.items = Put(@, id, item), !.output = @ \cup {id}]
       IN IF \/ proc.counts.after # None /\ id <= proc.counts.after
             \/ id \in DOMAIN work.items
             \/ id \in work.output
          THEN Refuse
          ELSE /\ IF c.count % BatchItems[proc.rq] = 0 THEN Mark([w EXCEPT !.cursor = c])
                  ELSE work' = w /\ UNCHANGED disk
               /\ proc' = [proc EXCEPT !.pc = "rows", !.counts = c,
                                       !.budget = @ + (IF item.selected THEN 1 ELSE 0)]
               /\ UNCHANGED <<published, refused>>

\* The universe is exhausted: the output must account for all of it.
MarkStaged ==
    /\ proc.pc = "rows" /\ ~Repeated(work.rows) /\ Remaining(work.rows) = {}
    /\ IF work.universe # work.output THEN Refuse
       ELSE /\ Mark([work EXCEPT !.staged = proc.counts])
            /\ proc' = [proc EXCEPT !.pc = "publish"]
            /\ UNCHANGED <<published, refused>>

-----------------------------------------------------------------------------
\* The rows of the partitions that were counted become the payload of the catalog.
Payload == [id \in {i \in DOMAIN work.items : proc.counts.parts[PartitionOf[i]] > 0} |-> work.items[id]]

\* The gate derives the counts again from the payload.
GateAccepts ==
    /\ Cardinality(DOMAIN Payload) = proc.counts.count
    /\ Cardinality({id \in DOMAIN Payload : Payload[id].selected}) = proc.counts.selected
    /\ \A p \in Partitions :
           Cardinality({id \in DOMAIN Payload : PartitionOf[id] = p}) = proc.counts.parts[p]

\* The catalog is gated and committed to the store, whose protocol is CatalogStore's.
Publish ==
    /\ proc.pc = "publish"
    /\ IF ~GateAccepts THEN Refuse
       ELSE /\ published' = [published EXCEPT ![proc.rq] = Payload]
            /\ proc' = [proc EXCEPT !.pc = "published"]
            /\ UNCHANGED <<disk, work, refused>>

\* The command line deletes the workspace of a published build.
RemoveWorkspace ==
    /\ proc.pc = "published"
    /\ Mark(EmptyWorkspace)
    /\ proc' = Down
    /\ UNCHANGED <<published, refused>>

\* build_local_catalog leaves it.
KeepWorkspace ==
    /\ proc.pc = "published"
    /\ proc' = Down
    /\ work' = disk
    /\ UNCHANGED <<disk, published, refused>>

\* The process dies, or the workspace exceeds its allowance.
Kill ==
    /\ ~Ended
    /\ proc' = Down
    /\ work' = disk
    /\ UNCHANGED <<disk, published, refused>>

Step ==
    \/ LoadRow \/ EndSource \/ EndLoad \/ PrePass
    \/ TakeRow \/ RefuseRepeat \/ StageItem \/ MarkStaged \/ Publish
    \/ RemoveWorkspace \/ KeepWorkspace

Next == (\E rq \in Requests : Start(rq)) \/ Step \/ Kill

Spec == Init /\ [][Next]_vars

\* A running build goes on, and an interrupted one is started again.
FairSpec ==
    /\ Spec
    /\ WF_vars(Step)
    /\ \A rq \in Requests : WF_vars(disk.build = rq /\ Start(rq))

-----------------------------------------------------------------------------
\* What an uninterrupted build decides, from the sources alone.

Filings(rq, s, id) ==
    {f \in {[source |-> i, row |-> r] : i \in DOMAIN Sources[rq],
                                       r \in UNION {Range(src) : src \in Range(Sources[rq])}} :
        f.row \in Range(Sources[rq][f.source]) /\ f.row.sel = s /\ f.row.id = id}

\* The numbers of S in order.
Ascending(S) ==
    CHOOSE q \in [1..Cardinality(S) -> S] : \A i, j \in DOMAIN q : i < j => q[i] < q[j]

Owning(rq, s, id) == {f \in Filings(rq, s, id) : f.row.owns}

\* The filing an item is made of.
Kept(rq, s, id) ==
    LET fs == Filings(rq, s, id) IN
    CHOOSE f \in fs : Cardinality(fs) = 1 \/ f.row.owns

\* A record filed more than once has one owner, and it is among the first two filings: the
\* policy compares each filing with the one kept so far.
Resolvable(rq, s, id) ==
    LET fs == Filings(rq, s, id) IN
    Cardinality(fs) > 1 =>
        /\ Policy[rq].resolves
        /\ Cardinality(Owning(rq, s, id)) = 1
        /\ Cardinality({f \in fs : f.source < Kept(rq, s, id).source}) < 2

StatedSelectors(rq) == {s \in Selectors : \E id \in Ids : Filings(rq, s, id) # {}}

ReadSelectors(rq) == UniverseSelectors(rq) \cup ({Policy[rq].lookup} \ {None})

\* Every stated version of a family the policy reads is one it reads.
AllRead(rq) ==
    \A t \in StatedSelectors(rq), s \in ReadSelectors(rq) :
        Family[t] = Family[s] => t = s \/ t \in UniverseSelectors(rq)

\* No id is in two universe inputs.
Distinct(rq) ==
    \A id \in Ids, s, t \in UniverseSelectors(rq) :
        Filings(rq, s, id) # {} /\ Filings(rq, t, id) # {} => s = t

Acceptable(rq) ==
    AllRead(rq) /\ Distinct(rq) /\ \A s \in Selectors, id \in Ids : Resolvable(rq, s, id)

\* The catalog of an acceptable request.
Catalog(rq) ==
    LET p == Policy[rq]
        ids == {id \in Ids : \E s \in UniverseSelectors(rq) : Filings(rq, s, id) # {}}
        sel(id) == CHOOSE s \in UniverseSelectors(rq) : Filings(rq, s, id) # {}
        kept(id) == Kept(rq, sel(id), id)
        good == {id \in ids : kept(id).row.good}
        keyed(n) == {id \in Ids : p.lookup # None /\ Filings(rq, p.lookup, id) # {}
                                  /\ Kept(rq, p.lookup, id).row.key = n}
        lookup(n) == IF n # None /\ Cardinality(keyed(n)) = 1 THEN CHOOSE id \in keyed(n) : TRUE
                     ELSE None
        docket(d) == IF d \in ids /\ p.twoPass /\ sel(d) = DocketSel THEN kept(d).source ELSE None
        others(id) == {f.source : f \in Filings(rq, sel(id), id)} \ {kept(id).source}
    IN [id \in ids |->
           [source |-> kept(id).source,
            discards |-> Ascending(others(id)),
            docket |-> docket(kept(id).row.docket),
            lookup |-> lookup(kept(id).row.key),
            selected |-> /\ id \in good
                         /\ p.limit # None => Cardinality({i \in good : i < id}) < p.limit]]

\* The verdict on every request, and the catalogs of the acceptable ones.
Expected == [rq \in Requests |->
    [acceptable |-> Acceptable(rq), distinct |-> Distinct(rq),
     catalog |-> IF Acceptable(rq) THEN Catalog(rq) ELSE None]]

-----------------------------------------------------------------------------
\* Properties.

\* The workspace holds entries of the right namespaces, and a running build the counts and the
\* resume point of its request.
TypeOK ==
    /\ \A w \in {disk, work} :
        /\ w.build \in Requests \cup {None}
        /\ w.build # None => w.inputs \subseteq DOMAIN Sources[w.build]
        /\ w.schemas \subseteq Selectors
        /\ DOMAIN w.rows \subseteq Selectors \X Ids
        /\ DOMAIN w.dockets \cup w.universe \cup DOMAIN w.items \cup w.output \subseteq Ids
        /\ w.indexed \in BOOLEAN
        /\ \A c \in {w.cursor, w.staged} \ {None} : c.count \in Nat /\ c.selected \in 0..c.count
    /\ proc.pc \in {"down", "refused", "load", "index", "rows", "item", "publish", "published"}
    /\ proc.rq \in Requests \cup {None}
    /\ proc.counts # None /\ proc.counts.count \in Nat /\ proc.budget \in Nat
    /\ DOMAIN published = Requests
    /\ refused \subseteq Requests

\* However often a build was killed and resumed, the catalog it publishes has the rows, joins,
\* discarded filings and selections that the sources determine.
PublishedExact ==
    \A rq \in Requests :
        published[rq] # None /\ Expected[rq].distinct => published[rq] = Expected[rq].catalog

\* A resumed build refuses only what a build from the start would: it never meets a key that
\* an earlier run stored, nor accounting that an earlier run left apart.
RefusedRightly == \A rq \in refused : ~Expected[rq].acceptable

\* Whenever the build dies, the committed counts are those of the committed items, up to the
\* committed cursor, and payload and accounting hold the same items.
CommittedTogether ==
    LET c == IF disk.staged # None THEN disk.staged
             ELSE IF disk.cursor # None THEN disk.cursor ELSE NoCounts
    IN /\ disk.output = DOMAIN disk.items
       /\ disk.output \subseteq disk.universe
       /\ c.count = Cardinality(disk.output)
       /\ c.selected = Cardinality({id \in disk.output : disk.items[id].selected})
       /\ \A p \in Partitions :
              c.parts[p] = Cardinality({id \in disk.output : PartitionOf[id] = p})
       /\ IF disk.output = {} THEN c.after = None ELSE c.after = Max(disk.output)

\* A build that is killed and resumed decides, commits and publishes what an uninterrupted
\* one would.
BuildExact == PublishedExact /\ RefusedRightly /\ CommittedTogether

\* A request that can be built is published once its build is no longer killed.
BuildFinishes ==
    (<>[][~Kill]_vars) =>
        \A rq \in {q \in Requests : Expected[q].acceptable} :
            (disk.build = rq) ~> (published[rq] # None)

\* iter_universe_rows: "Merge every universe input into one globally ordered, distinct stream":
\* no catalog is published of a universe that repeats an id.
DistinctUniverse == \A rq \in Requests : published[rq] # None => Expected[rq].distinct

=============================================================================
