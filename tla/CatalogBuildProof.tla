-------------------------- MODULE CatalogBuildProof --------------------------
(***************************************************************************)
(* Whatever is killed and resumed, a build commits, refuses and publishes  *)
(* what the sources determine.                                             *)
(*                                                                         *)
(* The argument follows a row.  What the workspace keeps of a key stands   *)
(* for the filings read so far: it is the one that may be kept, and lists  *)
(* the others in the order of their sources.  So when every source is      *)
(* read, the rows are a function of the request.  The pre-pass, the ids    *)
(* still to be read and each item are then functions of those rows, and    *)
(* the items are those of the universe up to the last one counted.  All    *)
(* of this is said of one workspace, so that it holds of the committed one *)
(* whenever it held of the working one when a mark was set; a build that   *)
(* resumes starts from nothing else.                                       *)
(***************************************************************************)
EXTENDS CatalogBuild, CatalogVerify, FiniteSetTheorems, WellFoundedInduction, TLAPS

-----------------------------------------------------------------------------
\* The filings of a key, and what the workspace keeps of those that were read.

\* The number of sources of a request.
Depth(rq) == Len(Sources[rq])

\* The filings of a key before row p of source a.
Seen(rq, s, id, a, p) ==
    {f \in Filings(rq, s, id) :
        \/ f.source < a
        \/ f.source = a /\ \E j \in DOMAIN Sources[rq][a] : j < p /\ Sources[rq][a][j] = f.row}

\* The filing an entry is made of.
FilingOf(e) == [source |-> e.source, row |-> e.row]

\* An entry stands for the filings in seen: it is one of them and lists the others in order,
\* and if there are others it is the only one that owns the record, among the first two.
StandsFor(rq, e, seen) ==
    /\ FilingOf(e) \in seen
    /\ \A i, j \in DOMAIN e.discards : i < j => e.discards[i] < e.discards[j]
    /\ {e.discards[i] : i \in DOMAIN e.discards} = {f.source : f \in seen} \ {e.source}
    /\ seen # {FilingOf(e)} =>
          /\ Policy[rq].resolves /\ e.row.owns
          /\ \A f \in seen : f.row.owns => f = FilingOf(e)
          /\ \A f, g \in seen : f.source < e.source /\ g.source < e.source => f = g

\* What was read is what is kept.
RowsAt(rq, rows, a, p) ==
    \A s \in Selectors, id \in Ids :
        /\ <<s, id>> \in DOMAIN rows <=> Seen(rq, s, id, a, p) # {}
        /\ <<s, id>> \in DOMAIN rows => StandsFor(rq, rows[<<s, id>>], Seen(rq, s, id, a, p))

SchemasAt(rq, schemas, a, p) ==
    schemas = {s \in Selectors : \E id \in Ids : Seen(rq, s, id, a, p) # {}}

ReadAt(rq, w, a, p) == RowsAt(rq, w.rows, a, p) /\ SchemasAt(rq, w.schemas, a, p)

-----------------------------------------------------------------------------
\* The parts of the catalog a request determines.

Universe(rq) == {id \in Ids : \E s \in UniverseSelectors(rq) : Filings(rq, s, id) # {}}

SelectorOf(rq, id) == CHOOSE s \in UniverseSelectors(rq) : Filings(rq, s, id) # {}

KeptOf(rq, id) == Kept(rq, SelectorOf(rq, id), id)

Good(rq) == {id \in Universe(rq) : KeptOf(rq, id).row.good}

Keyed(rq, n) ==
    {id \in Ids : Policy[rq].lookup # None /\ Filings(rq, Policy[rq].lookup, id) # {}
                  /\ Kept(rq, Policy[rq].lookup, id).row.key = n}

LookupOf(rq, n) ==
    IF n # None /\ Cardinality(Keyed(rq, n)) = 1 THEN CHOOSE id \in Keyed(rq, n) : TRUE ELSE None

DocketOf(rq, d) ==
    IF d \in Universe(rq) /\ Policy[rq].twoPass /\ SelectorOf(rq, d) = DocketSel
    THEN KeptOf(rq, d).source ELSE None

OthersOf(rq, id) ==
    {f.source : f \in Filings(rq, SelectorOf(rq, id), id)} \ {KeptOf(rq, id).source}

\* The budget is not used up by k items.
Fits(rq, k) == Policy[rq].limit # None => k < Policy[rq].limit

ItemOf(rq, id) ==
    [source |-> KeptOf(rq, id).source,
     discards |-> Ascending(OthersOf(rq, id)),
     docket |-> DocketOf(rq, KeptOf(rq, id).row.docket),
     lookup |-> LookupOf(rq, KeptOf(rq, id).row.key),
     selected |-> id \in Good(rq) /\ Fits(rq, Cardinality({i \in Good(rq) : i < id}))]

\* Of g items that could be selected, those the budget lets through.
Capped(rq, g) == IF Policy[rq].limit # None /\ g > Policy[rq].limit THEN Policy[rq].limit ELSE g

-----------------------------------------------------------------------------
\* The invariant.

Keys == Selectors \X Ids

Partial(S, T) == UNION {[D -> T] : D \in SUBSET S}

CatalogItems == [source : Nat, discards : Seq(Nat), docket : Nat \cup {None},
                 lookup : Nat \cup {None}, selected : BOOLEAN]

Workspaces ==
    [build : Requests \cup {None}, inputs : SUBSET Nat, schemas : SUBSET Selectors,
     rows : Partial(Keys, Entries), lookup : Partial(Nat, Entries),
     dockets : Partial(Ids, Entries), universe : SUBSET Ids, items : Partial(Ids, CatalogItems),
     output : SUBSET Ids, indexed : BOOLEAN, cursor : Counts \cup {None},
     staged : Counts \cup {None}]

Processes ==
    [pc : {"down", "refused", "load", "index", "rows", "item", "publish", "published"},
     rq : Requests \cup {None},
     point : [indexed : BOOLEAN, after : Ids \cup {None}, selected : Nat],
     src : Nat, pos : Nat, firstPass : BOOLEAN, started : BOOLEAN,
     previous : Ids \cup {None}, budget : Nat, counts : Counts]

\* The counts a build resumes with.
Committed(w) ==
    IF w.staged # None THEN w.staged ELSE IF w.cursor # None THEN w.cursor ELSE NoCounts

\* The pre-pass has joined the right rows.
JoinsRight(rq, dockets, lookup) ==
    /\ \A n \in Nat \cup {None} :
           (IF Get(lookup, n) = None THEN None ELSE Get(lookup, n).row.id) = LookupOf(rq, n)
    /\ Distinct(rq) =>
           \A d \in Nat \cup {None} :
               (IF Get(dockets, d) = None THEN None ELSE Get(dockets, d).source) = DocketOf(rq, d)

\* The counts are those of the items.
CountsRight(output, items, c) ==
    /\ c.count = Cardinality(output)
    /\ c.selected = Cardinality({id \in output : items[id].selected})
    /\ \A p \in Partitions : c.parts[p] = Cardinality({id \in output : PartitionOf[id] = p})

\* The items are those of the universe up to the last one counted.
ItemsRight(rq, output, items, c) ==
    /\ DOMAIN items = output
    /\ output = {id \in Universe(rq) : c.after # None /\ id <= c.after}
    /\ c.after # None => c.after \in output
    /\ Distinct(rq) =>
          /\ \A id \in output : items[id] = ItemOf(rq, id)
          /\ c.selected = Capped(rq, Cardinality({id \in output : id \in Good(rq)}))

UniverseRight(rq, universe, output) ==
    /\ output \subseteq universe /\ universe \subseteq Universe(rq)
    /\ Policy[rq].twoPass => universe = Universe(rq)

Progress(rq, w, c) ==
    /\ CountsRight(w.output, w.items, c)
    /\ ItemsRight(rq, w.output, w.items, c)
    /\ UniverseRight(rq, w.universe, w.output)
    /\ JoinsRight(rq, w.dockets, w.lookup)

\* Nothing is staged yet.
Blank(w) ==
    /\ w.universe = {} /\ w.output = {} /\ DOMAIN w.items = {}
    /\ DOMAIN w.dockets = {} /\ DOMAIN w.lookup = {}
    /\ ~w.indexed /\ w.cursor = None /\ w.staged = None

\* A committed workspace of rq: the sources marked are the ones read, and either nothing is
\* staged or all of them are read and the committed items are right.
LedgerOK(rq, d) ==
    \E n \in 0..Depth(rq) :
        /\ d.inputs = 1..n
        /\ ReadAt(rq, d, n + 1, 1)
        /\ \/ Blank(d)
           \/ /\ n = Depth(rq) /\ AllRead(rq)
              /\ d.indexed \/ d.staged # None
              /\ Progress(rq, d, Committed(d))
              /\ d.staged # None => d.output = Universe(rq)

DiskOK(d) ==
    /\ d \in Workspaces
    /\ d.build = None => d = EmptyWorkspace
    /\ d.build # None => LedgerOK(d.build, d)

\* A build that has read nothing of the universe.
Unstarted(pr) == pr.firstPass /\ ~pr.started /\ pr.previous = None

\* All that a build has changed while it loads.
LoadedFrom(d, w) == w = [d EXCEPT !.rows = w.rows, !.schemas = w.schemas]

LoadOK(rq, d, w, pr) ==
    /\ Unstarted(pr) /\ d.staged = None
    /\ pr.point = ResumePoint(d) /\ pr.counts = Committed(d)
    /\ pr.src >= 1 /\ pr.pos >= 1
    /\ IF pr.pos = 1 THEN w = d /\ 1..(pr.src - 1) \subseteq d.inputs
       ELSE /\ d.inputs = 1..(pr.src - 1)
            /\ pr.src <= Depth(rq) /\ pr.pos <= Len(Sources[rq][pr.src]) + 1
            /\ LoadedFrom(d, w)
            /\ ReadAt(rq, w, pr.src, pr.pos)

IndexOK(rq, d, w, pr) ==
    /\ Unstarted(pr) /\ w = d /\ Blank(d) /\ d.inputs = 1..Depth(rq) /\ AllRead(rq)
    /\ Policy[rq].twoPass /\ ~pr.point.indexed /\ pr.point.after = None
    /\ pr.counts = NoCounts /\ pr.budget = 0

Resumes(pr) == pr.point.indexed \/ pr.point.after # None

\* A build that stages items: the items of its work are right, and if it started afresh the
\* universe holds nothing but them.
PassOK(rq, w, pr, reached) ==
    /\ w.inputs = 1..Depth(rq) /\ ReadAt(rq, w, Depth(rq) + 1, 1) /\ AllRead(rq)
    /\ w.staged = None /\ w.build = rq
    /\ Progress(rq, w, pr.counts) /\ pr.budget = pr.counts.selected
    /\ pr.started \/ pr.point.indexed => w.indexed
    /\ ~pr.started => pr.counts = Committed(w) /\ pr.previous = None
    /\ pr.firstPass /\ ~Resumes(pr) => w.universe = w.output \cup reached
    /\ pr.firstPass \/ Policy[rq].twoPass

\* The last id read.
LastRead(pr) == IF pr.previous # None THEN pr.previous ELSE pr.point.after

RowsOK(rq, w, pr) == PassOK(rq, w, pr, {}) /\ pr.counts.after = LastRead(pr)

ItemOK(rq, w, pr) ==
    /\ PassOK(rq, w, pr, {pr.previous})
    /\ pr.started /\ pr.previous # None /\ pr.previous \in w.universe
    /\ w.output = {id \in Universe(rq) : id < pr.previous}

DoneOK(d, w, pr) == w = d /\ d.staged # None /\ pr.counts = d.staged

ProcOK(d, w, pr) ==
    /\ pr \in Processes /\ w \in Workspaces
    /\ pr.pc \in {"down", "refused"} => w = d
    /\ pr.pc \notin {"down", "refused"} => pr.rq # None /\ d.build = pr.rq
    /\ pr.pc = "load" => LoadOK(pr.rq, d, w, pr)
    /\ pr.pc = "index" => IndexOK(pr.rq, d, w, pr)
    /\ pr.pc = "rows" => RowsOK(pr.rq, w, pr)
    /\ pr.pc = "item" => ItemOK(pr.rq, w, pr)
    /\ pr.pc \in {"publish", "published"} => DoneOK(d, w, pr)

\* The catalogs published and the requests refused.
PublishedOK(pub) ==
    /\ DOMAIN pub = Requests
    /\ \A rq \in Requests :
           pub[rq] # None /\ Distinct(rq) => Acceptable(rq) /\ pub[rq] = Catalog(rq)

RefusedOK(ref) == ref \subseteq Requests /\ \A rq \in ref : ~Acceptable(rq)

BuildInv == DiskOK(disk) /\ ProcOK(disk, work, proc) /\ PublishedOK(published) /\ RefusedOK(refused)

-----------------------------------------------------------------------------
(* Small sets and ordered sequences.                                       *)

\* A set of numbers has a least element.
LEMMA Least ==
    ASSUME NEW S \in SUBSET Nat, S # {}
    PROVE  /\ Min(S) \in S
           /\ \A y \in S : Min(S) <= y
<1>1. PICK x \in S : \A y \in S : ~(<<y, x>> \in OpToRel(<, Nat))
    BY NatLessThanWellFounded, WFMin
<1>2. \A y \in S : x <= y
  <2> SUFFICES ASSUME NEW y \in S, y < x PROVE FALSE
      OBVIOUS
  <2>1. <<y, x>> \in Nat \X Nat /\ <<y, x>>[1] < <<y, x>>[2]
      OBVIOUS
  <2> QED
      BY <1>1, <2>1 DEF OpToRel
<1> QED
    BY <1>2 DEF Min

\* Fewer than two elements.
LEMMA AtMostOne ==
    ASSUME NEW S, IsFiniteSet(S)
    PROVE  Cardinality(S) < 2 <=> \A x, y \in S : x = y
<1>1. Cardinality(S) \in Nat
    BY FS_CardinalityType
<1>2. CASE S = {}
    BY <1>2, FS_EmptySet
<1>3. CASE S # {}
  <2>1. PICK x \in S : TRUE
      BY <1>3
  <2>2. Cardinality(S) # 0
      BY <1>3, FS_EmptySet
  <2>3. Cardinality(S) = 1 <=> \E z : S = {z}
      BY FS_Singleton
  <2>4. (\E z : S = {z}) <=> \A u, v \in S : u = v
      BY <2>1
  <2> QED
      BY <1>1, <2>2, <2>3, <2>4
<1> QED
    BY <1>2, <1>3

\* One element.
LEMMA ExactlyOne ==
    ASSUME NEW S, IsFiniteSet(S)
    PROVE  Cardinality(S) = 1 <=> S # {} /\ \A x, y \in S : x = y
<1>1. Cardinality(S) = 1 <=> \E z : S = {z}
    BY FS_Singleton
<1>2. (\E z : S = {z}) <=> S # {} /\ \A u, v \in S : u = v
  <2>1. ASSUME S # {}, \A u, v \in S : u = v
        PROVE  \E z : S = {z}
    <3>1. PICK z \in S : TRUE
        BY <2>1
    <3> QED
        BY <2>1, <3>1
  <2> QED
      BY <2>1
<1> QED
    BY <1>1, <1>2

\* An ordered sequence of the elements of a set of numbers.
Orders(q, S) ==
    /\ q \in Seq(Nat)
    /\ \A i, j \in DOMAIN q : i < j => q[i] < q[j]
    /\ {q[i] : i \in DOMAIN q} = S

\* It is as long as the set is large.
LEMMA OrderedLength ==
    ASSUME NEW q, NEW S, Orders(q, S)
    PROVE  IsFiniteSet(S) /\ Cardinality(S) = Len(q) /\ q \in [1..Len(q) -> S] /\ Len(q) \in Nat
<1>1. DOMAIN q = 1..Len(q) /\ Len(q) \in Nat /\ q \in [1..Len(q) -> Nat]
    BY DEF Orders
<1>2. q \in [1..Len(q) -> S]
    BY <1>1 DEF Orders
<1>3. \A i, j \in 1..Len(q) : q[i] = q[j] => i = j
  <2> SUFFICES ASSUME NEW i \in 1..Len(q), NEW j \in 1..Len(q), q[i] = q[j], i # j PROVE FALSE
      OBVIOUS
  <2>1. q[i] \in Nat /\ q[j] \in Nat
      BY <1>1
  <2>2. i < j \/ j < i
      BY <1>1
  <2>3. q[i] < q[j] \/ q[j] < q[i]
      BY <1>1, <2>2 DEF Orders
  <2> QED
      BY <2>1, <2>3
<1>4. q \in Bijection(1..Len(q), S)
  <2>1. \A y \in S : \E i \in 1..Len(q) : q[i] = y
      BY <1>1 DEF Orders
  <2> QED
      BY <1>2, <1>3, <2>1 DEF Bijection, Injection, Surjection, IsInjective
<1>5. ExistsBijection(1..Len(q), S)
    BY <1>4 DEF ExistsBijection
<1>6. IsFiniteSet(S)
    BY <1>1, <1>5, FS_NatBijection
<1> QED
    BY <1>1, <1>2, <1>5, <1>6, FS_CountingElements

\* There is no other ordered sequence of the same length in the set.
LEMMA OrderedUnique ==
    ASSUME NEW q, NEW S, Orders(q, S), NEW r \in [1..Len(q) -> S],
           \A i, j \in 1..Len(q) : i < j => r[i] < r[j]
    PROVE  r = q
<1> DEFINE n == Len(q)
<1>1. n \in Nat /\ q \in [1..n -> S] /\ IsFiniteSet(S) /\ Cardinality(S) = n
    BY OrderedLength
<1>2. S \in SUBSET Nat /\ \A i, j \in 1..n : i < j => q[i] < q[j]
  <2>1. DOMAIN q = 1..n
      BY <1>1
  <2>2. \A i \in DOMAIN q : q[i] \in Nat
      BY DEF Orders
  <2> QED
      BY <2>1, <2>2 DEF Orders
<1>3. r \in [1..n -> S] /\ \A i, j \in 1..n : i < j => r[i] < r[j]
    OBVIOUS
<1>h HIDE DEF n
<1>4. \A y \in S : \E i \in 1..n : q[i] = y
  <2>1. DOMAIN q = 1..n
      BY <1>1
  <2> QED
      BY <2>1 DEF Orders
<1>5. \A y \in S : \E i \in 1..n : r[i] = y
  <2>1. \A i, j \in 1..n : r[i] = r[j] => i = j
    <3> SUFFICES ASSUME NEW i \in 1..n, NEW j \in 1..n, r[i] = r[j], i # j PROVE FALSE
        OBVIOUS
    <3>1. r[i] \in Nat /\ r[j] \in Nat
        BY <1>2, <1>3
    <3>2. i < j \/ j < i
        BY <1>1
    <3> QED
        BY <1>3, <3>1, <3>2
  <2>2. r \in Injection(1..n, S)
      BY <1>3, <2>1 DEF Injection, IsInjective
  <2>3. IsFiniteSet(1..n) /\ Cardinality(1..n) = n
      BY <1>1, FS_Interval
  <2>4. r \in Surjection(1..n, S)
      BY <1>1, <2>2, <2>3, FS_Injection
  <2> QED
      BY <2>4 DEF Surjection
<1>6. ASSUME r # q PROVE FALSE
  <2> DEFINE T == {i \in 1..n : r[i] # q[i]}
  <2>1. T \in SUBSET Nat /\ T # {}
      BY <1>1, <1>3, <1>6
  <2>2. PICK m \in T : \A i \in T : m <= i
      BY <2>1, Least
  <2>3. m \in 1..n /\ r[m] # q[m] /\ \A i \in 1..n : i < m => r[i] = q[i]
      BY <2>2, <1>1
  <2>4. r[m] \in Nat /\ q[m] \in Nat /\ r[m] \in S /\ q[m] \in S
      BY <1>1, <1>2, <1>3, <2>3
  <2>5. CASE r[m] < q[m]
    <3>1. PICK i \in 1..n : q[i] = r[m]
        BY <1>4, <2>4
    <3>2. q[i] \in Nat
        BY <2>4, <3>1
    <3>3. ~(i < m)
      <4> SUFFICES ASSUME i < m PROVE FALSE
          OBVIOUS
      <4>1. r[i] = q[i] /\ r[i] < r[m]
          BY <1>3, <2>3
      <4> QED
          BY <3>1, <4>1, <2>4
    <3>4. m < i \/ m = i
        BY <3>3, <2>3, <1>1
    <3>5. q[m] < q[i] \/ q[m] = q[i]
        BY <1>2, <2>3, <3>4
    <3> QED
        BY <2>4, <2>5, <3>1, <3>5
  <2>6. CASE q[m] < r[m]
    <3>1. PICK i \in 1..n : r[i] = q[m]
        BY <1>5, <2>4
    <3>3. ~(i < m)
      <4> SUFFICES ASSUME i < m PROVE FALSE
          OBVIOUS
      <4>1. r[i] = q[i] /\ q[i] < q[m]
          BY <1>2, <2>3
      <4> QED
          BY <3>1, <4>1, <2>4
    <3>4. m < i \/ m = i
        BY <3>3, <2>3, <1>1
    <3>5. r[m] < r[i] \/ r[m] = r[i]
        BY <1>3, <2>3, <3>4
    <3> QED
        BY <2>4, <2>6, <3>1, <3>5
  <2> QED
      BY <2>3, <2>4, <2>5, <2>6
<1> QED
    BY <1>6

\* The numbers of a set in order are those of any ordered sequence of them.
LEMMA AscendingOrders ==
    ASSUME NEW q, NEW S, Orders(q, S)
    PROVE  Ascending(S) = q
<1>1. IsFiniteSet(S) /\ Cardinality(S) = Len(q) /\ q \in [1..Len(q) -> S]
    BY OrderedLength
<1>2. \A i, j \in DOMAIN q : i < j => q[i] < q[j]
    BY DEF Orders
<1>3. Ascending(S) \in [1..Len(q) -> S]
      /\ \A i, j \in DOMAIN Ascending(S) : i < j => Ascending(S)[i] < Ascending(S)[j]
    BY <1>1, <1>2 DEF Ascending
<1>4. DOMAIN Ascending(S) = 1..Len(q)
    BY <1>3
<1> QED
    BY <1>3, <1>4, OrderedUnique

-----------------------------------------------------------------------------
(* Filings.                                                                *)

\* A filing is a row of a source.
LEMMA FilingIs ==
    ASSUME NEW rq \in Requests, NEW s, NEW id, NEW f
    PROVE  f \in Filings(rq, s, id) <=>
               \E i \in 1..Depth(rq) : \E j \in 1..Len(Sources[rq][i]) :
                   /\ f = [source |-> i, row |-> Sources[rq][i][j]]
                   /\ Sources[rq][i][j].sel = s /\ Sources[rq][i][j].id = id
<1>1. Sources[rq] \in Seq(Seq(Rows))
    BY SourceAssumption
<1>2. DOMAIN Sources[rq] = 1..Depth(rq)
      /\ \A i \in 1..Depth(rq) : DOMAIN Sources[rq][i] = 1..Len(Sources[rq][i])
    BY <1>1 DEF Depth
<1>3. ASSUME f \in Filings(rq, s, id)
      PROVE  \E i \in 1..Depth(rq) : \E j \in 1..Len(Sources[rq][i]) :
                 /\ f = [source |-> i, row |-> Sources[rq][i][j]]
                 /\ Sources[rq][i][j].sel = s /\ Sources[rq][i][j].id = id
  <2>1. PICK i \in DOMAIN Sources[rq], r \in UNION {Range(src) : src \in Range(Sources[rq])} :
            f = [source |-> i, row |-> r]
      BY <1>3 DEF Filings
  <2>2. f.source = i /\ f.row = r
      BY <2>1
  <2>3. r \in Range(Sources[rq][i]) /\ r.sel = s /\ r.id = id
      BY <1>3, <2>2 DEF Filings
  <2>4. PICK j \in DOMAIN Sources[rq][i] : Sources[rq][i][j] = r
      BY <2>3 DEF Range
  <2> QED
      BY <1>2, <2>1, <2>3, <2>4
<1>4. ASSUME NEW i \in 1..Depth(rq), NEW j \in 1..Len(Sources[rq][i]),
             f = [source |-> i, row |-> Sources[rq][i][j]],
             Sources[rq][i][j].sel = s, Sources[rq][i][j].id = id
      PROVE  f \in Filings(rq, s, id)
  <2> DEFINE r == Sources[rq][i][j]
  <2>1. i \in DOMAIN Sources[rq] /\ j \in DOMAIN Sources[rq][i]
      BY <1>2
  <2>2. r \in Range(Sources[rq][i]) /\ Sources[rq][i] \in Range(Sources[rq])
      BY <2>1 DEF Range
  <2>3. f.source = i /\ f.row = r
      BY <1>4
  <2>4. f \in {[source |-> k, row |-> x] : k \in DOMAIN Sources[rq],
                                          x \in UNION {Range(src) : src \in Range(Sources[rq])}}
      BY <1>4, <2>1, <2>2
  <2>5. f.row \in Range(Sources[rq][f.source]) /\ f.row.sel = s /\ f.row.id = id
      BY <1>4, <2>2, <2>3
  <2> QED
      BY <2>4, <2>5 DEF Filings
<1> QED
    BY <1>3, <1>4

\* The rows of a source are in the order of their ids.
LEMMA RowOrder ==
    ASSUME NEW rq \in Requests, NEW i \in 1..Depth(rq)
    PROVE  /\ Depth(rq) \in Nat
           /\ Sources[rq][i] \in Seq(Rows)
           /\ Len(Sources[rq][i]) \in Nat
           /\ DOMAIN Sources[rq][i] = 1..Len(Sources[rq][i])
           /\ \A j \in 1..Len(Sources[rq][i]) : Sources[rq][i][j] \in Rows
           /\ \A j, k \in 1..Len(Sources[rq][i]) :
                  j < k => Sources[rq][i][j].id < Sources[rq][i][k].id
<1>1. Sources[rq] \in Seq(Seq(Rows))
    BY SourceAssumption
<1>2. Depth(rq) \in Nat /\ i \in DOMAIN Sources[rq] /\ Sources[rq][i] \in Seq(Rows)
    BY <1>1 DEF Depth
<1>3. DOMAIN Sources[rq][i] = 1..Len(Sources[rq][i])
    BY <1>2
<1>4. \A j, k \in DOMAIN Sources[rq][i] : j < k => Sources[rq][i][j].id < Sources[rq][i][k].id
    BY <1>2, SourceAssumption
<1> QED
    BY <1>2, <1>3, <1>4

LEMMA DepthType == ASSUME NEW rq \in Requests PROVE Depth(rq) \in Nat
    BY SourceAssumption DEF Depth

\* The key of a filing.
LEMMA FilingType ==
    ASSUME NEW rq \in Requests, NEW s, NEW id, NEW f \in Filings(rq, s, id)
    PROVE  /\ f.source \in 1..Depth(rq) /\ f.source \in Nat /\ f.row \in Rows
           /\ f.row.sel = s /\ f.row.id = id /\ s \in Selectors /\ id \in Ids
           /\ f = [source |-> f.source, row |-> f.row]
<1>1a. PICK i \in 1..Depth(rq) : \E j \in 1..Len(Sources[rq][i]) :
          /\ f = [source |-> i, row |-> Sources[rq][i][j]]
          /\ Sources[rq][i][j].sel = s /\ Sources[rq][i][j].id = id
    BY FilingIs
<1>1. PICK j \in 1..Len(Sources[rq][i]) :
          /\ f = [source |-> i, row |-> Sources[rq][i][j]]
          /\ Sources[rq][i][j].sel = s /\ Sources[rq][i][j].id = id
    BY <1>1a
<1>2. Sources[rq][i][j] \in Rows /\ Depth(rq) \in Nat
    BY RowOrder
<1> QED
    BY <1>1, <1>2 DEF Rows

\* A source files a key once.
LEMMA FilingUnique ==
    ASSUME NEW rq \in Requests, NEW s, NEW id,
           NEW f \in Filings(rq, s, id), NEW g \in Filings(rq, s, id), f.source = g.source
    PROVE  f = g
<1>1a. PICK i \in 1..Depth(rq) : \E j \in 1..Len(Sources[rq][i]) :
          f = [source |-> i, row |-> Sources[rq][i][j]] /\ Sources[rq][i][j].id = id
    BY FilingIs
<1>1. PICK j \in 1..Len(Sources[rq][i]) :
          f = [source |-> i, row |-> Sources[rq][i][j]] /\ Sources[rq][i][j].id = id
    BY <1>1a
<1>2a. PICK i2 \in 1..Depth(rq) : \E j2 \in 1..Len(Sources[rq][i2]) :
          g = [source |-> i2, row |-> Sources[rq][i2][j2]] /\ Sources[rq][i2][j2].id = id
    BY FilingIs
<1>2. PICK j2 \in 1..Len(Sources[rq][i2]) :
          g = [source |-> i2, row |-> Sources[rq][i2][j2]] /\ Sources[rq][i2][j2].id = id
    BY <1>2a
<1>3. i = i2
    BY <1>1, <1>2
<1>4. id \in Nat
    BY FilingType, IdsAssumption
<1>5. j = j2
  <2>1. j < j2 \/ j2 < j \/ j = j2
      BY RowOrder, <1>3
  <2>2. \A k, l \in 1..Len(Sources[rq][i]) :
            k < l => Sources[rq][i][k].id < Sources[rq][i][l].id
      BY RowOrder
  <2>3. j2 \in 1..Len(Sources[rq][i]) /\ Sources[rq][i][j].id = id /\ Sources[rq][i][j2].id = id
      BY <1>1, <1>2, <1>3
  <2> QED
      BY <2>1, <2>2, <2>3, <1>4
<1> QED
    BY <1>1, <1>2, <1>3, <1>5

\* A row is the filing of its key by its source.
LEMMA RowFiles ==
    ASSUME NEW rq \in Requests, NEW a \in 1..Depth(rq), NEW p \in 1..Len(Sources[rq][a])
    PROVE  LET row == Sources[rq][a][p] IN
           /\ row \in Rows
           /\ [source |-> a, row |-> row] \in Filings(rq, row.sel, row.id)
    BY FilingIs, RowOrder

\* Filings are finitely many.
LEMMA FilingsFinite ==
    ASSUME NEW rq \in Requests, NEW s, NEW id
    PROVE  IsFiniteSet(Filings(rq, s, id))
<1> DEFINE fs == Filings(rq, s, id)
           m == [f \in fs |-> f.source]
<1>1. m \in [fs -> 1..Depth(rq)]
    BY FilingType
<1>2. \A f, g \in fs : m[f] = m[g] => f = g
    BY FilingUnique
<1>3. IsFiniteSet(1..Depth(rq))
    BY DepthType, FS_Interval
<1> HIDE DEF m, fs
<1>4. m \in Injection(fs, 1..Depth(rq))
    BY <1>1, <1>2 DEF Injection, IsInjective
<1>5. IsFiniteSet(fs)
    BY <1>3, <1>4, FS_Injection
<1> QED
    BY <1>5 DEF fs

\* Nothing is seen at the start, and everything at the end.
LEMMA SeenNothing ==
    ASSUME NEW rq \in Requests, NEW s, NEW id
    PROVE  Seen(rq, s, id, 1, 1) = {}
<1> SUFFICES ASSUME NEW f \in Seen(rq, s, id, 1, 1) PROVE FALSE
    OBVIOUS
<1>1. f \in Filings(rq, s, id)
    BY DEF Seen
<1>2. f.source \in 1..Depth(rq) /\ Depth(rq) \in Nat
    BY <1>1, FilingType, DepthType
<1>3. f.source = 1 /\ \E j \in DOMAIN Sources[rq][1] : j < 1
    BY <1>2 DEF Seen
<1>4. DOMAIN Sources[rq][1] = 1..Len(Sources[rq][1]) /\ Len(Sources[rq][1]) \in Nat
    BY <1>2, <1>3, RowOrder
<1> QED
    BY <1>3, <1>4

LEMMA SeenAll ==
    ASSUME NEW rq \in Requests, NEW s, NEW id, NEW p
    PROVE  Seen(rq, s, id, Depth(rq) + 1, p) = Filings(rq, s, id)
<1> SUFFICES ASSUME NEW f \in Filings(rq, s, id) PROVE f.source < Depth(rq) + 1
    BY DEF Seen
<1> QED
    BY FilingType, DepthType

\* What is seen is filed by a source that was read.
LEMMA SeenFiled ==
    ASSUME NEW rq \in Requests, NEW s, NEW id, NEW a \in Nat, NEW p,
           NEW f \in Seen(rq, s, id, a, p)
    PROVE  f \in Filings(rq, s, id) /\ f.source <= a
    BY FilingType DEF Seen

\* What is seen of a row's key is from an earlier source.
LEMMA SeenBefore ==
    ASSUME NEW rq \in Requests, NEW a \in 1..Depth(rq), NEW p \in 1..Len(Sources[rq][a]),
           NEW g \in Seen(rq, Sources[rq][a][p].sel, Sources[rq][a][p].id, a, p)
    PROVE  g.source < a
<1> DEFINE row == Sources[rq][a][p]
           s == row.sel
           id == row.id
<1>1. /\ a \in Nat /\ p \in Nat /\ DOMAIN Sources[rq][a] = 1..Len(Sources[rq][a])
      /\ Len(Sources[rq][a]) \in Nat
    BY RowOrder
<1>2. row \in Rows
    BY RowFiles
<1>3. g \in Filings(rq, s, id) /\ g.source <= a /\ g.source \in Nat
    BY <1>1, SeenFiled, FilingType
<1> SUFFICES ASSUME g.source = a PROVE FALSE
    BY <1>1, <1>3
<1>4. PICK j \in DOMAIN Sources[rq][a] : j < p /\ Sources[rq][a][j] = g.row
    BY <1>1 DEF Seen
<1>5. Sources[rq][a][j].id < row.id
    BY <1>1, <1>4, RowOrder
<1>6. g.row.id = row.id /\ row.id \in Nat
    BY <1>2, <1>3, FilingType, IdsAssumption DEF Rows
<1> QED
    BY <1>4, <1>5, <1>6

\* Row p of source a, and its filing.
AtRow(rq, a, p, q, row, f) ==
    /\ a \in 1..Depth(rq) /\ p \in 1..Len(Sources[rq][a]) /\ q = p + 1
    /\ row = Sources[rq][a][p] /\ f = [source |-> a, row |-> row]

\* The filing of row p is the only one that is seen after it and not before.
LEMMA SeenStep ==
    ASSUME NEW rq \in Requests, NEW a, NEW p, NEW q, NEW row, NEW f, AtRow(rq, a, p, q, row, f),
           NEW s, NEW id
    PROVE  Seen(rq, s, id, a, q) = IF s = row.sel /\ id = row.id THEN Seen(rq, s, id, a, p) \cup {f}
                                   ELSE Seen(rq, s, id, a, p)
<1>0. /\ a \in 1..Depth(rq) /\ p \in 1..Len(Sources[rq][a]) /\ q = p + 1
      /\ row = Sources[rq][a][p] /\ f = [source |-> a, row |-> row]
    BY DEF AtRow
<1>1. /\ a \in Nat /\ p \in Nat /\ DOMAIN Sources[rq][a] = 1..Len(Sources[rq][a])
      /\ Len(Sources[rq][a]) \in Nat
    BY <1>0, RowOrder
<1>2. row \in Rows /\ f \in Filings(rq, row.sel, row.id)
    BY <1>0, RowFiles
<1>3. Seen(rq, s, id, a, p) \subseteq Seen(rq, s, id, a, q)
    BY <1>0, <1>1 DEF Seen
<1>4. ASSUME NEW g \in Seen(rq, s, id, a, q), g \notin Seen(rq, s, id, a, p)
      PROVE  g = f /\ s = row.sel /\ id = row.id
  <2>1. g \in Filings(rq, s, id) /\ g.source = a
        /\ \E j \in DOMAIN Sources[rq][a] : j < p + 1 /\ Sources[rq][a][j] = g.row
      BY <1>0, <1>1, <1>4 DEF Seen
  <2>2. PICK j \in DOMAIN Sources[rq][a] : j < p + 1 /\ Sources[rq][a][j] = g.row
      BY <2>1
  <2>3. ~(j < p)
      BY <1>1, <1>4, <2>1, <2>2 DEF Seen
  <2>4. j = p
      BY <1>1, <2>2, <2>3
  <2>5. g = [source |-> g.source, row |-> g.row] /\ g.row.sel = s /\ g.row.id = id
      BY <2>1, FilingType
  <2> QED
      BY <1>0, <2>1, <2>2, <2>4, <2>5
<1>5. s = row.sel /\ id = row.id => f \in Seen(rq, s, id, a, q)
    BY <1>0, <1>1, <1>2 DEF Seen
<1> QED
    BY <1>3, <1>4, <1>5

\* Past the last row of a source, what is seen is what the next source begins with.
LEMMA SeenSource ==
    ASSUME NEW rq \in Requests, NEW a \in 1..Depth(rq), NEW p \in Nat,
           p > Len(Sources[rq][a]), NEW s, NEW id
    PROVE  Seen(rq, s, id, a + 1, 1) = Seen(rq, s, id, a, p)
<1>1. a \in Nat
    BY DepthType
<1>2. ASSUME NEW f \in Filings(rq, s, id)
      PROVE  (f \in Seen(rq, s, id, a + 1, 1)) <=> (f \in Seen(rq, s, id, a, p))
  <2>1a. PICK i \in 1..Depth(rq) : \E j \in 1..Len(Sources[rq][i]) :
            f = [source |-> i, row |-> Sources[rq][i][j]]
      BY FilingIs
  <2>1. PICK j \in 1..Len(Sources[rq][i]) :
            f = [source |-> i, row |-> Sources[rq][i][j]]
      BY <2>1a
  <2>2. f.source = i /\ f.row = Sources[rq][i][j] /\ i \in Nat
      BY <2>1, DepthType
  <2>3. j \in DOMAIN Sources[rq][i] /\ j \in Nat /\ j <= Len(Sources[rq][i]) /\ Len(Sources[rq][i]) \in Nat
      BY RowOrder
  <2>4. ASSUME i < a + 1 PROVE f \in Seen(rq, s, id, a, p)
    <3>1. i < a \/ i = a
        BY <1>1, <2>2, <2>4
    <3>2. i = a => j < p
        BY <2>3
    <3> QED
        BY <2>2, <2>3, <3>1, <3>2 DEF Seen
  <2>5. ASSUME f \in Seen(rq, s, id, a, p) PROVE f.source < a + 1
      BY <1>1, <2>5, <2>2 DEF Seen
  <2>6. ASSUME f \in Seen(rq, s, id, a + 1, 1) PROVE i < a + 1
    <3> SUFFICES ASSUME ~(i < a + 1) PROVE FALSE
        OBVIOUS
    <3>1. i = a + 1 /\ \E k \in DOMAIN Sources[rq][a + 1] : k < 1
        BY <2>6, <2>2 DEF Seen
    <3>2. DOMAIN Sources[rq][i] = 1..Len(Sources[rq][i]) /\ Len(Sources[rq][i]) \in Nat
        BY RowOrder
    <3> QED
        BY <3>1, <3>2
  <2>7. i < a + 1 => f \in Seen(rq, s, id, a + 1, 1)
      BY <2>2 DEF Seen
  <2> QED
      BY <2>2, <2>4, <2>5, <2>6, <2>7
<1>3. Seen(rq, s, id, a + 1, 1) \subseteq Filings(rq, s, id)
      /\ Seen(rq, s, id, a, p) \subseteq Filings(rq, s, id)
    BY DEF Seen
<1> QED
    BY <1>2, <1>3

-----------------------------------------------------------------------------
(* What is kept of the filings of one key.                                 *)

\* The owner of a repeat, for a request.
OwnerOf(rq, stored, incoming) ==
    LET owners == {f \in {stored, incoming} : f.row.owns} IN
    IF Policy[rq].resolves /\ Cardinality(owners) = 1 THEN CHOOSE f \in owners : TRUE ELSE None

ResolvedOf(rq, stored, incoming) ==
    LET owner == OwnerOf(rq, stored, incoming)
        other == IF owner = stored THEN incoming ELSE stored
    IN [owner EXCEPT !.discards = Append(@, other.source)]

\* The entry of a filing that is read.
EntryOf(f) == [source |-> f.source, row |-> f.row, discards |-> <<>>]

\* Who owns a repeat.
LEMMA OwnerCases ==
    ASSUME NEW rq \in Requests, NEW stored \in Entries, NEW incoming \in Entries, stored # incoming
    PROVE  \/ /\ OwnerOf(rq, stored, incoming) = None
              /\ Policy[rq].resolves => stored.row.owns = incoming.row.owns
           \/ /\ OwnerOf(rq, stored, incoming) = stored
              /\ Policy[rq].resolves /\ stored.row.owns /\ ~incoming.row.owns
           \/ /\ OwnerOf(rq, stored, incoming) = incoming
              /\ Policy[rq].resolves /\ ~stored.row.owns /\ incoming.row.owns
<1> DEFINE owners == {f \in {stored, incoming} : f.row.owns}
<1>1. stored.row.owns \in BOOLEAN /\ incoming.row.owns \in BOOLEAN
    BY DEF Entries, Rows
<1>2. IsFiniteSet(owners)
  <2>1. IsFiniteSet({stored} \cup {incoming})
      BY FS_AddElement, FS_Singleton
  <2>2. owners \in SUBSET ({stored} \cup {incoming})
      OBVIOUS
  <2> QED
      BY <2>1, <2>2, FS_Subset
<1>3. Cardinality(owners) = 1 <=> owners # {} /\ \A x, y \in owners : x = y
    BY <1>2, ExactlyOne
<1>4. OwnerOf(rq, stored, incoming)
         = IF Policy[rq].resolves /\ Cardinality(owners) = 1 THEN CHOOSE f \in owners : TRUE ELSE None
    BY DEF OwnerOf
<1>5. CASE stored.row.owns /\ incoming.row.owns
    BY <1>3, <1>4, <1>5
<1>6. CASE ~stored.row.owns /\ ~incoming.row.owns
  <2>1. owners = {}
      BY <1>6
  <2>2. OwnerOf(rq, stored, incoming) = None
      BY <1>3, <1>4, <2>1
  <2> QED
      BY <1>1, <1>6, <2>2
<1>7. CASE stored.row.owns /\ ~incoming.row.owns
  <2>1. owners = {stored}
      BY <1>7
  <2> QED
      BY <1>3, <1>4, <1>7, <2>1, PolicyAssumption
<1>8. CASE ~stored.row.owns /\ incoming.row.owns
  <2>1. owners = {incoming}
      BY <1>8
  <2> QED
      BY <1>3, <1>4, <1>8, <2>1, PolicyAssumption
<1> QED
    BY <1>1, <1>5, <1>6, <1>7, <1>8

\* A first filing stands for itself.
LEMMA StandsFirst ==
    ASSUME NEW rq \in Requests, NEW a \in Nat, NEW row \in Rows
    PROVE  LET f == [source |-> a, row |-> row] IN
           EntryOf(f) \in Entries /\ FilingOf(EntryOf(f)) = f /\ StandsFor(rq, EntryOf(f), {f})
<1> DEFINE f == [source |-> a, row |-> row]
<1>1. EntryOf(f) \in Entries /\ FilingOf(EntryOf(f)) = f
    BY DEF EntryOf, Entries, FilingOf
<1>2. EntryOf(f).discards = <<>> /\ EntryOf(f).source = a /\ f.source = a
    BY DEF EntryOf
<1>3. {<<>>[i] : i \in DOMAIN <<>>} = {} /\ {g.source : g \in {f}} \ {a} = {}
    BY <1>2
<1>4. \A i, j \in DOMAIN <<>> : i < j => <<>>[i] < <<>>[j]
    OBVIOUS
<1> HIDE DEF f
<1>5. StandsFor(rq, EntryOf(f), {f})
    BY <1>1, <1>2, <1>3, <1>4 DEF StandsFor
<1> QED
    BY <1>1, <1>5 DEF f

\* One more source at the end of an ordered list.
LEMMA OrdersAppend ==
    ASSUME NEW q, NEW S, Orders(q, S), NEW a \in Nat, \A x \in S : x < a
    PROVE  Orders(Append(q, a), S \cup {a})
<1> DEFINE r == Append(q, a)
           n == Len(q)
<1>1. n \in Nat /\ DOMAIN q = 1..n /\ \A i \in 1..n : q[i] \in S /\ q[i] \in Nat
    BY DEF Orders
<1>2. r \in Seq(Nat) /\ DOMAIN r = 1..(n + 1) /\ r[n + 1] = a /\ \A i \in 1..n : r[i] = q[i]
    BY <1>1 DEF Orders
<1>3. \A i, j \in 1..n : i < j => q[i] < q[j]
    BY <1>1 DEF Orders
<1>4. {q[i] : i \in 1..n} = S
    BY <1>1 DEF Orders
<1> HIDE DEF r, n
<1>5. ASSUME NEW i \in DOMAIN r, NEW j \in DOMAIN r, i < j
      PROVE  r[i] < r[j]
  <2>1. i \in 1..n
      BY <1>1, <1>2, <1>5
  <2>2. j \in 1..n \/ j = n + 1
      BY <1>1, <1>2
  <2> QED
      BY <1>1, <1>2, <1>3, <1>5, <2>1, <2>2
<1>6. {r[i] : i \in DOMAIN r} = S \cup {a}
  <2>1. ASSUME NEW i \in DOMAIN r PROVE r[i] \in S \cup {a}
    <3>1. i \in 1..n \/ i = n + 1
        BY <1>1, <1>2
    <3> QED
        BY <1>1, <1>2, <3>1
  <2>2. ASSUME NEW x \in S \cup {a} PROVE \E i \in DOMAIN r : r[i] = x
    <3>1. CASE x = a
        BY <1>1, <1>2, <3>1
    <3>2. CASE x # a
      <4>1. PICK i \in 1..n : q[i] = x
          BY <1>4, <3>2
      <4> QED
          BY <1>1, <1>2, <4>1
    <3> QED
        BY <3>1, <3>2
  <2> QED
      BY <2>1, <2>2
<1>7. Orders(r, S \cup {a})
    BY <1>2, <1>5, <1>6 DEF Orders
<1> QED
    BY <1>7 DEF r

\* One source.
LEMMA OrdersOne ==
    ASSUME NEW a \in Nat
    PROVE  Orders(Append(<<>>, a), {a})
<1>1. Append(<<>>, a) = <<a>>
    OBVIOUS
<1>2. <<a>> \in Seq(Nat) /\ DOMAIN <<a>> = {1} /\ <<a>>[1] = a
    OBVIOUS
<1>3. \A i, j \in DOMAIN <<a>> : i < j => <<a>>[i] < <<a>>[j]
    BY <1>2
<1>4. {<<a>>[i] : i \in DOMAIN <<a>>} = {a}
    BY <1>2
<1> QED
    BY <1>1, <1>2, <1>3, <1>4 DEF Orders

\* The discards of an entry are the other sources in order.
LEMMA StandsOrders ==
    ASSUME NEW rq \in Requests, NEW e \in Entries, NEW seen, StandsFor(rq, e, seen)
    PROVE  Orders(e.discards, {f.source : f \in seen} \ {e.source})
    BY DEF Orders, StandsFor, Entries

\* A repeat whose owner is known is resolved into what stands for all filings.
LEMMA StandsResolved ==
    ASSUME NEW rq \in Requests, NEW stored \in Entries, NEW seen, StandsFor(rq, stored, seen),
           NEW a \in Nat, NEW row \in Rows,
           \A g \in seen : g.source \in Nat /\ g.source < a /\ g = [source |-> g.source, row |-> g.row],
           OwnerOf(rq, stored, EntryOf([source |-> a, row |-> row])) # None
    PROVE  LET f == [source |-> a, row |-> row]
               e == ResolvedOf(rq, stored, EntryOf(f))
           IN e \in Entries /\ StandsFor(rq, e, seen \cup {f})
<1> DEFINE f == [source |-> a, row |-> row]
           incoming == EntryOf(f)
           e == ResolvedOf(rq, stored, incoming)
           k == FilingOf(stored)
<1>1. incoming \in Entries /\ incoming.source = a /\ incoming.row = row /\ incoming.discards = <<>>
      /\ FilingOf(incoming) = f /\ f.source = a /\ f.row = row
    BY StandsFirst DEF EntryOf
<1>2. k \in seen /\ k.source = stored.source /\ k.row = stored.row
    BY DEF StandsFor, FilingOf
<1>3. stored.source < a /\ stored.source \in Nat /\ stored # incoming
    BY <1>1, <1>2
<1>4. Orders(stored.discards, {g.source : g \in seen} \ {stored.source})
    BY StandsOrders
<1>5. f \notin seen /\ f # k
    BY <1>1, <1>2
<1>6. Policy[rq].resolves
      /\ \/ OwnerOf(rq, stored, incoming) = stored /\ stored.row.owns /\ ~row.owns
         \/ OwnerOf(rq, stored, incoming) = incoming /\ ~stored.row.owns /\ row.owns
    BY <1>1, <1>3, OwnerCases
<1>7. stored \in [source : Nat, row : Rows, discards : Seq(Nat)]
      /\ incoming \in [source : Nat, row : Rows, discards : Seq(Nat)]
    BY <1>1 DEF Entries
<1>8. \A g \in seen : g.row.owns => g = k \/ seen = {k}
    BY DEF StandsFor
<1>9. \A g, h \in seen : g.source < stored.source /\ h.source < stored.source => g = h
    BY <1>2, <1>3 DEF StandsFor
<1>10. ~stored.row.owns => seen = {k}
    BY DEF StandsFor
<1> DEFINE S == {g.source : g \in seen}
           T == {g.source : g \in seen \cup {f}}
<1>11. T = S \cup {a} /\ \A x \in S : x < a
    BY <1>1
<1> HIDE DEF f, incoming, k, S, T
<1>12. CASE OwnerOf(rq, stored, incoming) = stored /\ stored.row.owns /\ ~row.owns
  <2>1. e = [stored EXCEPT !.discards = Append(@, a)]
      BY <1>1, <1>12 DEF ResolvedOf
  <2>a. Append(stored.discards, a) \in Seq(Nat)
      BY <1>7
  <2>b. e.source = stored.source /\ e.row = stored.row /\ e.discards = Append(stored.discards, a)
      BY <1>7, <2>1
  <2>c. e \in [source : Nat, row : Rows, discards : Seq(Nat)]
    <3> DEFINE d == Append(stored.discards, a)
    <3>1. e = [stored EXCEPT !.discards = d] /\ d \in Seq(Nat)
        BY <2>1, <2>a
    <3> HIDE DEF d, e
    <3> QED
        BY <1>7, <3>1
  <2>2. e.source = stored.source /\ e.row = stored.row /\ e.discards = Append(stored.discards, a)
        /\ e \in Entries
      BY <2>b, <2>c DEF Entries
  <2> HIDE DEF e
  <2>3. Orders(e.discards, T \ {e.source})
    <3>1. Orders(e.discards, (S \ {stored.source}) \cup {a})
        BY <1>4, <1>11, <2>2, OrdersAppend DEF S
    <3>2. (S \ {stored.source}) \cup {a} = T \ {e.source}
        BY <1>3, <1>11, <2>2
    <3> QED
        BY <3>1, <3>2
  <2>4. FilingOf(e) = k
      BY <2>2 DEF FilingOf, k
  <2>5. \A g \in seen \cup {f} : g.row.owns => g = k
      BY <1>1, <1>8, <1>12
  <2>6. \A g, h \in seen \cup {f} : g.source < e.source /\ h.source < e.source => g = h
      BY <1>1, <1>3, <1>9, <2>2
  <2>7. StandsFor(rq, e, seen \cup {f})
      BY <1>2, <1>6, <1>12, <2>2, <2>3, <2>4, <2>5, <2>6 DEF StandsFor, Orders, T
  <2> QED
      BY <2>2, <2>7 DEF e, f, incoming
<1>13. CASE OwnerOf(rq, stored, incoming) = incoming /\ ~stored.row.owns /\ row.owns
  <2>1. e = [incoming EXCEPT !.discards = Append(@, stored.source)]
      BY <1>3, <1>13 DEF ResolvedOf
  <2>a. Append(<<>>, stored.source) \in Seq(Nat)
      BY <1>3
  <2>b. e \in [source : Nat, row : Rows, discards : Seq(Nat)]
        /\ e.source = a /\ e.row = row /\ e.discards = Append(<<>>, stored.source)
    <3> DEFINE d == Append(<<>>, stored.source)
    <3>1. e = [incoming EXCEPT !.discards = d] /\ d \in Seq(Nat)
        BY <1>1, <2>1, <2>a
    <3> HIDE DEF d, e
    <3>2. e \in [source : Nat, row : Rows, discards : Seq(Nat)]
          /\ e.source = a /\ e.row = row /\ e.discards = d
        BY <1>1, <1>7, <3>1
    <3> QED
        BY <3>2 DEF d
  <2>2. e.source = a /\ e.row = row /\ e.discards = Append(<<>>, stored.source) /\ e \in Entries
      BY <2>b DEF Entries
  <2> HIDE DEF e
  <2>3. seen = {k}
      BY <1>10, <1>13
  <2>5. Orders(e.discards, {stored.source})
      BY <1>3, <2>2, OrdersOne
  <2>6. {stored.source} = T \ {e.source}
    <3>1. S = {stored.source}
        BY <1>2, <2>3 DEF S
    <3> QED
        BY <1>3, <1>11, <2>2, <3>1
  <2>7. FilingOf(e) = f
      BY <2>2 DEF FilingOf, f
  <2>8. \A g \in seen \cup {f} : g.row.owns => g = f
      BY <1>2, <1>13, <2>3
  <2>9. \A g, h \in seen \cup {f} : g.source < e.source /\ h.source < e.source => g = h
      BY <1>1, <1>3, <2>2, <2>3
  <2>10. StandsFor(rq, e, seen \cup {f})
      BY <1>6, <1>13, <2>2, <2>5, <2>6, <2>7, <2>8, <2>9 DEF StandsFor, Orders, T
  <2> QED
      BY <2>2, <2>10 DEF e, f, incoming
<1> QED
    BY <1>6, <1>12, <1>13

\* The filing that is kept of a key with several filings and one owner is the owner's.
LEMMA KeptOwner ==
    ASSUME NEW rq \in Requests, NEW s, NEW id, NEW k \in Filings(rq, s, id), k.row.owns,
           \A g \in Filings(rq, s, id) : g.row.owns => g = k
    PROVE  Cardinality(Filings(rq, s, id)) > 1 => Kept(rq, s, id) = k
<1> DEFINE fs == Filings(rq, s, id)
<1>1. Kept(rq, s, id) = CHOOSE f \in fs : Cardinality(fs) = 1 \/ f.row.owns
    BY DEF Kept
<1>2. Cardinality(fs) \in Nat
    BY FilingsFinite, FS_CardinalityType
<1> HIDE DEF fs
<1>3. ASSUME Cardinality(fs) > 1 PROVE Kept(rq, s, id) = k
  <2>1. Cardinality(fs) # 1
      BY <1>2, <1>3
  <2> QED
      BY <1>1, <2>1 DEF fs
<1> QED
    BY <1>3 DEF fs

\* What stands for every filing of a key is what an uninterrupted build keeps.
LEMMA StandsEnd ==
    ASSUME NEW rq \in Requests, NEW s, NEW id, NEW e \in Entries,
           StandsFor(rq, e, Filings(rq, s, id))
    PROVE  /\ Resolvable(rq, s, id)
           /\ Kept(rq, s, id) = FilingOf(e)
           /\ e.source = Kept(rq, s, id).source /\ e.row = Kept(rq, s, id).row
           /\ e.discards = Ascending({f.source : f \in Filings(rq, s, id)} \ {Kept(rq, s, id).source})
<1> DEFINE fs == Filings(rq, s, id)
           k == FilingOf(e)
<1>1. k \in fs /\ k.source = e.source /\ k.row = e.row
    BY DEF StandsFor, FilingOf
<1>2. IsFiniteSet(fs) /\ Cardinality(fs) \in Nat
    BY FilingsFinite, FS_CardinalityType
<1>3. Cardinality(fs) > 1 <=> fs # {k}
  <2>1. Cardinality(fs) < 2 <=> \A x, y \in fs : x = y
      BY <1>2, AtMostOne
  <2>2. (\A x, y \in fs : x = y) <=> fs = {k}
      BY <1>1
  <2> QED
      BY <1>2, <2>1, <2>2
<1>4. fs # {k} => Policy[rq].resolves /\ k.row.owns
    BY <1>1 DEF StandsFor
<1>5. fs # {k} => \A f \in fs : f.row.owns => f = k
    BY DEF StandsFor
<1>6. fs # {k} => \A f, g \in fs : f.source < k.source /\ g.source < k.source => f = g
    BY <1>1 DEF StandsFor
<1> HIDE DEF fs, k
<1>7. Kept(rq, s, id) = k
  <2>1. CASE fs = {k}
    <3>1. Cardinality(fs) = 1
        BY <2>1, FS_Singleton
    <3>2. Kept(rq, s, id) \in fs
        BY <1>1, <3>1 DEF Kept, fs
    <3> QED
        BY <2>1, <3>2
  <2>2. CASE fs # {k}
      BY <1>1, <1>3, <1>4, <1>5, <2>2, KeptOwner DEF fs
  <2> QED
      BY <2>1, <2>2
<1>8. Resolvable(rq, s, id)
  <2> SUFFICES ASSUME Cardinality(fs) > 1
               PROVE  /\ Policy[rq].resolves
                      /\ Cardinality(Owning(rq, s, id)) = 1
                      /\ Cardinality({f \in fs : f.source < k.source}) < 2
      BY <1>7 DEF Resolvable, fs
  <2>1. fs # {k}
      BY <1>3
  <2>2. Owning(rq, s, id) = {k}
      BY <1>1, <1>4, <1>5, <2>1 DEF Owning, fs
  <2>3. Cardinality(Owning(rq, s, id)) = 1
      BY <2>2, FS_Singleton
  <2>4. IsFiniteSet({f \in fs : f.source < k.source})
      BY <1>2, FS_Subset
  <2>5. \A f, g \in {f \in fs : f.source < k.source} : f = g
      BY <1>6, <2>1
  <2>6. Cardinality({f \in fs : f.source < k.source}) < 2
      BY <2>4, <2>5, AtMostOne
  <2> QED
      BY <1>4, <2>1, <2>3, <2>6
<1>9. e.discards = Ascending({f.source : f \in fs} \ {e.source})
    BY StandsOrders, AscendingOrders DEF fs
<1> QED
    BY <1>1, <1>7, <1>8, <1>9 DEF fs, k

\* A repeat that nobody resolves is one that no build resolves.
LEMMA StandsRefused ==
    ASSUME NEW rq \in Requests, NEW s, NEW id, NEW seen \in SUBSET Filings(rq, s, id),
           NEW stored \in Entries, StandsFor(rq, stored, seen),
           NEW a \in Nat, NEW row \in Rows,
           [source |-> a, row |-> row] \in Filings(rq, s, id),
           \A g \in seen : g.source < a,
           \A g \in Filings(rq, s, id) : g \in seen \/ g.source >= a,
           OwnerOf(rq, stored, EntryOf([source |-> a, row |-> row])) = None
    PROVE  ~Resolvable(rq, s, id)
<1> DEFINE fs == Filings(rq, s, id)
           f == [source |-> a, row |-> row]
           k == FilingOf(stored)
           first(x) == {g \in fs : g.source < x.source}
<1> SUFFICES ASSUME Resolvable(rq, s, id) PROVE FALSE
    OBVIOUS
<1>1. f \in fs /\ f.source = a /\ f.row = row
    OBVIOUS
<1>2. k \in seen /\ k \in fs /\ k.source = stored.source /\ k.row = stored.row
    BY DEF StandsFor, FilingOf
<1>3. k # f /\ k.source < a /\ k.source \in Nat
    BY <1>1, <1>2, FilingType
<1>4. EntryOf(f) \in Entries /\ EntryOf(f).row = row /\ EntryOf(f).source = a /\ stored # EntryOf(f)
    BY <1>2, <1>3, StandsFirst DEF EntryOf
<1>5. Policy[rq].resolves => stored.row.owns = row.owns
    BY <1>4, OwnerCases, NoneAssumption
<1>6. seen # {k} => stored.row.owns
    BY DEF StandsFor
<1>7. IsFiniteSet(fs) /\ Cardinality(fs) \in Nat
    BY FilingsFinite, FS_CardinalityType
<1>8. \A g \in fs : g.source = a => g = f
    BY <1>1, FilingUnique
<1>9. \A g \in fs : g.source \in Nat
    BY FilingType
<1>10. \A x \in fs : IsFiniteSet(first(x))
    BY <1>7, FS_Subset
<1>11. row.owns \in BOOLEAN
    BY DEF Rows
<1> HIDE DEF fs, f, k, first
<1>12. Cardinality(fs) > 1
  <2>1. ~(Cardinality(fs) < 2)
      BY <1>1, <1>2, <1>3, <1>7, AtMostOne
  <2> QED
      BY <1>7, <2>1
<1>13. Policy[rq].resolves /\ Cardinality(Owning(rq, s, id)) = 1
       /\ Cardinality(first(Kept(rq, s, id))) < 2
    BY <1>12 DEF Resolvable, fs, first
<1>14. Owning(rq, s, id) = {g \in fs : g.row.owns}
    BY DEF Owning, fs
<1>15. IsFiniteSet({g \in fs : g.row.owns})
    BY <1>7, FS_Subset
<1>16. PICK o : {g \in fs : g.row.owns} = {o}
    BY <1>13, <1>14, <1>15, FS_Singleton
<1>17. o \in fs /\ o.row.owns /\ \A g \in fs : g.row.owns => g = o
    BY <1>16
<1>18. Kept(rq, s, id) = o
    BY <1>12, <1>17, KeptOwner DEF fs
<1>19. k.row.owns = row.owns
    BY <1>2, <1>5, <1>13
<1>20. ~row.owns
    BY <1>1, <1>2, <1>3, <1>17, <1>19
<1>21. seen = {k} /\ o # k /\ o # f
    BY <1>1, <1>2, <1>6, <1>17, <1>19, <1>20
<1>22. o.source >= a /\ o.source # a
    BY <1>8, <1>17, <1>21 DEF fs
<1>23. k \in first(o) /\ f \in first(o)
    BY <1>1, <1>2, <1>3, <1>9, <1>17, <1>22 DEF first
<1>24. \A x, y \in first(o) : x = y
    BY <1>10, <1>13, <1>17, <1>18, AtMostOne
<1> QED
    BY <1>3, <1>23, <1>24

-----------------------------------------------------------------------------
(* Reading.                                                                *)

\* A partial function, and one with a value stored under a key.
LEMMA PartialType ==
    ASSUME NEW S, NEW T, NEW f \in Partial(S, T)
    PROVE  DOMAIN f \subseteq S /\ f \in [DOMAIN f -> T] /\ \A x \in DOMAIN f : f[x] \in T
    BY DEF Partial

LEMMA PartialPut ==
    ASSUME NEW S, NEW T, NEW f \in Partial(S, T), NEW k \in S, NEW v \in T
    PROVE  Put(f, k, v) \in Partial(S, T)
<1> DEFINE D == DOMAIN f \cup {k}
<1>1. D \in SUBSET S /\ \A x \in DOMAIN f : f[x] \in T
    BY PartialType
<1>2. Put(f, k, v) \in [D -> T]
    BY <1>1 DEF Put
<1> QED
    BY <1>1, <1>2 DEF Partial

LEMMA PartialEmpty ==
    ASSUME NEW S, NEW T, NEW f, DOMAIN f = {}, f = [x \in DOMAIN f |-> f[x]]
    PROVE  f \in Partial(S, T)
<1>1. f \in [{} -> T]
    OBVIOUS
<1> QED
    BY <1>1 DEF Partial

\* An entry of the workspace is stored, or absent.
LEMMA GetEntry ==
    ASSUME NEW S, NEW f \in Partial(S, Entries), NEW k
    PROVE  /\ Get(f, k) # None <=> k \in DOMAIN f
           /\ k \in DOMAIN f => Get(f, k) = f[k] /\ Get(f, k) \in Entries
    BY PartialType, NoneAssumption DEF Get

\* The row that is read is kept, resolved or refused.
LEMMA LoadKeeps ==
    ASSUME NEW rq \in Requests, NEW a \in 1..Depth(rq), NEW p \in 1..Len(Sources[rq][a]),
           NEW rows \in Partial(Keys, Entries), RowsAt(rq, rows, a, p),
           NEW q, q = p + 1
    PROVE  LET row == Sources[rq][a][p]
               k == <<row.sel, row.id>>
               incoming == EntryOf([source |-> a, row |-> row])
               stored == Get(rows, k)
               next == IF stored = None THEN incoming ELSE ResolvedOf(rq, stored, incoming)
           IN IF stored # None /\ OwnerOf(rq, stored, incoming) = None
              THEN row.sel \in Selectors /\ row.id \in Ids /\ ~Resolvable(rq, row.sel, row.id)
              ELSE /\ Put(rows, k, next) \in Partial(Keys, Entries)
                   /\ RowsAt(rq, Put(rows, k, next), a, q)
<1> DEFINE row == Sources[rq][a][p]
           k == <<row.sel, row.id>>
           f == [source |-> a, row |-> row]
           incoming == EntryOf(f)
           stored == Get(rows, k)
           next == IF stored = None THEN incoming ELSE ResolvedOf(rq, stored, incoming)
           seen == Seen(rq, row.sel, row.id, a, p)
<1>1. row \in Rows /\ f \in Filings(rq, row.sel, row.id) /\ a \in Nat
    BY RowFiles, DepthType
<1>2. row.sel \in Selectors /\ row.id \in Ids /\ k \in Keys
    BY <1>1 DEF Rows, Keys
<1>3. incoming \in Entries /\ FilingOf(incoming) = f /\ StandsFor(rq, incoming, {f})
    BY <1>1, StandsFirst
<1>4. /\ stored # None <=> k \in DOMAIN rows
      /\ k \in DOMAIN rows => stored = rows[k] /\ stored \in Entries
    BY GetEntry
<1>5. /\ k \in DOMAIN rows <=> seen # {}
      /\ k \in DOMAIN rows => StandsFor(rq, rows[k], seen)
    BY <1>2 DEF RowsAt
<1>6. seen \in SUBSET Filings(rq, row.sel, row.id)
    BY DEF Seen
<1>7. \A g \in seen : g.source \in Nat /\ g.source < a /\ g = [source |-> g.source, row |-> g.row]
  <2>1. \A g \in seen : g.source < a
      BY SeenBefore
  <2> QED
      BY <1>6, <2>1, FilingType
<1>8. \A g \in Filings(rq, row.sel, row.id) : g \in seen \/ g.source >= a
    BY <1>1, FilingType DEF Seen
<1>9a. AtRow(rq, a, p, q, row, f)
    BY DEF AtRow
<1> HIDE DEF row, f, incoming, stored
<1>9. Seen(rq, row.sel, row.id, a, q) = seen \cup {f}
    BY <1>9a, SeenStep
<1>10. ASSUME NEW s \in Selectors, NEW id \in Ids, <<s, id>> # k
       PROVE  Seen(rq, s, id, a, q) = Seen(rq, s, id, a, p)
  <2>1. ~(s = row.sel /\ id = row.id)
      BY <1>10
  <2> QED
      BY <1>9a, <2>1, SeenStep
<1> HIDE DEF seen
<1>11. ASSUME stored # None, OwnerOf(rq, stored, incoming) = None
       PROVE  ~Resolvable(rq, row.sel, row.id)
    BY <1>1, <1>4, <1>5, <1>6, <1>7, <1>8, <1>11, StandsRefused DEF f, incoming
<1>12. ASSUME ~(stored # None /\ OwnerOf(rq, stored, incoming) = None)
       PROVE  next \in Entries /\ StandsFor(rq, next, seen \cup {f})
  <2>1. CASE stored = None
    <3>1. seen = {} /\ next = incoming
        BY <1>4, <1>5, <2>1
    <3>2. seen \cup {f} = {f}
        BY <3>1
    <3> QED
        BY <1>3, <3>1, <3>2
  <2>2. CASE stored # None
    <3>1. stored \in Entries /\ StandsFor(rq, stored, seen)
        BY <1>4, <1>5, <2>2
    <3>2. OwnerOf(rq, stored, incoming) # None /\ next = ResolvedOf(rq, stored, incoming)
        BY <1>12, <2>2
    <3> QED
      <4>1. \A g \in seen : g.source \in Nat /\ g.source < a
                             /\ g = [source |-> g.source, row |-> g.row]
          BY <1>7
      <4>2. OwnerOf(rq, stored, EntryOf([source |-> a, row |-> row])) # None
          BY <3>2 DEF f, incoming
      <4>3. ResolvedOf(rq, stored, EntryOf([source |-> a, row |-> row])) \in Entries
            /\ StandsFor(rq, ResolvedOf(rq, stored, EntryOf([source |-> a, row |-> row])),
                         seen \cup {[source |-> a, row |-> row]})
          BY <1>1, <3>1, <4>1, <4>2, StandsResolved
      <4> QED
          BY <3>2, <4>3 DEF f, incoming
  <2> QED
      BY <2>1, <2>2
<1> HIDE DEF next, k
<1>13. ASSUME ~(stored # None /\ OwnerOf(rq, stored, incoming) = None)
       PROVE  /\ Put(rows, k, next) \in Partial(Keys, Entries)
              /\ RowsAt(rq, Put(rows, k, next), a, q)
  <2> DEFINE g == Put(rows, k, next)
  <2>1. /\ g \in Partial(Keys, Entries)
        /\ DOMAIN g = DOMAIN rows \cup {k} /\ g[k] = next
        /\ \A x \in DOMAIN rows : x # k => g[x] = rows[x]
    <3>1. next \in Entries
        BY <1>12, <1>13
    <3>2. k \in Keys
        BY <1>2 DEF k
    <3> HIDE DEF g
    <3>3. g \in Partial(Keys, Entries)
        BY <3>1, <3>2, PartialPut DEF g
    <3>4. DOMAIN g = DOMAIN rows \cup {k} /\ g[k] = next
        BY DEF g, Put
    <3>5. \A x \in DOMAIN rows : x # k => g[x] = rows[x]
        BY DEF g, Put
    <3> QED
        BY <3>3, <3>4, <3>5
  <2> HIDE DEF g
  <2>2. ASSUME NEW s \in Selectors, NEW id \in Ids
        PROVE  /\ <<s, id>> \in DOMAIN g <=> Seen(rq, s, id, a, q) # {}
               /\ <<s, id>> \in DOMAIN g => StandsFor(rq, g[<<s, id>>], Seen(rq, s, id, a, q))
    <3>1. CASE <<s, id>> = k
      <4>1. s = row.sel /\ id = row.id
          BY <3>1 DEF k
      <4> QED
          BY <1>9, <1>12, <1>13, <2>1, <3>1, <4>1
    <3>2. CASE <<s, id>> # k
      <4>1. /\ <<s, id>> \in DOMAIN rows <=> Seen(rq, s, id, a, p) # {}
            /\ <<s, id>> \in DOMAIN rows => StandsFor(rq, rows[<<s, id>>], Seen(rq, s, id, a, p))
          BY DEF RowsAt
      <4> QED
          BY <1>10, <2>1, <3>2, <4>1
    <3> QED
        BY <3>1, <3>2
  <2>3. RowsAt(rq, g, a, q)
      BY <2>2 DEF RowsAt
  <2> QED
      BY <2>1, <2>3 DEF g
<1> QED
    BY <1>2, <1>11, <1>13 DEF next, k, incoming, stored, f, row

\* So is its selector.
LEMMA SchemasKeep ==
    ASSUME NEW rq \in Requests, NEW a \in 1..Depth(rq), NEW p \in 1..Len(Sources[rq][a]),
           NEW schemas, SchemasAt(rq, schemas, a, p), NEW q, q = p + 1
    PROVE  SchemasAt(rq, schemas \cup {Sources[rq][a][p].sel}, a, q)
<1> DEFINE row == Sources[rq][a][p]
           f == [source |-> a, row |-> row]
           before(s) == \E id \in Ids : Seen(rq, s, id, a, p) # {}
           after(s) == \E id \in Ids : Seen(rq, s, id, a, q) # {}
<1>1. row.sel \in Selectors /\ row.id \in Ids
    BY RowFiles DEF Rows
<1>2. ASSUME NEW s \in Selectors
      PROVE  after(s) <=> before(s) \/ s = row.sel
  <2>1. ASSUME NEW id \in Ids
        PROVE  Seen(rq, s, id, a, q)
                  = IF s = row.sel /\ id = row.id THEN Seen(rq, s, id, a, p) \cup {f}
                    ELSE Seen(rq, s, id, a, p)
    <3>1. AtRow(rq, a, p, q, row, f)
        BY DEF AtRow
    <3> HIDE DEF row, f
    <3>2. CASE s = row.sel /\ id = row.id
        BY <3>1, <3>2, SeenStep
    <3>3. CASE ~(s = row.sel /\ id = row.id)
        BY <3>1, <3>3, SeenStep
    <3> QED
        BY <3>2, <3>3
  <2> HIDE DEF row, f
  <2> QED
      BY <1>1, <2>1
<1>3. schemas = {s \in Selectors : before(s)}
    BY DEF SchemasAt
<1> HIDE DEF row, before, after
<1>4. schemas \cup {row.sel} = {s \in Selectors : after(s)}
    BY <1>1, <1>2, <1>3
<1> QED
    BY <1>4 DEF SchemasAt, after, row

\* What is kept does not depend on where in the sources a build stands, only on what it read.
LEMMA ReadSame ==
    ASSUME NEW rq, NEW w, NEW a, NEW p, NEW b, NEW q, ReadAt(rq, w, a, p),
           \A s, id : Seen(rq, s, id, b, q) = Seen(rq, s, id, a, p)
    PROVE  ReadAt(rq, w, b, q)
<1>1. RowsAt(rq, w.rows, b, q)
    BY DEF ReadAt, RowsAt
<1>2. SchemasAt(rq, w.schemas, b, q)
    BY DEF ReadAt, SchemasAt
<1> QED
    BY <1>1, <1>2 DEF ReadAt

\* The rows of a workspace that has read every source.
Complete(rq, rows) ==
    /\ rows \in Partial(Keys, Entries)
    /\ \A s \in Selectors, id \in Ids :
          /\ <<s, id>> \in DOMAIN rows <=> Filings(rq, s, id) # {}
          /\ <<s, id>> \in DOMAIN rows =>
                /\ rows[<<s, id>>].source = Kept(rq, s, id).source
                /\ rows[<<s, id>>].row = Kept(rq, s, id).row
                /\ rows[<<s, id>>].discards
                      = Ascending({f.source : f \in Filings(rq, s, id)} \ {Kept(rq, s, id).source})
                /\ rows[<<s, id>>].row.id = id

\* When every source is read, the rows are those an uninterrupted build keeps.
LEMMA ReadComplete ==
    ASSUME NEW rq \in Requests, NEW w, w.rows \in Partial(Keys, Entries),
           ReadAt(rq, w, Depth(rq) + 1, 1)
    PROVE  Complete(rq, w.rows) /\ w.schemas = StatedSelectors(rq)
           /\ \A s \in Selectors, id \in Ids : Resolvable(rq, s, id)
<1>1. ASSUME NEW s \in Selectors, NEW id \in Ids
      PROVE  /\ <<s, id>> \in DOMAIN w.rows <=> Filings(rq, s, id) # {}
             /\ <<s, id>> \in DOMAIN w.rows =>
                   /\ w.rows[<<s, id>>].source = Kept(rq, s, id).source
                   /\ w.rows[<<s, id>>].row = Kept(rq, s, id).row
                   /\ w.rows[<<s, id>>].discards
                         = Ascending({f.source : f \in Filings(rq, s, id)} \ {Kept(rq, s, id).source})
                   /\ w.rows[<<s, id>>].row.id = id
             /\ Resolvable(rq, s, id)
  <2>1. Seen(rq, s, id, Depth(rq) + 1, 1) = Filings(rq, s, id)
      BY SeenAll
  <2>2. /\ <<s, id>> \in DOMAIN w.rows <=> Filings(rq, s, id) # {}
        /\ <<s, id>> \in DOMAIN w.rows => StandsFor(rq, w.rows[<<s, id>>], Filings(rq, s, id))
      BY <2>1 DEF ReadAt, RowsAt
  <2>3. CASE <<s, id>> \in DOMAIN w.rows
    <3> DEFINE e == w.rows[<<s, id>>]
    <3>1. e \in Entries
        BY <2>3, PartialType
    <3>2. StandsFor(rq, e, Filings(rq, s, id))
        BY <2>2, <2>3
    <3>3. FilingOf(e) \in Filings(rq, s, id)
        BY <3>2 DEF StandsFor
    <3>4. e.row.id = id
        BY <3>3, FilingType DEF FilingOf
    <3>5. /\ Resolvable(rq, s, id)
          /\ e.source = Kept(rq, s, id).source /\ e.row = Kept(rq, s, id).row
          /\ e.discards = Ascending({f.source : f \in Filings(rq, s, id)} \ {Kept(rq, s, id).source})
      <4> HIDE DEF e
      <4> QED
          BY <3>1, <3>2, StandsEnd
    <3> QED
        BY <2>2, <2>3, <3>4, <3>5
  <2>4. CASE <<s, id>> \notin DOMAIN w.rows
    <3>1. Filings(rq, s, id) = {}
        BY <2>2, <2>4
    <3>2. Cardinality(Filings(rq, s, id)) = 0
        BY <3>1, FS_EmptySet
    <3>3. Resolvable(rq, s, id)
        BY <3>2 DEF Resolvable
    <3> QED
        BY <2>2, <2>4, <3>3
  <2> QED
      BY <2>3, <2>4
<1>2. w.schemas = StatedSelectors(rq)
    BY SeenAll DEF ReadAt, SchemasAt, StatedSelectors
<1>3. Complete(rq, w.rows)
    BY <1>1 DEF Complete
<1>4. \A s \in Selectors, id \in Ids : Resolvable(rq, s, id)
    BY <1>1
<1> QED
    BY <1>2, <1>3, <1>4

-----------------------------------------------------------------------------
(* The universe and the joins.                                             *)

\* The universe selectors under which an id is staged, and the row that comes first.
HeldBy(rq, rows, id) == {s \in UniverseSelectors(rq) : <<s, id>> \in DOMAIN rows}

FirstRow(rq, rows, id) ==
    LET u == Policy[rq].universe
        i == Min({j \in DOMAIN u : u[j] \in HeldBy(rq, rows, id)})
    IN rows[<<u[i], id>>]

\* The universe selectors are finitely many.
LEMMA UniverseSelectorsType ==
    ASSUME NEW rq \in Requests
    PROVE  UniverseSelectors(rq) \in SUBSET Selectors /\ IsFiniteSet(UniverseSelectors(rq))
<1> DEFINE u == Policy[rq].universe
           n == Len(u)
           US == UniverseSelectors(rq)
<1>1. u \in Seq(Selectors)
    BY PolicyAssumption
<1>2. n \in Nat /\ DOMAIN u = 1..n /\ \A i \in 1..n : u[i] \in Selectors
    BY <1>1
<1>3. US = {u[i] : i \in DOMAIN u}
    BY DEF UniverseSelectors
<1> HIDE DEF u, n, US
<1> DEFINE g == [i \in 1..n |-> u[i]]
<1>4. g \in [1..n -> US] /\ \A y \in US : \E i \in 1..n : g[i] = y
    BY <1>2, <1>3
<1> HIDE DEF g
<1>5. g \in Surjection(1..n, US)
    BY <1>4 DEF Surjection
<1>6. IsFiniteSet(1..n)
    BY <1>2, FS_Interval
<1>7. IsFiniteSet(US)
    BY <1>5, <1>6, FS_Surjection
<1>8. US \in SUBSET Selectors
    BY <1>2, <1>3
<1> QED
    BY <1>7, <1>8 DEF US

\* The ids a pass over complete rows reads are those of the universe.
LEMMA HeldIs ==
    ASSUME NEW rq \in Requests, NEW rows, Complete(rq, rows), NEW id \in Ids
    PROVE  /\ HeldBy(rq, rows, id) = {s \in UniverseSelectors(rq) : Filings(rq, s, id) # {}}
           /\ HeldBy(rq, rows, id) # {} <=> id \in Universe(rq)
           /\ IsFiniteSet(HeldBy(rq, rows, id))
<1>1. HeldBy(rq, rows, id) = {s \in UniverseSelectors(rq) : Filings(rq, s, id) # {}}
    BY UniverseSelectorsType DEF HeldBy, Complete
<1>2. IsFiniteSet(HeldBy(rq, rows, id))
    BY <1>1, UniverseSelectorsType, FS_Subset
<1> QED
    BY <1>1, <1>2 DEF Universe

\* An id under two selectors is a repeat.
LEMMA HeldTwice ==
    ASSUME NEW rq \in Requests, NEW rows, Complete(rq, rows), NEW id \in Ids,
           Cardinality(HeldBy(rq, rows, id)) > 1
    PROVE  ~Distinct(rq)
<1> DEFINE H == HeldBy(rq, rows, id)
<1>1. IsFiniteSet(H) /\ H = {s \in UniverseSelectors(rq) : Filings(rq, s, id) # {}}
    BY HeldIs
<1>2. Cardinality(H) \in Nat /\ ~(Cardinality(H) < 2)
    BY <1>1, FS_CardinalityType
<1> HIDE DEF H
<1>3. PICK x \in H : \E y \in H : x # y
    BY <1>1, <1>2, AtMostOne
<1> QED
    BY <1>1, <1>3 DEF Distinct

\* Without a repeat an id is under one selector.
LEMMA HeldOnce ==
    ASSUME NEW rq \in Requests, NEW rows, Complete(rq, rows), Distinct(rq), NEW id \in Universe(rq)
    PROVE  /\ SelectorOf(rq, id) \in UniverseSelectors(rq)
           /\ Filings(rq, SelectorOf(rq, id), id) # {}
           /\ HeldBy(rq, rows, id) = {SelectorOf(rq, id)}
           /\ ~(Cardinality(HeldBy(rq, rows, id)) > 1)
<1>1. id \in Ids /\ \E s \in UniverseSelectors(rq) : Filings(rq, s, id) # {}
    BY DEF Universe
<1>2. SelectorOf(rq, id) \in UniverseSelectors(rq) /\ Filings(rq, SelectorOf(rq, id), id) # {}
    BY <1>1 DEF SelectorOf
<1>3. HeldBy(rq, rows, id) = {s \in UniverseSelectors(rq) : Filings(rq, s, id) # {}}
    BY <1>1, HeldIs
<1>4. \A s, t \in UniverseSelectors(rq) :
          Filings(rq, s, id) # {} /\ Filings(rq, t, id) # {} => s = t
    BY <1>1 DEF Distinct
<1>5. HeldBy(rq, rows, id) = {SelectorOf(rq, id)}
    BY <1>2, <1>3, <1>4
<1>6. Cardinality({SelectorOf(rq, id)}) = 1
    BY FS_Singleton
<1> QED
    BY <1>2, <1>5, <1>6

\* The row an item is made of.
LEMMA FirstRowIs ==
    ASSUME NEW rq \in Requests, NEW rows, Complete(rq, rows), NEW id \in Universe(rq)
    PROVE  /\ FirstRow(rq, rows, id) \in Entries
           /\ Distinct(rq) =>
                 /\ FirstRow(rq, rows, id).source = KeptOf(rq, id).source
                 /\ FirstRow(rq, rows, id).row = KeptOf(rq, id).row
                 /\ FirstRow(rq, rows, id).discards = Ascending(OthersOf(rq, id))
<1> DEFINE u == Policy[rq].universe
           H == HeldBy(rq, rows, id)
           J == {j \in DOMAIN u : u[j] \in H}
           i == Min(J)
<1>1. id \in Ids /\ H # {} /\ H \subseteq UniverseSelectors(rq)
  <2>1. id \in Ids
      BY DEF Universe
  <2>2. H \subseteq UniverseSelectors(rq)
      BY DEF HeldBy
  <2>3. H # {}
      BY <2>1, HeldIs
  <2> QED
      BY <2>1, <2>2, <2>3
<1>2. u \in Seq(Selectors) /\ DOMAIN u = 1..Len(u)
    BY PolicyAssumption
<1>3. UniverseSelectors(rq) = {u[j] : j \in DOMAIN u}
    BY DEF UniverseSelectors
<1>4. J \in SUBSET Nat /\ J # {}
    BY <1>1, <1>2, <1>3
<1>5. i \in J
    BY <1>4, Least
<1>6. u[i] \in H
    BY <1>5
<1>7. FirstRow(rq, rows, id) = rows[<<u[i], id>>]
    BY DEF FirstRow
<1> HIDE DEF i
<1>8. <<u[i], id>> \in DOMAIN rows /\ u[i] \in UniverseSelectors(rq)
    BY <1>6 DEF HeldBy
<1>9. rows \in Partial(Keys, Entries)
    BY DEF Complete
<1>10. rows[<<u[i], id>>] \in Entries
    BY <1>8, <1>9, PartialType
<1>11. ASSUME Distinct(rq)
       PROVE  /\ FirstRow(rq, rows, id).source = KeptOf(rq, id).source
              /\ FirstRow(rq, rows, id).row = KeptOf(rq, id).row
              /\ FirstRow(rq, rows, id).discards = Ascending(OthersOf(rq, id))
  <2> DEFINE s == SelectorOf(rq, id)
  <2>1. H = {s} /\ s \in UniverseSelectors(rq)
      BY <1>11, HeldOnce
  <2>2. u[i] = s /\ s \in Selectors
      BY <1>6, <2>1, UniverseSelectorsType
  <2>3. /\ rows[<<s, id>>].source = Kept(rq, s, id).source
        /\ rows[<<s, id>>].row = Kept(rq, s, id).row
        /\ rows[<<s, id>>].discards
              = Ascending({f.source : f \in Filings(rq, s, id)} \ {Kept(rq, s, id).source})
      BY <1>1, <1>8, <2>2 DEF Complete
  <2> QED
      BY <1>7, <2>2, <2>3 DEF KeptOf, OthersOf
<1> QED
    BY <1>7, <1>10, <1>11

\* The dockets of the universe.
LEMMA DocketsRight ==
    ASSUME NEW rq \in Requests, NEW rows, Complete(rq, rows), Policy[rq].twoPass,
           NEW dockets,
           dockets = [id \in {i \in Universe(rq) : DocketSel \in HeldBy(rq, rows, i)}
                         |-> rows[<<DocketSel, id>>]]
    PROVE  /\ dockets \in Partial(Ids, Entries)
           /\ Distinct(rq) =>
                 \A d \in Nat \cup {None} :
                     (IF Get(dockets, d) = None THEN None ELSE Get(dockets, d).source) = DocketOf(rq, d)
<1> DEFINE D == {i \in Universe(rq) : DocketSel \in HeldBy(rq, rows, i)}
<1>1. D \in SUBSET Ids
    BY DEF Universe
<1>2. rows \in Partial(Keys, Entries)
    BY DEF Complete
<1>3. \A i \in D : <<DocketSel, i>> \in DOMAIN rows /\ DocketSel \in UniverseSelectors(rq)
    BY DEF HeldBy
<1>4. \A i \in D : rows[<<DocketSel, i>>] \in Entries
    BY <1>2, <1>3, PartialType
<1>5. dockets \in [D -> Entries] /\ \A i \in D : dockets[i] = rows[<<DocketSel, i>>]
    BY <1>4
<1>6. dockets \in Partial(Ids, Entries)
    BY <1>1, <1>5 DEF Partial
<1>7. ASSUME Distinct(rq), NEW d \in Nat \cup {None}
      PROVE  (IF Get(dockets, d) = None THEN None ELSE Get(dockets, d).source) = DocketOf(rq, d)
  <2>1. ASSUME d \in Universe(rq)
        PROVE  d \in D <=> SelectorOf(rq, d) = DocketSel
    <3>1. HeldBy(rq, rows, d) = {SelectorOf(rq, d)}
        BY <1>7, <2>1, HeldOnce
    <3> QED
        BY <2>1, <3>1
  <2>2. CASE d \in D
    <3>1. d \in Universe(rq) /\ SelectorOf(rq, d) = DocketSel /\ d \in Ids
        BY <1>1, <2>1, <2>2
    <3>2. DocketOf(rq, d) = KeptOf(rq, d).source
        BY <3>1 DEF DocketOf
    <3>3. DocketSel \in Selectors
        BY <1>3, <2>2, UniverseSelectorsType
    <3>4. rows[<<DocketSel, d>>].source = Kept(rq, DocketSel, d).source
        BY <1>3, <2>2, <3>1, <3>3 DEF Complete
    <3>5. Get(dockets, d) = rows[<<DocketSel, d>>] /\ Get(dockets, d) # None
        BY <1>4, <1>5, <2>2, NoneAssumption DEF Get
    <3> QED
        BY <3>1, <3>2, <3>4, <3>5 DEF KeptOf
  <2>3. CASE d \notin D
    <3>1. Get(dockets, d) = None
        BY <1>5, <2>3 DEF Get
    <3>2. DocketOf(rq, d) = None
        BY <2>1, <2>3 DEF DocketOf
    <3> QED
        BY <3>1, <3>2
  <2> QED
      BY <2>2, <2>3
<1> QED
    BY <1>6, <1>7

\* The rows of a selector that state a number.
Stating(rows, s, n) == {k \in DOMAIN rows : k[1] = s /\ rows[k].row.key = n}

\* The lookup rows under a number, and the ids they are of.
LEMMA KeyedIs ==
    ASSUME NEW rq \in Requests, NEW rows, Complete(rq, rows),
           NEW s \in Selectors, s = Policy[rq].lookup, s # None, NEW n \in Nat
    PROVE  /\ \A k \in Stating(rows, s, n) :
                  k[2] \in Keyed(rq, n) /\ k = <<s, k[2]>> /\ rows[k].row.id = k[2]
           /\ \A id \in Keyed(rq, n) : <<s, id>> \in Stating(rows, s, n)
           /\ Cardinality(Stating(rows, s, n)) = 1 <=> Cardinality(Keyed(rq, n)) = 1
<1> DEFINE A == Stating(rows, s, n)
           B == Keyed(rq, n)
<1>1. rows \in Partial(Keys, Entries)
    BY DEF Complete
<1>2. DOMAIN rows \subseteq Selectors \X Ids
    BY <1>1, PartialType DEF Keys
<1>3. ASSUME NEW k \in A
      PROVE  k[2] \in B /\ k = <<s, k[2]>> /\ rows[k].row.id = k[2]
  <2>1. k \in DOMAIN rows /\ k = <<s, k[2]>> /\ k[2] \in Ids /\ rows[k].row.key = n
      BY <1>2 DEF Stating
  <2>2. PICK id \in Ids : id = k[2]
      BY <2>1
  <2>3. <<s, id>> \in DOMAIN rows /\ rows[<<s, id>>].row.key = n
      BY <2>1, <2>2
  <2>4. Filings(rq, s, id) # {} /\ rows[<<s, id>>].row = Kept(rq, s, id).row
        /\ rows[<<s, id>>].row.id = id
      BY <2>3 DEF Complete
  <2>5. id \in B
      BY <2>3, <2>4 DEF Keyed
  <2> QED
      BY <2>1, <2>2, <2>4, <2>5
<1>4. ASSUME NEW id \in B
      PROVE  <<s, id>> \in A
  <2>1. id \in Ids /\ Filings(rq, s, id) # {} /\ Kept(rq, s, id).row.key = n
      BY DEF Keyed
  <2>2. <<s, id>> \in DOMAIN rows /\ rows[<<s, id>>].row = Kept(rq, s, id).row
      BY <2>1 DEF Complete
  <2> QED
      BY <2>1, <2>2 DEF Stating
<1>5. IsFiniteSet(B) /\ B \in SUBSET Ids
  <2>1. B \in SUBSET Ids
      BY DEF Keyed
  <2> QED
      BY <2>1, IdsAssumption, FS_Subset
<1> DEFINE m == [k \in A |-> k[2]]
<1>6. m \in [A -> B] /\ \A k, l \in A : m[k] = m[l] => k = l
    BY <1>3
<1> HIDE DEF m, A, B
<1>7. m \in Injection(A, B)
    BY <1>6 DEF Injection, IsInjective
<1>8. IsFiniteSet(A)
    BY <1>5, <1>7, FS_Injection
<1>9. Cardinality(A) = 1 <=> A # {} /\ \A x, y \in A : x = y
    BY <1>8, ExactlyOne
<1>10. Cardinality(B) = 1 <=> B # {} /\ \A x, y \in B : x = y
    BY <1>5, ExactlyOne
<1>11. ASSUME \A x, y \in A : x = y, NEW x \in B, NEW y \in B
       PROVE  x = y
  <2>1. <<s, x>> = <<s, y>>
      BY <1>4, <1>11
  <2> QED
      BY <2>1
<1>12. ASSUME \A x, y \in B : x = y, NEW x \in A, NEW y \in A
       PROVE  x = y
  <2>1. x[2] = y[2]
      BY <1>3, <1>12
  <2> QED
      BY <1>3, <2>1
<1>13. A # {} <=> B # {}
    BY <1>3, <1>4
<1>14. Cardinality(A) = 1 <=> Cardinality(B) = 1
    BY <1>9, <1>10, <1>11, <1>12, <1>13
<1> QED
    BY <1>3, <1>4, <1>14 DEF A, B

\* The lookup rows that are joined.
LEMMA LookupRight ==
    ASSUME NEW rq \in Requests, NEW rows, Complete(rq, rows), Policy[rq].lookup # None,
           NEW lookup, lookup = LookupIndex(rows, Policy[rq].lookup)
    PROVE  /\ lookup \in Partial(Nat, Entries)
           /\ \A n \in Nat \cup {None} :
                 (IF Get(lookup, n) = None THEN None ELSE Get(lookup, n).row.id) = LookupOf(rq, n)
<1> DEFINE s == Policy[rq].lookup
           named == {k \in DOMAIN rows : k[1] = s /\ rows[k].row.key # None}
           keys == {rows[k].row.key : k \in named}
           clear == {n \in keys : Cardinality({k \in named : rows[k].row.key = n}) = 1}
           A(n) == Stating(rows, s, n)
<1>1. rows \in Partial(Keys, Entries) /\ s \in Selectors
    BY PolicyAssumption DEF Complete
<1>2. \A k \in DOMAIN rows : rows[k] \in Entries
    BY <1>1, PartialType
<1>3. \A k \in DOMAIN rows : rows[k].row.key \in Nat \cup {None}
    BY <1>2 DEF Entries, Rows
<1>4. \A n \in Nat : {k \in named : rows[k].row.key = n} = A(n)
    BY NoneAssumption DEF Stating
<1>5. keys \subseteq Nat
    BY <1>3
<1>6. lookup = [n \in clear |-> rows[CHOOSE k \in named : rows[k].row.key = n]]
    BY DEF LookupIndex
<1>7. \A n \in Nat : n \in keys <=> A(n) # {}
    BY <1>4
<1> HIDE DEF s, named, keys, A
<1>8. \A n \in clear : n \in Nat /\ A(n) # {} /\ Cardinality(A(n)) = 1
    BY <1>4, <1>5, <1>7
<1>9. ASSUME NEW n \in clear
      PROVE  (CHOOSE k \in named : rows[k].row.key = n) \in A(n)
  <2>1. {k \in named : rows[k].row.key = n} = A(n) /\ A(n) # {}
      BY <1>4, <1>8
  <2>2. \E k \in named : rows[k].row.key = n
      BY <2>1
  <2> QED
      BY <2>1, <2>2
<1>10. ASSUME NEW n \in clear
       PROVE  rows[CHOOSE k \in named : rows[k].row.key = n] \in Entries
  <2>1. (CHOOSE k \in named : rows[k].row.key = n) \in DOMAIN rows
      BY <1>9 DEF A, Stating
  <2> QED
      BY <1>2, <2>1
<1> DEFINE v(n) == rows[CHOOSE k \in named : rows[k].row.key = n]
<1> HIDE DEF v, clear
<1>11. lookup = [n \in clear |-> v(n)] /\ \A n \in clear : v(n) \in Entries
    BY <1>6, <1>10 DEF v
<1>12. lookup \in Partial(Nat, Entries)
  <2>1. lookup \in [clear -> Entries] /\ clear \in SUBSET Nat
      BY <1>8, <1>11
  <2> QED
      BY <2>1 DEF Partial
<1>13. ASSUME NEW n \in Nat \cup {None}
       PROVE  (IF Get(lookup, n) = None THEN None ELSE Get(lookup, n).row.id) = LookupOf(rq, n)
  <2>1. CASE n \in clear
    <3>1. n \in Nat /\ n # None /\ Cardinality(A(n)) = 1
        BY <1>8, <2>1, NoneAssumption
    <3>2. PICK k \in A(n) : k = (CHOOSE j \in named : rows[j].row.key = n)
        BY <1>9, <2>1
    <3>3. Get(lookup, n) = rows[k] /\ Get(lookup, n) # None
        BY <1>11, <2>1, <3>2, NoneAssumption DEF Get, v
    <3>4. k[2] \in Keyed(rq, n) /\ rows[k].row.id = k[2] /\ Cardinality(Keyed(rq, n)) = 1
        BY <1>1, <3>1, <3>2, KeyedIs DEF A, s
    <3>5. PICK x : Keyed(rq, n) = {x}
      <4>1. Keyed(rq, n) \in SUBSET Ids
          BY DEF Keyed
      <4>2. IsFiniteSet(Keyed(rq, n))
          BY <4>1, IdsAssumption, FS_Subset
      <4> QED
          BY <3>4, <4>2, FS_Singleton
    <3>6. LookupOf(rq, n) = k[2]
        BY <3>1, <3>4, <3>5 DEF LookupOf
    <3> QED
        BY <3>3, <3>4, <3>6
  <2>2. CASE n \notin clear
    <3>1. Get(lookup, n) = None
        BY <1>11, <2>2 DEF Get
    <3>2. CASE n = None
        BY <3>1, <3>2 DEF LookupOf
    <3>3. CASE n \in Nat
      <4>1. Cardinality(A(n)) # 1
        <5>1. CASE n \in keys
            BY <1>4, <2>2, <3>3, <5>1 DEF clear
        <5>2. CASE n \notin keys
          <6>1. A(n) = {}
              BY <1>7, <3>3, <5>2
          <6> QED
              BY <6>1, FS_EmptySet
        <5> QED
            BY <5>1, <5>2
      <4>2. Cardinality(Keyed(rq, n)) # 1
          BY <1>1, <3>3, <4>1, KeyedIs DEF A, s
      <4> QED
          BY <3>1, <4>2 DEF LookupOf
    <3> QED
        BY <3>2, <3>3
  <2> QED
      BY <2>1, <2>2
<1> QED
    BY <1>12, <1>13

\* A policy without a lookup input joins nothing.
LEMMA NoLookup ==
    ASSUME NEW rq \in Requests, Policy[rq].lookup = None, NEW lookup, DOMAIN lookup = {}
    PROVE  \A n \in Nat \cup {None} :
               (IF Get(lookup, n) = None THEN None ELSE Get(lookup, n).row.id) = LookupOf(rq, n)
<1>1. \A n : Keyed(rq, n) = {}
    BY DEF Keyed
<1>2. ASSUME NEW n PROVE Cardinality(Keyed(rq, n)) # 1
  <2>1. Keyed(rq, n) = {} /\ Cardinality({}) = 0
      BY <1>1, FS_EmptySet
  <2> QED
      BY <2>1
<1> QED
    BY <1>2 DEF LookupOf, Get

\* A policy without a pre-pass joins nothing.
LEMMA JoinsEmpty ==
    ASSUME NEW rq \in Requests, ~Policy[rq].twoPass, NEW dockets, DOMAIN dockets = {},
           NEW lookup, DOMAIN lookup = {}
    PROVE  JoinsRight(rq, dockets, lookup)
<1>1. Policy[rq].lookup = None
    BY PolicyAssumption
<1>2. \A d : Get(dockets, d) = None /\ DocketOf(rq, d) = None
    BY DEF Get, DocketOf
<1> QED
    BY <1>1, <1>2, NoLookup DEF JoinsRight

-----------------------------------------------------------------------------
(* Items and their counts.                                                 *)

\* The catalog is an item of every id of the universe.
LEMMA CatalogIs ==
    ASSUME NEW rq \in Requests
    PROVE  Catalog(rq) = [id \in Universe(rq) |-> ItemOf(rq, id)]
    BY DEF Catalog, Universe, ItemOf, SelectorOf, KeptOf, Good, Keyed, LookupOf, DocketOf,
           OthersOf, Fits

\* An item, of the rows and joins of a workspace.
ItemIn(rq, rows, dockets, lookup, budget, id) ==
    LET staged == FirstRow(rq, rows, id)
        d == Get(dockets, staged.row.docket)
        r == Get(lookup, staged.row.key)
    IN [source |-> staged.source, discards |-> staged.discards,
        docket |-> IF d = None THEN None ELSE d.source,
        lookup |-> IF r = None THEN None ELSE r.row.id,
        selected |-> staged.row.good /\ Fits(rq, budget)]

LEMMA ItemType ==
    ASSUME NEW rq \in Requests, NEW rows, Complete(rq, rows), NEW id \in Universe(rq),
           NEW dockets \in Partial(Ids, Entries), NEW lookup \in Partial(Nat, Entries), NEW budget
    PROVE  ItemIn(rq, rows, dockets, lookup, budget, id) \in CatalogItems
<1> DEFINE staged == FirstRow(rq, rows, id)
           d == Get(dockets, staged.row.docket)
           r == Get(lookup, staged.row.key)
           docket == IF d = None THEN None ELSE d.source
           key == IF r = None THEN None ELSE r.row.id
           good == staged.row.good /\ Fits(rq, budget)
<1>1. staged \in [source : Nat, row : Rows, discards : Seq(Nat)]
    BY FirstRowIs DEF Entries
<1>2. d # None => d \in Entries
    BY GetEntry
<1>3. r # None => r \in Entries
    BY GetEntry
<1>4. docket \in Nat \cup {None}
    BY <1>2 DEF Entries
<1>5. key \in Nat \cup {None}
    BY <1>3, IdsAssumption DEF Entries, Rows
<1>6. good \in BOOLEAN
    OBVIOUS
<1>7. ItemIn(rq, rows, dockets, lookup, budget, id)
         = [source |-> staged.source, discards |-> staged.discards,
            docket |-> docket, lookup |-> key, selected |-> good]
    BY DEF ItemIn
<1> HIDE DEF staged, docket, key, good
<1> QED
    BY <1>1, <1>4, <1>5, <1>6, <1>7 DEF CatalogItems

LEMMA ItemRight ==
    ASSUME NEW rq \in Requests, NEW rows, Complete(rq, rows), NEW id \in Universe(rq),
           Distinct(rq), NEW dockets, NEW lookup, JoinsRight(rq, dockets, lookup), NEW budget,
           Fits(rq, budget) <=> Fits(rq, Cardinality({i \in Good(rq) : i < id}))
    PROVE  ItemIn(rq, rows, dockets, lookup, budget, id) = ItemOf(rq, id)
<1> DEFINE staged == FirstRow(rq, rows, id)
           kept == KeptOf(rq, id)
           d == Get(dockets, staged.row.docket)
           r == Get(lookup, staged.row.key)
           docket == IF d = None THEN None ELSE d.source
           key == IF r = None THEN None ELSE r.row.id
<1>1. staged \in Entries /\ staged.source = kept.source /\ staged.row = kept.row
      /\ staged.discards = Ascending(OthersOf(rq, id))
    BY FirstRowIs
<1>2. staged.row.docket \in Nat \cup {None} /\ staged.row.key \in Nat \cup {None}
    BY <1>1 DEF Entries, Rows
<1>3. docket = DocketOf(rq, kept.row.docket)
    BY <1>1, <1>2 DEF JoinsRight
<1>4. key = LookupOf(rq, kept.row.key)
    BY <1>1, <1>2 DEF JoinsRight
<1>5. staged.row.good <=> id \in Good(rq)
    BY <1>1 DEF Good
<1>6. ItemIn(rq, rows, dockets, lookup, budget, id)
         = [source |-> staged.source, discards |-> staged.discards,
            docket |-> docket, lookup |-> key, selected |-> staged.row.good /\ Fits(rq, budget)]
    BY DEF ItemIn
<1>7. (staged.row.good /\ Fits(rq, budget))
         = (id \in Good(rq) /\ Fits(rq, Cardinality({i \in Good(rq) : i < id})))
    BY <1>5
<1>8. ItemOf(rq, id)
         = [source |-> kept.source, discards |-> Ascending(OthersOf(rq, id)),
            docket |-> DocketOf(rq, kept.row.docket), lookup |-> LookupOf(rq, kept.row.key),
            selected |-> id \in Good(rq) /\ Fits(rq, Cardinality({i \in Good(rq) : i < id}))]
    BY DEF ItemOf
<1> HIDE DEF staged, kept, docket, key
<1> QED
    BY <1>1, <1>3, <1>4, <1>6, <1>7, <1>8

\* One more of a kind.
LEMMA CountOne ==
    ASSUME NEW S, IsFiniteSet(S), NEW id, id \notin S, NEW T, NEW hit \in BOOLEAN,
           \A i : i \in T <=> i \in S \/ (hit /\ i = id)
    PROVE  Cardinality(T) = Cardinality(S) + (IF hit THEN 1 ELSE 0) /\ Cardinality(S) \in Nat
<1>1. Cardinality(S) \in Nat
    BY FS_CardinalityType
<1>2. CASE hit
  <2>1. T = S \cup {id}
      BY <1>2
  <2>2. Cardinality(S \cup {id}) = Cardinality(S) + 1
      BY FS_AddElement
  <2> QED
      BY <1>1, <1>2, <2>1, <2>2
<1>3. CASE ~hit
  <2>1. T = S
      BY <1>3
  <2> QED
      BY <1>1, <1>3, <2>1
<1> QED
    BY <1>2, <1>3

\* The ids that were selected, and those of a partition.
SelectedOf(output, items) == {id \in output : items[id].selected}
PartOf(output, p) == {id \in output : PartitionOf[id] = p}

\* The counts of an item more.
LEMMA CountedRight ==
    ASSUME NEW output \in SUBSET Ids, NEW items, DOMAIN items = output, NEW c \in Counts,
           CountsRight(output, items, c), NEW id \in Ids, id \notin output,
           NEW item \in CatalogItems
    PROVE  /\ Counted(c, id, item.selected) \in Counts
           /\ CountsRight(output \cup {id}, Put(items, id, item), Counted(c, id, item.selected))
           /\ Counted(c, id, item.selected).after = id
           /\ Counted(c, id, item.selected).selected = c.selected + (IF item.selected THEN 1 ELSE 0)
<1> DEFINE hit == item.selected
           e == Counted(c, id, hit)
           new == Put(items, id, item)
           more == output \cup {id}
           part == PartitionOf[id]
           parts == [c.parts EXCEPT ![part] = @ + 1]
<1>1. IsFiniteSet(output) /\ part \in Partitions
    BY IdsAssumption, FS_Subset
<1>2. c.count \in Nat /\ c.selected \in Nat /\ c.parts \in [Partitions -> Nat]
    BY DEF Counts
<1>3. e = [after |-> id, count |-> c.count + 1, selected |-> c.selected + (IF hit THEN 1 ELSE 0),
           parts |-> parts]
    BY DEF Counted
<1>4. DOMAIN new = more /\ new[id] = item /\ \A i \in output : new[i] = items[i]
    BY DEF Put
<1>5. hit \in BOOLEAN
    BY DEF CatalogItems
<1> HIDE DEF hit, new, more, part
<1>6. parts \in [Partitions -> Nat] /\ parts[part] = c.parts[part] + 1
      /\ \A p \in Partitions : p # part => parts[p] = c.parts[p]
    BY <1>1, <1>2
<1> HIDE DEF parts, e
<1>7. e.after = id /\ e.count = c.count + 1 /\ e.selected = c.selected + (IF hit THEN 1 ELSE 0)
      /\ e.parts = parts /\ e \in Counts
    BY <1>2, <1>3, <1>6 DEF Counts
<1>8. e.count = Cardinality(more)
  <2>1. Cardinality(output \cup {id}) = Cardinality(output) + 1
      BY <1>1, FS_AddElement
  <2> QED
      BY <1>7, <2>1 DEF CountsRight, more
<1>9. e.selected = Cardinality(SelectedOf(more, new))
  <2>1. id \notin SelectedOf(output, items) /\ IsFiniteSet(SelectedOf(output, items))
      BY <1>1, FS_Subset DEF SelectedOf
  <2>2. \A i : i \in SelectedOf(more, new) <=> i \in SelectedOf(output, items) \/ (hit /\ i = id)
      BY <1>4 DEF SelectedOf, more, hit
  <2>3. Cardinality(SelectedOf(more, new))
           = Cardinality(SelectedOf(output, items)) + (IF hit THEN 1 ELSE 0)
      BY <1>5, <2>1, <2>2, CountOne
  <2>4. c.selected = Cardinality(SelectedOf(output, items))
      BY DEF CountsRight, SelectedOf
  <2> QED
      BY <1>7, <2>3, <2>4
<1>10. ASSUME NEW p \in Partitions
       PROVE  e.parts[p] = Cardinality(PartOf(more, p))
  <2>1. id \notin PartOf(output, p) /\ IsFiniteSet(PartOf(output, p))
      BY <1>1, FS_Subset DEF PartOf
  <2>2. c.parts[p] = Cardinality(PartOf(output, p)) /\ c.parts[p] \in Nat
      BY <1>2 DEF CountsRight, PartOf
  <2>3. CASE p = part
    <3>1. PartOf(more, p) = PartOf(output, p) \cup {id}
        BY <2>3 DEF PartOf, more, part
    <3>2. Cardinality(PartOf(more, p)) = Cardinality(PartOf(output, p)) + 1
        BY <2>1, <3>1, FS_AddElement
    <3> QED
        BY <1>6, <1>7, <2>2, <2>3, <3>2
  <2>4. CASE p # part
    <3>1. PartOf(more, p) = PartOf(output, p)
        BY <2>4 DEF PartOf, more, part
    <3> QED
        BY <1>6, <1>7, <2>2, <2>4, <3>1
  <2> QED
      BY <2>3, <2>4
<1>11. CountsRight(more, new, e)
    BY <1>8, <1>9, <1>10 DEF CountsRight, SelectedOf, PartOf
<1> QED
    BY <1>7, <1>11 DEF e, hit, new, more

\* The budget, of the items before one.
LEMMA BudgetRight ==
    ASSUME NEW rq \in Requests, NEW g \in Nat
    PROVE  /\ Fits(rq, Capped(rq, g)) <=> Fits(rq, g)
           /\ Capped(rq, g) \in Nat
           /\ Capped(rq, g + 1) = Capped(rq, g) + (IF Fits(rq, g) THEN 1 ELSE 0)
<1>1. Policy[rq].limit = None \/ (Policy[rq].limit \in Nat /\ Policy[rq].limit # None)
    BY PolicyAssumption
<1>2. CASE Policy[rq].limit = None
    BY <1>2 DEF Fits, Capped
<1>3. CASE Policy[rq].limit \in Nat /\ Policy[rq].limit # None
    BY <1>3 DEF Fits, Capped
<1> QED
    BY <1>1, <1>2, <1>3

\* The good ids among those staged.
GoodOf(rq, output) == {id \in output : id \in Good(rq)}

\* An item more, in the order of the universe.
LEMMA ItemsNext ==
    ASSUME NEW rq \in Requests, NEW output \in SUBSET Ids, NEW items, NEW c \in Counts,
           ItemsRight(rq, output, items, c), NEW id \in Universe(rq),
           output = {i \in Universe(rq) : i < id},
           NEW item, item.selected \in BOOLEAN, Distinct(rq) => item = ItemOf(rq, id),
           NEW e \in Counts, e.after = id,
           e.selected = c.selected + (IF item.selected THEN 1 ELSE 0)
    PROVE  ItemsRight(rq, output \cup {id}, Put(items, id, item), e)
<1> DEFINE new == Put(items, id, item)
           more == output \cup {id}
<1>1. Universe(rq) \in SUBSET Nat /\ id \in Nat /\ id # None /\ IsFiniteSet(output) /\ None \notin Nat
  <2>1. Universe(rq) \in SUBSET Ids
      BY DEF Universe
  <2>2. IsFiniteSet(output)
      BY IdsAssumption, FS_Subset
  <2> QED
      BY <2>1, <2>2, IdsAssumption, NoneAssumption
<1>2. DOMAIN items = output
    BY DEF ItemsRight
<1>3. DOMAIN new = more /\ new[id] = item /\ \A i \in output : new[i] = items[i]
    BY <1>1, <1>2 DEF Put
<1>4. more = {i \in Universe(rq) : e.after # None /\ i <= e.after} /\ e.after \in more
    BY <1>1
<1> HIDE DEF new
<1>5. ASSUME Distinct(rq)
      PROVE  (\A i \in more : new[i] = ItemOf(rq, i))
             /\ e.selected = Capped(rq, Cardinality(GoodOf(rq, more)))
  <2>1. \A i \in output : items[i] = ItemOf(rq, i)
      BY <1>5 DEF ItemsRight
  <2>2. c.selected = Capped(rq, Cardinality(GoodOf(rq, output)))
      BY <1>5 DEF ItemsRight, GoodOf
  <2>3. item = ItemOf(rq, id)
      BY <1>5
  <2>4. \A i \in more : new[i] = ItemOf(rq, i)
      BY <1>3, <2>1, <2>3
  <2> DEFINE G == GoodOf(rq, output)
             g == Cardinality(G)
             hit == id \in Good(rq)
  <2>5. id \notin G /\ IsFiniteSet(G)
      BY <1>1, FS_Subset DEF GoodOf
  <2>6. G = {i \in Good(rq) : i < id}
      BY DEF GoodOf, Good
  <2>7. item.selected = (hit /\ Fits(rq, g))
      BY <2>3, <2>6 DEF ItemOf
  <2>8. \A i : i \in GoodOf(rq, more) <=> i \in G \/ (hit /\ i = id)
      BY DEF GoodOf
  <2>9. hit \in BOOLEAN
      OBVIOUS
  <2> HIDE DEF G, hit, more
  <2>10. Cardinality(GoodOf(rq, more)) = g + (IF hit THEN 1 ELSE 0) /\ g \in Nat
      BY <2>5, <2>8, <2>9, CountOne
  <2>11. c.selected = Capped(rq, g)
      BY <2>2 DEF G
  <2> HIDE DEF g
  <2>12. Capped(rq, g) \in Nat /\ Capped(rq, g + 1) = Capped(rq, g) + (IF Fits(rq, g) THEN 1 ELSE 0)
      BY <2>10, BudgetRight
  <2>13. e.selected = Capped(rq, Cardinality(GoodOf(rq, more)))
    <3>1. CASE hit
        BY <2>7, <2>10, <2>11, <2>12, <3>1
    <3>2. CASE ~hit
      <4>1. ~item.selected
          BY <2>7, <3>2
      <4>2. Cardinality(GoodOf(rq, more)) = g
          BY <2>10, <3>2
      <4>3. e.selected = c.selected
          BY <2>11, <2>12, <4>1
      <4> QED
          BY <2>11, <4>2, <4>3
    <3> QED
        BY <3>1, <3>2
  <2> QED
      BY <2>4, <2>13
<1>6. ItemsRight(rq, more, new, e)
    BY <1>3, <1>4, <1>5 DEF ItemsRight, GoodOf
<1> QED
    BY <1>6 DEF new

\* The partitions that were counted hold every item.
LEMMA PayloadIs ==
    ASSUME NEW output \in SUBSET Ids, NEW items \in Partial(Ids, CatalogItems),
           DOMAIN items = output, NEW c \in Counts, CountsRight(output, items, c)
    PROVE  /\ {i \in DOMAIN items : c.parts[PartitionOf[i]] > 0} = DOMAIN items
           /\ items = [id \in DOMAIN items |-> items[id]]
<1>1. ASSUME NEW i \in DOMAIN items PROVE c.parts[PartitionOf[i]] > 0
  <2>1. PartitionOf[i] \in Partitions /\ c.parts \in [Partitions -> Nat]
      BY IdsAssumption DEF Counts
  <2> DEFINE p == PartitionOf[i]
             S == PartOf(output, p)
  <2>2. c.parts[p] = Cardinality(S) /\ c.parts[p] \in Nat
      BY <2>1 DEF CountsRight, PartOf
  <2>3. IsFiniteSet(S) /\ i \in S
      BY IdsAssumption, FS_Subset DEF PartOf
  <2> HIDE DEF S
  <2>4. Cardinality(S) # 0
      BY <2>3, FS_EmptySet
  <2> QED
      BY <2>2, <2>4
<1>2. {i \in DOMAIN items : c.parts[PartitionOf[i]] > 0} = DOMAIN items
    BY <1>1
<1>3. items = [id \in DOMAIN items |-> items[id]]
    BY PartialType
<1> QED
    BY <1>2, <1>3

-----------------------------------------------------------------------------
(* The records of a workspace and of a build.                              *)

LEMMA NoCountsType == NoCounts \in Counts /\ NoCounts.after = None /\ NoCounts.count = 0
                      /\ NoCounts.selected = 0 /\ \A p \in Partitions : NoCounts.parts[p] = 0
    BY DEF NoCounts, Counts

LEMMA CountsType ==
    ASSUME NEW c \in Counts
    PROVE  c # None /\ c.after \in Ids \cup {None} /\ c.count \in Nat /\ c.selected \in Nat
    BY NoneAssumption DEF Counts

\* An empty workspace.
LEMMA EmptyType ==
    /\ EmptyWorkspace \in Workspaces /\ EmptyWorkspace.build = None /\ EmptyWorkspace.inputs = {}
    /\ EmptyWorkspace.schemas = {} /\ DOMAIN EmptyWorkspace.rows = {} /\ Blank(EmptyWorkspace)
<1> DEFINE e == EmptyWorkspace
           z == <<>>
<1>1. \A S, T : z \in Partial(S, T)
  <2> SUFFICES ASSUME NEW S, NEW T PROVE z \in Partial(S, T)
      OBVIOUS
  <2>1. DOMAIN z = {} /\ z = [x \in DOMAIN z |-> z[x]]
      OBVIOUS
  <2> HIDE DEF z
  <2> QED
      BY <2>1, PartialEmpty
<1>2. DOMAIN z = {}
    OBVIOUS
<1>3. e = [build |-> None, inputs |-> {}, schemas |-> {}, rows |-> z, lookup |-> z,
           dockets |-> z, universe |-> {}, items |-> z, output |-> {},
           indexed |-> FALSE, cursor |-> None, staged |-> None]
    BY DEF EmptyWorkspace
<1> HIDE DEF e, z
<1>4. e.build = None /\ e.inputs = {} /\ e.schemas = {} /\ e.rows = z /\ e.lookup = z
      /\ e.dockets = z /\ e.universe = {} /\ e.items = z /\ e.output = {} /\ ~e.indexed
      /\ e.cursor = None /\ e.staged = None
    BY <1>3
<1>5. e \in Workspaces
    BY <1>1, <1>3 DEF Workspaces
<1>6. Blank(e)
    BY <1>2, <1>4 DEF Blank
<1> QED
    BY <1>2, <1>4, <1>5, <1>6 DEF e

\* A workspace bound to a build.
LEMMA BindType ==
    ASSUME NEW w \in Workspaces, NEW rq \in Requests, NEW v, v = [w EXCEPT !.build = rq]
    PROVE  /\ v \in Workspaces /\ v.build = rq
           /\ v.inputs = w.inputs /\ v.schemas = w.schemas /\ v.rows = w.rows
           /\ v.lookup = w.lookup /\ v.dockets = w.dockets /\ v.universe = w.universe
           /\ v.items = w.items /\ v.output = w.output /\ v.indexed = w.indexed
           /\ v.cursor = w.cursor /\ v.staged = w.staged
           /\ w.build = rq => v = w
    BY DEF Workspaces

\* A workspace with a source marked.
LEMMA MarkInputType ==
    ASSUME NEW w \in Workspaces, NEW a \in Nat, NEW v, v = [w EXCEPT !.inputs = @ \cup {a}]
    PROVE  /\ v \in Workspaces /\ v.inputs = w.inputs \cup {a}
           /\ v.build = w.build /\ v.schemas = w.schemas /\ v.rows = w.rows
           /\ v.lookup = w.lookup /\ v.dockets = w.dockets /\ v.universe = w.universe
           /\ v.items = w.items /\ v.output = w.output /\ v.indexed = w.indexed
           /\ v.cursor = w.cursor /\ v.staged = w.staged
    BY DEF Workspaces

\* The fields of a workspace.
LEMMA WorkspaceType ==
    ASSUME NEW w \in Workspaces
    PROVE  /\ w.build \in Requests \cup {None} /\ w.inputs \in SUBSET Nat
           /\ w.schemas \in SUBSET Selectors
           /\ w.rows \in Partial(Keys, Entries) /\ w.lookup \in Partial(Nat, Entries)
           /\ w.dockets \in Partial(Ids, Entries) /\ w.universe \in SUBSET Ids
           /\ w.items \in Partial(Ids, CatalogItems) /\ w.output \in SUBSET Ids
           /\ w.indexed \in BOOLEAN /\ w.cursor \in Counts \cup {None}
           /\ w.staged \in Counts \cup {None}
    BY DEF Workspaces

\* The fields of a build.
LEMMA ProcessType ==
    ASSUME NEW pr \in Processes
    PROVE  /\ pr.rq \in Requests \cup {None}
           /\ pr.point \in [indexed : BOOLEAN, after : Ids \cup {None}, selected : Nat]
           /\ pr.src \in Nat /\ pr.pos \in Nat /\ pr.firstPass \in BOOLEAN /\ pr.started \in BOOLEAN
           /\ pr.previous \in Ids \cup {None} /\ pr.budget \in Nat /\ pr.counts \in Counts
    BY DEF Processes

\* No build is running.
LEMMA DownOK ==
    ASSUME NEW d \in Workspaces
    PROVE  ProcOK(d, d, Down) /\ ProcOK(d, d, [Down EXCEPT !.pc = "refused"])
<1> DEFINE pr == [Down EXCEPT !.pc = "refused"]
<1>1. NoCounts \in Counts
    BY NoCountsType
<1>2. Down \in Processes /\ Down.pc = "down" /\ Down.rq = None
    BY <1>1 DEF Down, Processes, FreshPoint
<1>3. pr \in Processes /\ pr.pc = "refused" /\ pr.rq = None
    BY <1>2 DEF Processes
<1> HIDE DEF pr
<1>4. ProcOK(d, d, Down)
    BY <1>2 DEF ProcOK
<1>5. ProcOK(d, d, pr)
    BY <1>3 DEF ProcOK
<1> QED
    BY <1>4, <1>5 DEF pr

\* The counts of a resume point, whatever was committed.
LEMMA CommittedType ==
    ASSUME NEW w \in Workspaces
    PROVE  /\ Committed(w) \in Counts
           /\ ResumePoint(w) \in [indexed : BOOLEAN, after : Ids \cup {None}, selected : Nat]
           /\ ResumePoint(w).indexed = w.indexed
           /\ ResumePoint(w).after = Committed(w).after
           /\ ResumePoint(w).selected = Committed(w).selected
<1> DEFINE s == IF w.staged # None THEN w.staged ELSE w.cursor
<1>1. s \in Counts \cup {None} /\ w.indexed \in BOOLEAN
    BY WorkspaceType
<1>2. ResumePoint(w) = [indexed |-> w.indexed, after |-> IF s = None THEN None ELSE s.after,
                        selected |-> IF s = None THEN 0 ELSE s.selected]
    BY DEF ResumePoint
<1>3. Committed(w) = IF s = None THEN NoCounts ELSE s
    BY NoCountsType, WorkspaceType, NoneAssumption DEF Committed
<1> HIDE DEF s
<1>4. Committed(w) \in Counts
    BY <1>1, <1>3, NoCountsType
<1>5. (IF s = None THEN None ELSE s.after) = Committed(w).after
      /\ (IF s = None THEN 0 ELSE s.selected) = Committed(w).selected
    BY <1>3, NoCountsType
<1>6. Committed(w).after \in Ids \cup {None} /\ Committed(w).selected \in Nat
    BY <1>4, CountsType
<1> QED
    BY <1>1, <1>2, <1>4, <1>5, <1>6

-----------------------------------------------------------------------------
(* Starting, ending and loading.                                           *)

\* What the invariant says of a running build.
LEMMA Running ==
    ASSUME BuildInv, ~Ended
    PROVE  /\ proc.rq \in Requests /\ disk.build = proc.rq /\ proc.rq # None
           /\ disk \in Workspaces /\ work \in Workspaces /\ proc \in Processes
           /\ LedgerOK(proc.rq, disk)
<1>1. proc \in Processes /\ work \in Workspaces /\ disk \in Workspaces
    BY DEF BuildInv, ProcOK, DiskOK
<1>2. proc.pc \notin {"down", "refused"}
    BY DEF Ended
<1>3. proc.rq # None /\ disk.build = proc.rq
    BY <1>2 DEF BuildInv, ProcOK
<1>4. proc.rq \in Requests
    BY <1>1, <1>3, ProcessType
<1>5. LedgerOK(proc.rq, disk)
    BY <1>3 DEF BuildInv, DiskOK
<1> QED
    BY <1>1, <1>3, <1>4, <1>5

\* A build that refuses what no build accepts.
LEMMA RefuseKeeps ==
    ASSUME BuildInv, Refuse, proc.rq \in Requests, ~Acceptable(proc.rq)
    PROVE  BuildInv'
<1>1. DiskOK(disk) /\ disk \in Workspaces /\ RefusedOK(refused) /\ PublishedOK(published)
    BY DEF BuildInv, DiskOK
<1>2. disk' = disk /\ work' = disk /\ proc' = [Down EXCEPT !.pc = "refused"]
      /\ published' = published /\ refused' = refused \cup {proc.rq}
    BY DEF Refuse
<1>3. ProcOK(disk', work', proc')
    BY <1>1, <1>2, DownOK
<1>4. RefusedOK(refused')
    BY <1>1, <1>2 DEF RefusedOK
<1>5. DiskOK(disk') /\ PublishedOK(published')
    BY <1>1, <1>2
<1> QED
    BY <1>3, <1>4, <1>5 DEF BuildInv

\* A build that dies leaves what is committed.
LEMMA KillKeeps ==
    ASSUME BuildInv, proc' = Down, work' = disk, UNCHANGED <<disk, published, refused>>
    PROVE  BuildInv'
<1>1. DiskOK(disk) /\ disk \in Workspaces /\ RefusedOK(refused) /\ PublishedOK(published)
    BY DEF BuildInv, DiskOK
<1>2. ProcOK(disk', work', proc')
    BY <1>1, DownOK
<1>3. DiskOK(disk') /\ PublishedOK(published') /\ RefusedOK(refused')
    BY <1>1
<1> QED
    BY <1>2, <1>3 DEF BuildInv

\* A workspace that is empty.
LEMMA EmptyOK == DiskOK(EmptyWorkspace) /\ ProcOK(EmptyWorkspace, EmptyWorkspace, Down)
    BY EmptyType, DownOK DEF DiskOK

LEMMA RemoveKeeps ==
    ASSUME BuildInv, RemoveWorkspace
    PROVE  BuildInv'
<1>1. disk' = EmptyWorkspace /\ work' = EmptyWorkspace /\ proc' = Down
      /\ published' = published /\ refused' = refused
    BY DEF RemoveWorkspace, Mark
<1>2. DiskOK(disk') /\ ProcOK(disk', work', proc')
    BY <1>1, EmptyOK
<1>3. PublishedOK(published') /\ RefusedOK(refused')
    BY <1>1 DEF BuildInv
<1> QED
    BY <1>2, <1>3 DEF BuildInv

\* Nothing is read of an empty workspace.
LEMMA EmptyRead ==
    ASSUME NEW rq \in Requests, NEW w, DOMAIN w.rows = {}, w.schemas = {}
    PROVE  ReadAt(rq, w, 1, 1)
<1>1. \A s, id : Seen(rq, s, id, 1, 1) = {}
    BY SeenNothing
<1> QED
    BY <1>1 DEF ReadAt, RowsAt, SchemasAt

\* A ledger depends on these parts of a workspace only.
LEMMA LedgerSame ==
    ASSUME NEW rq, NEW d, NEW e, LedgerOK(rq, d),
           e.inputs = d.inputs, e.schemas = d.schemas, e.rows = d.rows, e.lookup = d.lookup,
           e.dockets = d.dockets, e.universe = d.universe, e.items = d.items,
           e.output = d.output, e.indexed = d.indexed, e.cursor = d.cursor, e.staged = d.staged
    PROVE  LedgerOK(rq, e)
<1>1. Committed(e) = Committed(d) /\ (Blank(d) => Blank(e))
    BY DEF Committed, Blank
<1>2. \A c : Progress(rq, d, c) => Progress(rq, e, c)
    BY DEF Progress
<1>3. \A a, p : ReadAt(rq, d, a, p) => ReadAt(rq, e, a, p)
    BY DEF ReadAt
<1> QED
    BY <1>1, <1>2, <1>3 DEF LedgerOK

\* A build opens the workspace.
LEMMA StartKeeps ==
    ASSUME BuildInv, NEW rq \in Requests, Start(rq)
    PROVE  BuildInv'
<1> DEFINE e == [disk EXCEPT !.build = rq]
           pr == [Down EXCEPT !.rq = rq, !.point = ResumePoint(disk),
                              !.pc = IF disk.staged # None THEN "publish" ELSE "load",
                              !.counts = IF disk.staged # None THEN disk.staged
                                         ELSE IF disk.cursor # None THEN disk.cursor
                                         ELSE NoCounts]
<1>1. disk \in Workspaces /\ DiskOK(disk) /\ disk.build \in {None, rq} /\ rq # None
    BY NoneAssumption DEF BuildInv, DiskOK, Start
<1>2. disk' = e /\ work' = e /\ proc' = pr /\ published' = published /\ refused' = refused
    BY DEF Start, Mark
<1> HIDE DEF e
<1>3. /\ e \in Workspaces /\ e.build = rq
      /\ e.inputs = disk.inputs /\ e.schemas = disk.schemas /\ e.rows = disk.rows
      /\ e.lookup = disk.lookup /\ e.dockets = disk.dockets /\ e.universe = disk.universe
      /\ e.items = disk.items /\ e.output = disk.output /\ e.indexed = disk.indexed
      /\ e.cursor = disk.cursor /\ e.staged = disk.staged
    BY <1>1, BindType DEF e
<1>4. LedgerOK(rq, disk)
  <2>1. CASE disk.build = rq
      BY <1>1, <2>1 DEF DiskOK
  <2>2. CASE disk.build = None
    <3>1. disk = EmptyWorkspace
        BY <1>1, <2>2 DEF DiskOK
    <3>2. disk.inputs = {} /\ DOMAIN disk.rows = {} /\ disk.schemas = {} /\ Blank(disk)
        BY <3>1, EmptyType
    <3>3. ReadAt(rq, disk, 0 + 1, 1)
        BY <3>2, EmptyRead
    <3>4. disk.inputs = 1..0 /\ 0 \in 0..Depth(rq)
        BY <3>2, DepthType
    <3> QED
        BY <3>2, <3>3, <3>4 DEF LedgerOK
  <2> QED
      BY <1>1, <2>1, <2>2
<1>5. LedgerOK(rq, e)
    BY <1>3, <1>4, LedgerSame
<1>6. DiskOK(e)
    BY <1>1, <1>3, <1>5 DEF DiskOK
<1>7. Committed(disk) \in Counts
      /\ ResumePoint(disk) \in [indexed : BOOLEAN, after : Ids \cup {None}, selected : Nat]
    BY <1>1, CommittedType
<1>8. ResumePoint(disk) = ResumePoint(e) /\ Committed(disk) = Committed(e)
    BY <1>3 DEF ResumePoint, Committed
<1> DEFINE pt == ResumePoint(disk)
           c == Committed(disk)
           at == IF disk.staged # None THEN "publish" ELSE "load"
<1>9a. pr = [Down EXCEPT !.rq = rq, !.point = pt, !.pc = at, !.counts = c]
    BY DEF Committed
<1> HIDE DEF pr, pt, c, at
<1>9. pr = [pc |-> at, rq |-> rq, point |-> pt, src |-> 1, pos |-> 1,
            firstPass |-> TRUE, started |-> FALSE, previous |-> None, budget |-> 0, counts |-> c]
    BY <1>9a DEF Down
<1>10. pr.pc = at /\ pr.rq = rq /\ pr.point = pt /\ pr.src = 1 /\ pr.pos = 1 /\ pr.firstPass
       /\ ~pr.started /\ pr.previous = None /\ pr.counts = c
    BY <1>9
<1>11. pr \in Processes
  <2>1. at \in {"publish", "load"}
      BY DEF at
  <2> QED
      BY <1>7, <1>9, <2>1 DEF Processes, pt, c
<1>12. CASE disk.staged # None
  <2>1. pr.pc = "publish" /\ c = e.staged /\ e.staged # None
      BY <1>3, <1>10, <1>12 DEF at, c, Committed
  <2>2. DoneOK(e, e, pr)
      BY <1>10, <2>1 DEF DoneOK
  <2>3. ProcOK(e, e, pr)
      BY <1>1, <1>3, <1>10, <1>11, <2>1, <2>2 DEF ProcOK
  <2> QED
      BY <1>2, <1>6, <2>3 DEF BuildInv
<1>13. CASE disk.staged = None
  <2>1. pr.pc = "load" /\ e.staged = None
      BY <1>3, <1>10, <1>13 DEF at
  <2>2. 1..(1 - 1) \subseteq e.inputs
      OBVIOUS
  <2>3. LoadOK(rq, e, e, pr)
      BY <1>8, <1>10, <2>1, <2>2 DEF LoadOK, Unstarted, pt, c
  <2>4. ProcOK(e, e, pr)
      BY <1>1, <1>3, <1>10, <1>11, <2>1, <2>3 DEF ProcOK
  <2> QED
      BY <1>2, <1>6, <2>4 DEF BuildInv
<1> QED
    BY <1>12, <1>13

\* A workspace that is being loaded.
LEMMA LoadedType ==
    ASSUME NEW d \in Workspaces, NEW w \in Workspaces, LoadedFrom(d, w)
    PROVE  /\ w.build = d.build /\ w.inputs = d.inputs
           /\ w.lookup = d.lookup /\ w.dockets = d.dockets /\ w.universe = d.universe
           /\ w.items = d.items /\ w.output = d.output /\ w.indexed = d.indexed
           /\ w.cursor = d.cursor /\ w.staged = d.staged
<1> DEFINE r == w.rows
           s == w.schemas
<1>1. w = [d EXCEPT !.rows = r, !.schemas = s]
    BY DEF LoadedFrom
<1>2. r \in Partial(Keys, Entries) /\ s \in SUBSET Selectors
    BY WorkspaceType
<1> HIDE DEF r, s
<1> QED
    BY <1>1, <1>2 DEF Workspaces

\* The rows and the schemas are replaced again.
LEMMA LoadedMore ==
    ASSUME NEW d \in Workspaces, NEW w \in Workspaces, LoadedFrom(d, w),
           NEW r \in Partial(Keys, Entries), NEW s \in SUBSET Selectors,
           NEW v, v = [w EXCEPT !.rows = r, !.schemas = s]
    PROVE  LoadedFrom(d, v)
<1> DEFINE q == w.rows
           t == w.schemas
<1>1. w = [d EXCEPT !.rows = q, !.schemas = t]
    BY DEF LoadedFrom
<1>2. v.rows = r /\ v.schemas = s
    BY DEF Workspaces
<1> HIDE DEF q, t
<1>3. v = [d EXCEPT !.rows = r, !.schemas = s]
    BY <1>1 DEF Workspaces
<1> QED
    BY <1>2, <1>3 DEF LoadedFrom

\* A build that reads source src: what it has read is what is kept, and nothing is staged.
LEMMA Reading ==
    ASSUME BuildInv, Loading, proc.src \notin work.inputs
    PROVE  /\ ~Ended /\ proc.pc = "load" /\ proc.src \in 1..Depth(proc.rq) /\ proc.src \in Nat
           /\ proc.pos \in Nat /\ proc.pos >= 1
           /\ LoadOK(proc.rq, disk, work, proc)
           /\ disk.inputs = 1..(proc.src - 1) /\ work.inputs = disk.inputs
           /\ LoadedFrom(disk, work)
           /\ ReadAt(proc.rq, work, proc.src, proc.pos)
           /\ Blank(disk)
<1> DEFINE rq == proc.rq
           a == proc.src
           p == proc.pos
<1>1. proc.pc = "load" /\ a <= Len(Sources[rq]) /\ ~Ended
    BY DEF Loading, Ended
<1>2. rq \in Requests /\ disk \in Workspaces /\ work \in Workspaces /\ proc \in Processes
      /\ LedgerOK(rq, disk)
    BY <1>1, Running
<1>3. LoadOK(rq, disk, work, proc)
    BY <1>1 DEF BuildInv, ProcOK
<1>4. a \in Nat /\ p \in Nat /\ a >= 1 /\ p >= 1 /\ Depth(rq) \in Nat /\ a \in 1..Depth(rq)
  <2>1. a \in Nat /\ p \in Nat /\ Depth(rq) \in Nat
      BY <1>2, ProcessType, DepthType
  <2>2. a >= 1 /\ p >= 1
      BY <1>3 DEF LoadOK
  <2> QED
      BY <1>1, <2>1, <2>2 DEF Depth
<1>5. PICK n \in 0..Depth(rq) :
          /\ disk.inputs = 1..n
          /\ ReadAt(rq, disk, n + 1, 1)
          /\ \/ Blank(disk)
             \/ n = Depth(rq)
    BY <1>2 DEF LedgerOK
<1> HIDE DEF rq, a, p
<1>6. CASE p = 1
  <2>1. work = disk /\ 1..(a - 1) \subseteq disk.inputs
      BY <1>3, <1>6 DEF LoadOK, rq, a, p
  <2>2. n = a - 1
    <3>1. a \notin 1..n
        BY <1>5, <2>1 DEF a
    <3>2. a = 1 \/ a - 1 \in 1..n
        BY <1>4, <1>5, <2>1
    <3> QED
        BY <1>4, <3>1, <3>2
  <2>3. n + 1 = a
      BY <1>4, <2>2
  <2>4. Blank(disk)
      BY <1>4, <1>5, <2>2
  <2>5. LoadedFrom(disk, work)
      BY <1>2, <2>1 DEF Workspaces, LoadedFrom
  <2>6. ReadAt(rq, work, a, p)
      BY <1>5, <1>6, <2>1, <2>3
  <2>7. disk.inputs = 1..(a - 1) /\ work.inputs = disk.inputs
      BY <1>5, <2>1, <2>2
  <2> QED
      BY <1>1, <1>3, <1>4, <2>4, <2>5, <2>6, <2>7 DEF rq, a, p
<1>7. CASE p # 1
  <2>1. /\ disk.inputs = 1..(a - 1)
        /\ LoadedFrom(disk, work)
        /\ ReadAt(rq, work, a, p)
      BY <1>3, <1>7 DEF LoadOK, rq, a, p
  <2>2. work.inputs = disk.inputs
      BY <1>2, <2>1, LoadedType
  <2>3. n # Depth(rq)
    <3>1. a \notin 1..n
        BY <1>4, <1>5, <2>1
    <3> QED
        BY <1>4, <3>1
  <2> QED
      BY <1>1, <1>3, <1>4, <1>5, <2>1, <2>2, <2>3 DEF rq, a, p
<1> QED
    BY <1>6, <1>7

\* Nothing staged, and a source more.
LEMMA BlankLedger ==
    ASSUME NEW rq \in Requests, NEW d, NEW n \in 0..Depth(rq), d.inputs = 1..n,
           NEW a, a = n + 1, ReadAt(rq, d, a, 1), Blank(d)
    PROVE  LedgerOK(rq, d)
    BY DEF LedgerOK

\* A source ends.
LEMMA EndSourceKeeps ==
    ASSUME BuildInv, EndSource
    PROVE  BuildInv'
<1> DEFINE rq == proc.rq
           a == proc.src
           p == proc.pos
           pr == [proc EXCEPT !.src = @ + 1, !.pos = 1]
<1>1. proc.pc = "load" /\ a <= Len(Sources[rq]) /\ ~Ended /\ Loading
    BY DEF EndSource, Loading, Ended
<1>2. /\ rq \in Requests /\ disk \in Workspaces /\ work \in Workspaces /\ proc \in Processes
      /\ disk.build = rq /\ rq # None
    BY <1>1, Running
<1>3. LoadOK(rq, disk, work, proc)
    BY <1>1 DEF BuildInv, ProcOK
<1>4. a \in Nat /\ p \in Nat /\ Depth(rq) \in Nat /\ a >= 1
  <2>1. a >= 1
      BY <1>3 DEF LoadOK
  <2> QED
      BY <1>2, <2>1, ProcessType, DepthType
<1>5. proc' = pr /\ published' = published /\ refused' = refused
    BY DEF EndSource
<1>6. /\ pr \in Processes /\ pr.pc = "load" /\ pr.rq = rq /\ pr.src = a + 1 /\ pr.pos = 1
      /\ pr.point = proc.point /\ pr.firstPass = proc.firstPass /\ pr.started = proc.started
      /\ pr.previous = proc.previous /\ pr.counts = proc.counts
  <2> DEFINE n == a + 1
  <2>1. pr = [proc EXCEPT !.src = n, !.pos = 1] /\ n \in Nat
      BY <1>4
  <2> HIDE DEF n, pr
  <2> QED
      BY <1>1, <1>2, <2>1 DEF Processes, n
<1> HIDE DEF pr
<1>7. Unstarted(proc) => Unstarted(pr)
    BY <1>6 DEF Unstarted
<1>8. CASE proc.src \in work.inputs
  <2>1. disk' = disk /\ work' = work
      BY <1>8 DEF EndSource
  <2>2. p = 1
    <3> SUFFICES ASSUME p # 1 PROVE FALSE
        OBVIOUS
    <3>1. /\ disk.inputs = 1..(a - 1)
          /\ LoadedFrom(disk, work)
        BY <1>3 DEF LoadOK
    <3>2. work.inputs = disk.inputs
        BY <1>2, <3>1, LoadedType
    <3> QED
        BY <1>4, <1>8, <3>1, <3>2
  <2>3. work = disk /\ 1..(a - 1) \subseteq disk.inputs
      BY <1>3, <2>2 DEF LoadOK
  <2>4. 1..a \subseteq disk.inputs
      BY <1>4, <1>8, <2>3
  <2>5. 1..(pr.src - 1) \subseteq disk.inputs
      BY <1>4, <1>6, <2>4
  <2>6. LoadOK(rq, disk, disk, pr)
    <3>1. Unstarted(pr) /\ disk.staged = None /\ pr.point = ResumePoint(disk) /\ pr.counts = Committed(disk)
        BY <1>3, <1>6, <1>7 DEF LoadOK
    <3>2. pr.src >= 1 /\ pr.pos = 1
        BY <1>4, <1>6
    <3> QED
        BY <2>5, <3>1, <3>2 DEF LoadOK
  <2>7. ProcOK(disk, work, pr)
      BY <1>2, <1>6, <2>3, <2>6 DEF ProcOK
  <2> QED
      BY <1>5, <2>1, <2>7 DEF BuildInv
<1>9. CASE proc.src \notin work.inputs
  <2> DEFINE e == [work EXCEPT !.inputs = @ \cup {proc.src}]
  <2>1. p > Len(Sources[rq][a]) /\ work' = e /\ disk' = e
      BY <1>9 DEF EndSource, Mark
  <2>2. /\ a \in 1..Depth(rq) /\ disk.inputs = 1..(a - 1) /\ work.inputs = disk.inputs
        /\ LoadedFrom(disk, work)
        /\ ReadAt(rq, work, a, p) /\ Blank(disk)
      BY <1>1, <1>9, Reading
  <2>3. /\ work.lookup = disk.lookup /\ work.dockets = disk.dockets /\ work.universe = disk.universe
        /\ work.items = disk.items /\ work.output = disk.output /\ work.indexed = disk.indexed
        /\ work.cursor = disk.cursor /\ work.staged = disk.staged /\ work.build = disk.build
      BY <1>2, <2>2, LoadedType
  <2> HIDE DEF e
  <2>4. /\ e \in Workspaces /\ e.inputs = work.inputs \cup {a}
        /\ e.build = work.build /\ e.schemas = work.schemas /\ e.rows = work.rows
        /\ e.lookup = work.lookup /\ e.dockets = work.dockets /\ e.universe = work.universe
        /\ e.items = work.items /\ e.output = work.output /\ e.indexed = work.indexed
        /\ e.cursor = work.cursor /\ e.staged = work.staged
      BY <1>2, <1>4, MarkInputType DEF e
  <2>5. e.inputs = 1..a /\ a \in 0..Depth(rq)
      BY <1>4, <2>2, <2>4
  <2>6. ReadAt(rq, e, a + 1, 1)
    <3>1. \A s, id : Seen(rq, s, id, a + 1, 1) = Seen(rq, s, id, a, p)
      <4> SUFFICES ASSUME NEW s, NEW id PROVE Seen(rq, s, id, a + 1, 1) = Seen(rq, s, id, a, p)
          OBVIOUS
      <4>1. p \in Nat /\ p > Len(Sources[rq][a]) /\ a \in 1..Depth(rq)
          BY <1>4, <2>1, <2>2
      <4> HIDE DEF a, p, rq
      <4> QED
          BY <1>2, <4>1, SeenSource
    <3>2. ReadAt(rq, e, a, p)
        BY <2>2, <2>4 DEF ReadAt
    <3> HIDE DEF rq, a, p
    <3> QED
        BY <3>1, <3>2, ReadSame
  <2>7. Blank(e)
      BY <2>2, <2>3, <2>4 DEF Blank
  <2>8. LedgerOK(rq, e)
      BY <1>2, <2>5, <2>6, <2>7, BlankLedger
  <2>9. DiskOK(e)
      BY <1>2, <2>3, <2>4, <2>8 DEF DiskOK
  <2>10. LoadOK(rq, e, e, pr)
    <3>1. Unstarted(pr) /\ e.staged = None
        BY <1>3, <1>7, <2>7 DEF LoadOK, Blank
    <3>2. ResumePoint(e) = ResumePoint(disk) /\ Committed(e) = Committed(disk)
        BY <2>3, <2>4 DEF ResumePoint, Committed
    <3>3. pr.point = ResumePoint(e) /\ pr.counts = Committed(e)
        BY <1>3, <1>6, <3>2 DEF LoadOK
    <3>4. pr.src >= 1 /\ pr.pos = 1 /\ 1..(pr.src - 1) \subseteq e.inputs
        BY <1>4, <1>6, <2>5
    <3> QED
        BY <3>1, <3>3, <3>4 DEF LoadOK
  <2>11. ProcOK(e, e, pr)
      BY <1>2, <1>6, <2>3, <2>4, <2>10 DEF ProcOK
  <2> QED
      BY <1>5, <2>1, <2>9, <2>11 DEF BuildInv
<1> QED
    BY <1>8, <1>9

\* A row is read.
LEMMA LoadRowKeeps ==
    ASSUME BuildInv, LoadRow
    PROVE  BuildInv'
<1> DEFINE rq == proc.rq
           a == proc.src
           p == proc.pos
           row == Sources[rq][a][p]
           k == <<row.sel, row.id>>
           incoming == EntryOf([source |-> a, row |-> row])
           stored == Get(work.rows, k)
           next == IF stored = None THEN incoming ELSE ResolvedOf(rq, stored, incoming)
           rows == Put(work.rows, k, next)
           schemas == work.schemas \cup {row.sel}
<1>1. Loading /\ a \notin work.inputs /\ p <= Len(Sources[rq][a])
    BY DEF LoadRow
<1>2. /\ ~Ended /\ proc.pc = "load" /\ a \in 1..Depth(rq) /\ a \in Nat /\ p \in Nat /\ p >= 1
      /\ disk.inputs = 1..(a - 1)
      /\ LoadedFrom(disk, work)
      /\ ReadAt(rq, work, a, p)
    BY <1>1, Reading
<1>3. LoadOK(rq, disk, work, proc)
    BY <1>1, Reading
<1>4. /\ rq \in Requests /\ disk \in Workspaces /\ work \in Workspaces /\ proc \in Processes
      /\ disk.build = rq /\ rq # None
    BY <1>2, Running
<1>5. p \in 1..Len(Sources[rq][a]) /\ Len(Sources[rq][a]) \in Nat
    BY <1>1, <1>2, <1>4, RowOrder
<1>6. work.rows \in Partial(Keys, Entries) /\ work.schemas \in SUBSET Selectors
    BY <1>4, WorkspaceType
<1>7. incoming = [source |-> a, row |-> row, discards |-> <<>>]
    BY DEF EntryOf
<1>8. Owner(stored, incoming) = OwnerOf(rq, stored, incoming)
    BY DEF Owner, OwnerOf
<1>9. Resolved(stored, incoming) = ResolvedOf(rq, stored, incoming)
    BY DEF Resolved, ResolvedOf, Owner, OwnerOf
<1>10. row.sel \in Selectors
    BY <1>2, <1>4, <1>5, RowFiles DEF Rows
<1>11. IF stored # None /\ OwnerOf(rq, stored, incoming) = None
       THEN row.sel \in Selectors /\ row.id \in Ids /\ ~Resolvable(rq, row.sel, row.id)
       ELSE rows \in Partial(Keys, Entries) /\ RowsAt(rq, rows, a, p + 1)
    BY <1>2, <1>4, <1>5, <1>6, LoadKeeps DEF ReadAt
<1>12. SchemasAt(rq, schemas, a, p + 1)
    BY <1>2, <1>4, <1>5, SchemasKeep DEF ReadAt
<1>13. IF stored # None /\ Owner(stored, incoming) = None
       THEN Refuse
       ELSE /\ work' = [work EXCEPT !.schemas = @ \cup {row.sel},
                                    !.rows = Put(@, k, IF stored = None THEN incoming
                                                       ELSE Resolved(stored, incoming))]
            /\ proc' = [proc EXCEPT !.pos = @ + 1]
            /\ UNCHANGED <<disk, published, refused>>
    BY <1>7 DEF LoadRow
<1> HIDE DEF row, k, incoming, stored
<1>14. CASE stored # None /\ OwnerOf(rq, stored, incoming) = None
  <2>1. Refuse
      BY <1>8, <1>13, <1>14
  <2>2. ~Acceptable(rq)
      BY <1>11, <1>14 DEF Acceptable
  <2> QED
      BY <1>4, <2>1, <2>2, RefuseKeeps
<1>15. CASE ~(stored # None /\ OwnerOf(rq, stored, incoming) = None)
  <2> DEFINE w == [work EXCEPT !.rows = rows, !.schemas = schemas]
             pr == [proc EXCEPT !.pos = @ + 1]
  <2>1. work' = w /\ proc' = pr /\ disk' = disk /\ published' = published /\ refused' = refused
    <3>1. [work EXCEPT !.schemas = @ \cup {row.sel},
                       !.rows = Put(@, k, IF stored = None THEN incoming
                                          ELSE Resolved(stored, incoming))] = w
        BY <1>4, <1>9 DEF Workspaces
    <3> QED
        BY <1>8, <1>13, <1>15, <3>1
  <2>2. rows \in Partial(Keys, Entries) /\ RowsAt(rq, rows, a, p + 1)
      BY <1>11, <1>15
  <2>3. schemas \in SUBSET Selectors
      BY <1>6, <1>10
  <2> HIDE DEF rows, schemas
  <2>4. w \in Workspaces /\ w.rows = rows /\ w.schemas = schemas
    <3> DEFINE u == w
    <3>1. u = [work EXCEPT !.rows = rows, !.schemas = schemas]
        OBVIOUS
    <3> HIDE DEF u
    <3>2. u \in Workspaces /\ u.rows = rows /\ u.schemas = schemas
        BY <1>4, <2>2, <2>3, <3>1 DEF Workspaces
    <3> QED
        BY <3>1, <3>2
  <2>5. LoadedFrom(disk, w)
      BY <1>2, <1>4, <2>2, <2>3, LoadedMore
  <2> HIDE DEF w
  <2>6. ReadAt(rq, w, a, p + 1)
      BY <1>12, <2>2, <2>4 DEF ReadAt, schemas
  <2>7. /\ pr \in Processes /\ pr.pc = "load" /\ pr.rq = rq /\ pr.src = a /\ pr.pos = p + 1
        /\ pr.point = proc.point /\ pr.firstPass = proc.firstPass /\ pr.started = proc.started
        /\ pr.previous = proc.previous /\ pr.counts = proc.counts
      BY <1>2, <1>4 DEF Processes
  <2> HIDE DEF pr
  <2>8. LoadOK(rq, disk, w, pr)
    <3>1. Unstarted(pr) /\ disk.staged = None /\ pr.point = ResumePoint(disk) /\ pr.counts = Committed(disk)
        BY <1>3, <2>7 DEF LoadOK, Unstarted
    <3>2. pr.src >= 1 /\ pr.pos >= 1 /\ pr.pos # 1
        BY <1>2, <2>7
    <3>3. pr.src <= Depth(rq) /\ pr.pos <= Len(Sources[rq][pr.src]) + 1
        BY <1>1, <1>2, <1>4, <1>5, <2>7, DepthType
    <3>4. disk.inputs = 1..(pr.src - 1) /\ ReadAt(rq, w, pr.src, pr.pos)
        BY <1>2, <2>6, <2>7
    <3> QED
        BY <2>5, <3>1, <3>2, <3>3, <3>4 DEF LoadOK
  <2>9. ProcOK(disk, w, pr)
      BY <1>4, <2>4, <2>7, <2>8 DEF ProcOK
  <2> QED
      BY <2>1, <2>9 DEF BuildInv
<1> QED
    BY <1>14, <1>15

-----------------------------------------------------------------------------
(* The end of loading, and the pre-pass.                                   *)

\* A build that has loaded every source.
LEMMA Loaded ==
    ASSUME BuildInv, proc.pc = "load", proc.src > Len(Sources[proc.rq])
    PROVE  /\ LoadOK(proc.rq, disk, work, proc) /\ work = disk
           /\ disk.inputs = 1..Depth(proc.rq) /\ ReadAt(proc.rq, disk, Depth(proc.rq) + 1, 1)
           /\ \/ Blank(disk)
              \/ /\ AllRead(proc.rq)
                 /\ disk.indexed \/ disk.staged # None
                 /\ Progress(proc.rq, disk, Committed(disk))
<1> DEFINE rq == proc.rq
           a == proc.src
<1>1. /\ rq \in Requests /\ proc \in Processes /\ LedgerOK(rq, disk)
  <2>1. ~Ended
      BY DEF Ended
  <2> QED
      BY <2>1, Running
<1>2. LoadOK(rq, disk, work, proc)
    BY DEF BuildInv, ProcOK
<1>3. a \in Nat /\ Depth(rq) \in Nat /\ a > Depth(rq)
  <2>1. a > Depth(rq)
      BY DEF Depth
  <2> QED
      BY <1>1, <2>1, ProcessType, DepthType
<1>4. work = disk /\ 1..(a - 1) \subseteq disk.inputs
  <2>1. proc.pos = 1
      BY <1>2, <1>3 DEF LoadOK
  <2> QED
      BY <1>2, <2>1 DEF LoadOK
<1> HIDE DEF rq, a
<1>5. PICK n \in 0..Depth(rq) :
          /\ disk.inputs = 1..n
          /\ ReadAt(rq, disk, n + 1, 1)
          /\ \/ Blank(disk)
             \/ /\ n = Depth(rq) /\ AllRead(rq)
                /\ disk.indexed \/ disk.staged # None
                /\ Progress(rq, disk, Committed(disk))
                /\ disk.staged # None => disk.output = Universe(rq)
    BY <1>1 DEF LedgerOK
<1>6. n = Depth(rq)
  <2>1. CASE Depth(rq) = 0
      BY <2>1
  <2>2. CASE Depth(rq) # 0
    <3>1. Depth(rq) \in 1..(a - 1)
        BY <1>3, <2>2
    <3>2. Depth(rq) \in 1..n
        BY <1>4, <1>5, <3>1
    <3> QED
        BY <1>3, <3>2
  <2> QED
      BY <2>1, <2>2
<1> QED
    BY <1>2, <1>4, <1>5, <1>6 DEF rq

\* What a selector's read refuses is what no build accepts, and the other way round.
LEMMA ReadsRefused ==
    ASSUME NEW rq \in Requests, NEW S \in SUBSET Selectors, S = StatedSelectors(rq),
           NEW R \in SUBSET ReadSelectors(rq),
           \E s \in R : \E t \in S : Family[t] = Family[s] /\ t # s /\ t \notin UniverseSelectors(rq)
    PROVE  ~Acceptable(rq)
    BY DEF Acceptable, AllRead

LEMMA ReadsAccepted ==
    ASSUME NEW rq \in Requests, NEW S, S = StatedSelectors(rq),
           NEW R, UniverseSelectors(rq) \subseteq R,
           Policy[rq].lookup \notin {None} \cup R => AllRead(rq),
           ~\E s \in R : \E t \in S : Family[t] = Family[s] /\ t # s /\ t \notin UniverseSelectors(rq)
    PROVE  AllRead(rq)
<1>1. CASE Policy[rq].lookup \in {None} \cup R
  <2>1. ReadSelectors(rq) \subseteq R
      BY <1>1 DEF ReadSelectors
  <2> QED
      BY <2>1 DEF AllRead
<1> QED
    BY <1>1

\* Before anything is staged, there is nothing to count.
LEMMA BlankCounts ==
    ASSUME NEW rq \in Requests, NEW w, Blank(w)
    PROVE  CountsRight(w.output, w.items, NoCounts) /\ ItemsRight(rq, w.output, w.items, NoCounts)
<1> DEFINE c == NoCounts
<1>1. w.output = {} /\ DOMAIN w.items = {}
    BY DEF Blank
<1>2. c.after = None /\ c.count = 0 /\ c.selected = 0 /\ \A p \in Partitions : c.parts[p] = 0
    BY NoCountsType
<1> HIDE DEF c
<1>3. Cardinality({}) = 0
    BY FS_EmptySet
<1>4. CountsRight(w.output, w.items, c)
  <2>1. {id \in w.output : w.items[id].selected} = {}
        /\ \A p \in Partitions : {id \in w.output : PartitionOf[id] = p} = {}
      BY <1>1
  <2> QED
      BY <1>1, <1>2, <1>3, <2>1 DEF CountsRight
<1>5. ItemsRight(rq, w.output, w.items, c)
  <2>1. {id \in Universe(rq) : c.after # None /\ id <= c.after} = {}
      BY <1>2
  <2>2. Cardinality({id \in w.output : id \in Good(rq)}) = 0
    <3>1. {id \in w.output : id \in Good(rq)} = {}
        BY <1>1
    <3> QED
        BY <1>3, <3>1
  <2>3. Capped(rq, 0) = 0
      BY PolicyAssumption DEF Capped
  <2>4. c.selected = Capped(rq, Cardinality({id \in w.output : id \in Good(rq)}))
      BY <1>2, <2>2, <2>3
  <2> QED
      BY <1>1, <1>2, <2>1, <2>4 DEF ItemsRight
<1> QED
    BY <1>4, <1>5 DEF c

\* A policy without a pre-pass has nothing to join either.
LEMMA BlankProgress ==
    ASSUME NEW rq \in Requests, NEW w, Blank(w), ~Policy[rq].twoPass
    PROVE  Progress(rq, w, NoCounts)
<1>1. w.universe = {} /\ w.output = {} /\ DOMAIN w.dockets = {} /\ DOMAIN w.lookup = {}
    BY DEF Blank
<1>2. UniverseRight(rq, w.universe, w.output)
    BY <1>1 DEF UniverseRight
<1>3. JoinsRight(rq, w.dockets, w.lookup)
    BY <1>1, JoinsEmpty
<1> QED
    BY <1>2, <1>3, BlankCounts DEF Progress

\* A build that resumes where an earlier one committed, or starts without a pre-pass.
LEMMA PassStarts ==
    ASSUME NEW rq \in Requests, NEW d \in Workspaces, d.build = rq, d.inputs = 1..Depth(rq),
           ReadAt(rq, d, Depth(rq) + 1, 1), AllRead(rq), d.staged = None,
           Blank(d) \/ (d.indexed /\ Progress(rq, d, Committed(d))),
           NEW pr, Unstarted(pr), pr.point = ResumePoint(d), pr.counts = Committed(d),
           pr.budget = pr.point.selected, Policy[rq].twoPass => pr.point.indexed
    PROVE  RowsOK(rq, d, pr)
<1>1. /\ pr.point.indexed = d.indexed /\ pr.point.after = pr.counts.after
      /\ pr.budget = pr.counts.selected
    BY CommittedType
<1>2. pr.firstPass /\ ~pr.started /\ pr.previous = None
    BY DEF Unstarted
<1>3. Progress(rq, d, pr.counts)
  <2>1. CASE Blank(d)
    <3>1. pr.counts = NoCounts /\ ~Policy[rq].twoPass
        BY <1>1, <2>1 DEF Blank, Committed
    <3> QED
        BY <2>1, <3>1, BlankProgress
  <2> QED
      BY <2>1
<1>4. ~Resumes(pr) => d.universe = d.output \cup {}
  <2>1. ~Resumes(pr) => Blank(d)
      BY <1>1 DEF Resumes
  <2> QED
      BY <2>1 DEF Blank
<1>5. PassOK(rq, d, pr, {})
    BY <1>1, <1>2, <1>3, <1>4 DEF PassOK
<1>6. pr.counts.after = LastRead(pr)
    BY <1>1, <1>2 DEF LastRead
<1> QED
    BY <1>5, <1>6 DEF RowsOK

\* Loading is over.
LEMMA EndLoadKeeps ==
    ASSUME BuildInv, EndLoad
    PROVE  BuildInv'
<1> DEFINE rq == proc.rq
           b == proc.point.selected
           at == IF PrePassDue THEN "index" ELSE "rows"
           pr == [proc EXCEPT !.pc = at, !.budget = b]
<1>1. proc.pc = "load" /\ proc.src > Len(Sources[rq]) /\ ~Ended
    BY DEF EndLoad, Ended
<1>2. /\ rq \in Requests /\ disk \in Workspaces /\ proc \in Processes /\ disk.build = rq /\ rq # None
    BY <1>1, Running
<1>3. LoadOK(rq, disk, work, proc) /\ work = disk
      /\ disk.inputs = 1..Depth(rq) /\ ReadAt(rq, disk, Depth(rq) + 1, 1)
    BY <1>1, Loaded
<1>4. \/ Blank(disk)
      \/ AllRead(rq) /\ (disk.indexed \/ disk.staged # None) /\ Progress(rq, disk, Committed(disk))
    BY <1>1, Loaded
<1>5. Unstarted(proc) /\ disk.staged = None /\ proc.point = ResumePoint(disk)
      /\ proc.counts = Committed(disk)
    BY <1>3 DEF LoadOK
<1>6. disk.schemas = StatedSelectors(rq) /\ disk.schemas \in SUBSET Selectors
  <2>1. disk.rows \in Partial(Keys, Entries) /\ disk.schemas \in SUBSET Selectors
      BY <1>2, WorkspaceType
  <2> QED
      BY <1>2, <1>3, <2>1, ReadComplete
<1>7. proc.point.indexed = disk.indexed /\ proc.point.after = Committed(disk).after
      /\ b = Committed(disk).selected /\ b \in Nat
    BY <1>2, <1>5, CommittedType, CountsType
<1>8. Read = UniverseSelectors(rq)
             \cup IF PrePassDue /\ Policy[rq].lookup # None THEN {Policy[rq].lookup} ELSE {}
    BY DEF Read
<1>9. \A s : Unread(work.schemas, s)
          <=> \E t \in disk.schemas : Family[t] = Family[s] /\ t # s /\ t \notin UniverseSelectors(rq)
    BY <1>3 DEF Unread
<1>10. CASE \E s \in Read : Unread(work.schemas, s)
  <2>1. Refuse
      BY <1>10 DEF EndLoad
  <2>2. Read \in SUBSET ReadSelectors(rq)
      BY <1>8 DEF ReadSelectors
  <2>3. ~Acceptable(rq)
      BY <1>2, <1>6, <1>9, <1>10, <2>2, ReadsRefused
  <2> QED
      BY <1>2, <2>1, <2>3, RefuseKeeps
<1>11. CASE ~\E s \in Read : Unread(work.schemas, s)
  <2>1. proc' = pr /\ disk' = disk /\ work' = disk /\ published' = published /\ refused' = refused
      BY <1>3, <1>11 DEF EndLoad
  <2>2. PrePassDue <=> Policy[rq].twoPass /\ ~disk.indexed
      BY <1>7 DEF PrePassDue
  <2>3. AllRead(rq)
    <3>1. UniverseSelectors(rq) \subseteq Read
        BY <1>8
    <3>2. ASSUME Policy[rq].lookup \notin {None} \cup Read PROVE AllRead(rq)
      <4>1. ~PrePassDue /\ Policy[rq].twoPass
          BY <1>2, <1>8, <3>2, PolicyAssumption
      <4>2. ~Blank(disk)
          BY <2>2, <4>1 DEF Blank
      <4> QED
          BY <1>4, <4>2
    <3> QED
        BY <1>2, <1>6, <1>9, <1>11, <3>1, <3>2, ReadsAccepted
  <2>4. /\ pr \in Processes /\ pr.pc = at /\ pr.rq = rq /\ pr.budget = b
        /\ pr.point = proc.point /\ pr.firstPass = proc.firstPass /\ pr.started = proc.started
        /\ pr.previous = proc.previous /\ pr.counts = proc.counts
    <3>1. at \in {"index", "rows"}
        OBVIOUS
    <3> HIDE DEF at, b
    <3> QED
        BY <1>2, <1>7, <3>1 DEF Processes
  <2> HIDE DEF pr
  <2>5. Unstarted(pr)
      BY <1>5, <2>4 DEF Unstarted
  <2>6. CASE PrePassDue
    <3>1. pr.pc = "index"
        BY <2>4, <2>6
    <3>2. Blank(disk)
        BY <1>4, <1>5, <2>2, <2>6
    <3>3. Committed(disk) = NoCounts
        BY <3>2 DEF Blank, Committed
    <3>4. pr.point.after = None /\ pr.counts = NoCounts /\ pr.budget = 0 /\ ~pr.point.indexed
        BY <1>5, <1>7, <2>2, <2>4, <2>6, <3>3, NoCountsType
    <3>5. IndexOK(rq, disk, disk, pr)
        BY <1>3, <2>2, <2>3, <2>5, <2>6, <3>2, <3>4 DEF IndexOK
    <3>6. ProcOK(disk, disk, pr)
        BY <1>2, <2>4, <3>1, <3>5 DEF ProcOK
    <3> QED
        BY <2>1, <3>6 DEF BuildInv
  <2>7. CASE ~PrePassDue
    <3>1. pr.pc = "rows"
        BY <2>4, <2>7
    <3>2. Policy[rq].twoPass => pr.point.indexed
        BY <1>7, <2>2, <2>4, <2>7
    <3>3. Blank(disk) \/ (disk.indexed /\ Progress(rq, disk, Committed(disk)))
        BY <1>4, <1>5
    <3>4. pr.point = ResumePoint(disk) /\ pr.counts = Committed(disk) /\ pr.budget = pr.point.selected
        BY <1>5, <2>4
    <3>5. RowsOK(rq, disk, pr)
        BY <1>2, <1>3, <1>5, <2>3, <2>5, <3>2, <3>3, <3>4, PassStarts
    <3>6. ProcOK(disk, disk, pr)
        BY <1>2, <2>4, <3>1, <3>5 DEF ProcOK
    <3> QED
        BY <2>1, <3>6 DEF BuildInv
  <2> QED
      BY <2>6, <2>7
<1> QED
    BY <1>10, <1>11

\* What the pre-pass has indexed.
LEMMA JoinsKeep ==
    ASSUME NEW rq \in Requests, NEW w \in Workspaces, w.build = rq, Blank(w),
           w.inputs = 1..Depth(rq), ReadAt(rq, w, Depth(rq) + 1, 1), AllRead(rq),
           Policy[rq].twoPass,
           NEW v \in Workspaces, v.build = w.build, v.inputs = w.inputs, v.schemas = w.schemas,
           v.rows = w.rows, v.items = w.items, v.output = w.output, v.indexed = w.indexed,
           v.cursor = w.cursor, v.staged = w.staged, v.universe = Universe(rq),
           JoinsRight(rq, v.dockets, v.lookup),
           NEW pr, ~pr.firstPass, ~pr.started, pr.previous = None, ~pr.point.indexed,
           pr.point.after = None, pr.counts = NoCounts, pr.budget = 0
    PROVE  RowsOK(rq, v, pr)
<1>1. w.output = {} /\ w.staged = None /\ w.cursor = None
    BY DEF Blank
<1>2. Committed(v) = NoCounts
    BY <1>1 DEF Committed
<1>3. CountsRight(v.output, v.items, NoCounts) /\ ItemsRight(rq, v.output, v.items, NoCounts)
    BY BlankCounts
<1>4. UniverseRight(rq, v.universe, v.output)
    BY <1>1 DEF UniverseRight
<1>5. Progress(rq, v, NoCounts)
    BY <1>3, <1>4 DEF Progress
<1>6. ReadAt(rq, v, Depth(rq) + 1, 1)
    BY DEF ReadAt
<1>7. NoCounts.after = None /\ NoCounts.selected = 0
    BY NoCountsType
<1>8. PassOK(rq, v, pr, {})
    BY <1>1, <1>2, <1>5, <1>6, <1>7 DEF PassOK
<1>9. pr.counts.after = LastRead(pr)
    BY <1>7 DEF LastRead
<1> QED
    BY <1>8, <1>9 DEF RowsOK

\* The pre-pass.
LEMMA PrePassKeeps ==
    ASSUME BuildInv, PrePass
    PROVE  BuildInv'
<1> DEFINE rq == proc.rq
           ids == {id \in Ids : Held(work.rows, id) # {}}
           docketIds == {id \in ids : DocketSel \in Held(work.rows, id)}
           dockets == [id \in docketIds |-> work.rows[<<DocketSel, id>>]]
           lookup == IF Policy[rq].lookup = None THEN <<>> ELSE LookupIndex(work.rows, Policy[rq].lookup)
           w == [work EXCEPT !.universe = @ \cup ids, !.dockets = dockets, !.lookup = lookup]
           pr == [proc EXCEPT !.pc = "rows", !.firstPass = FALSE]
<1>1. proc.pc = "index" /\ ~Ended
    BY DEF PrePass, Ended
<1>2. /\ rq \in Requests /\ work \in Workspaces /\ proc \in Processes /\ disk.build = rq /\ rq # None
    BY <1>1, Running
<1>3. IndexOK(rq, disk, work, proc)
    BY <1>1 DEF BuildInv, ProcOK
<1>4. /\ work = disk /\ Blank(work) /\ work.inputs = 1..Depth(rq) /\ AllRead(rq) /\ Policy[rq].twoPass
      /\ work.universe = {} /\ DOMAIN work.dockets = {} /\ DOMAIN work.lookup = {}
    BY <1>3 DEF IndexOK, Blank
<1>5. ReadAt(rq, work, Depth(rq) + 1, 1)
  <2>1. LedgerOK(rq, disk)
      BY <1>1, Running
  <2>2. PICK n \in 0..Depth(rq) : disk.inputs = 1..n /\ ReadAt(rq, disk, n + 1, 1)
      BY <2>1 DEF LedgerOK
  <2>3. n = Depth(rq)
    <3>1. Depth(rq) \in Nat /\ 1..n = 1..Depth(rq)
        BY <1>2, <1>4, <2>2, DepthType
    <3>2. n < Depth(rq) => Depth(rq) \in 1..Depth(rq) /\ Depth(rq) \notin 1..n
        BY <3>1
    <3> QED
        BY <3>1, <3>2
  <2> QED
      BY <1>4, <2>2, <2>3
<1>6. Complete(rq, work.rows)
  <2>1. work.rows \in Partial(Keys, Entries)
      BY <1>2, WorkspaceType
  <2> QED
      BY <1>2, <1>5, <2>1, ReadComplete
<1>7. \A id : Held(work.rows, id) = HeldBy(rq, work.rows, id)
    BY DEF Held, HeldBy
<1>8. ids = Universe(rq)
  <2>1. \A id \in Ids : Held(work.rows, id) # {} <=> id \in Universe(rq)
      BY <1>2, <1>6, <1>7, HeldIs
  <2>2. Universe(rq) \subseteq Ids
      BY DEF Universe
  <2> QED
      BY <2>1, <2>2
<1>9. IF (\E id \in ids : Cardinality(Held(work.rows, id)) > 1)
         \/ ids \cap work.universe # {}
         \/ docketIds \cap DOMAIN work.dockets # {}
         \/ DOMAIN lookup \cap DOMAIN work.lookup # {}
      THEN Refuse
      ELSE work' = w /\ proc' = pr /\ UNCHANGED <<disk, published, refused>>
    BY DEF PrePass
<1>10. dockets = [id \in {i \in Universe(rq) : DocketSel \in HeldBy(rq, work.rows, i)}
                     |-> work.rows[<<DocketSel, id>>]]
  <2>1. docketIds = {i \in Universe(rq) : DocketSel \in HeldBy(rq, work.rows, i)}
      BY <1>7, <1>8
  <2> QED
      BY <2>1
<1>11. Policy[rq].lookup = None => lookup = <<>>
    OBVIOUS
<1>12. Policy[rq].lookup # None => lookup = LookupIndex(work.rows, Policy[rq].lookup)
    OBVIOUS
<1> HIDE DEF docketIds, dockets, lookup
<1>13. CASE \E id \in ids : Cardinality(Held(work.rows, id)) > 1
  <2>1. Refuse
      BY <1>9, <1>13
  <2>2. PICK id \in Ids : Cardinality(HeldBy(rq, work.rows, id)) > 1
      BY <1>7, <1>13
  <2>3. ~Acceptable(rq)
      BY <1>2, <1>6, <2>2, HeldTwice DEF Acceptable
  <2> QED
      BY <1>2, <2>1, <2>3, RefuseKeeps
<1>14. CASE ~\E id \in ids : Cardinality(Held(work.rows, id)) > 1
  <2>1. proc' = pr /\ work' = w /\ disk' = disk /\ published' = published /\ refused' = refused
      BY <1>4, <1>9, <1>14
  <2>2. dockets \in Partial(Ids, Entries)
        /\ (Distinct(rq) =>
               \A d \in Nat \cup {None} :
                   (IF Get(dockets, d) = None THEN None ELSE Get(dockets, d).source) = DocketOf(rq, d))
      BY <1>2, <1>4, <1>6, <1>10, DocketsRight
  <2>3. /\ lookup \in Partial(Nat, Entries)
        /\ \A n \in Nat \cup {None} :
              (IF Get(lookup, n) = None THEN None ELSE Get(lookup, n).row.id) = LookupOf(rq, n)
    <3>1. CASE Policy[rq].lookup = None
      <4>1. DOMAIN lookup = {} /\ lookup = [x \in DOMAIN lookup |-> lookup[x]]
          BY <1>11, <3>1
      <4>2. lookup \in Partial(Nat, Entries)
          BY <4>1, PartialEmpty
      <4> QED
          BY <1>2, <3>1, <4>1, <4>2, NoLookup
    <3>2. CASE Policy[rq].lookup # None
        BY <1>2, <1>6, <1>12, <3>2, LookupRight
    <3> QED
        BY <3>1, <3>2
  <2>4. JoinsRight(rq, dockets, lookup)
      BY <2>2, <2>3 DEF JoinsRight
  <2>5. Universe(rq) \in SUBSET Ids
      BY DEF Universe
  <2> DEFINE u == Universe(rq)
  <2>6. w = [work EXCEPT !.universe = u, !.dockets = dockets, !.lookup = lookup]
      BY <1>4, <1>8
  <2> HIDE DEF w, u
  <2>7. /\ w \in Workspaces /\ w.universe = u /\ w.dockets = dockets /\ w.lookup = lookup
        /\ w.build = work.build /\ w.inputs = work.inputs /\ w.schemas = work.schemas /\ w.rows = work.rows
        /\ w.items = work.items /\ w.output = work.output /\ w.indexed = work.indexed
        /\ w.cursor = work.cursor /\ w.staged = work.staged
    <3>1. u \in SUBSET Ids
        BY <2>5 DEF u
    <3> QED
        BY <1>2, <2>2, <2>3, <2>6, <3>1 DEF Workspaces
  <2>8. /\ pr \in Processes /\ pr.pc = "rows" /\ pr.rq = rq /\ pr.budget = proc.budget
        /\ pr.point = proc.point /\ ~pr.firstPass /\ pr.started = proc.started
        /\ pr.previous = proc.previous /\ pr.counts = proc.counts
      BY <1>2 DEF Processes
  <2> HIDE DEF pr
  <2>9. /\ ~pr.started /\ pr.previous = None /\ ~pr.point.indexed /\ pr.point.after = None
        /\ pr.counts = NoCounts /\ pr.budget = 0
      BY <1>3, <2>8 DEF IndexOK, Unstarted
  <2>10. RowsOK(rq, w, pr)
    <3>1. work.build = rq /\ w.universe = Universe(rq) /\ JoinsRight(rq, w.dockets, w.lookup)
        BY <1>2, <1>4, <2>4, <2>7 DEF u
    <3> HIDE DEF rq
    <3> QED
        BY <1>2, <1>4, <1>5, <2>7, <2>8, <2>9, <3>1, JoinsKeep
  <2>11. ProcOK(disk, w, pr)
      BY <1>2, <2>7, <2>8, <2>10 DEF ProcOK
  <2> QED
      BY <2>1, <2>11 DEF BuildInv
<1> QED
    BY <1>13, <1>14

\* A build that reads the universe.
LEMMA Passing ==
    ASSUME BuildInv, proc.pc \in {"rows", "item"}
    PROVE  /\ ~Ended /\ proc.rq \in Requests /\ disk.build = proc.rq /\ proc.rq # None
           /\ work \in Workspaces /\ proc \in Processes
           /\ Complete(proc.rq, work.rows) /\ (\A s \in Selectors, id \in Ids : Resolvable(proc.rq, s, id))
           /\ \A id : Held(work.rows, id) = HeldBy(proc.rq, work.rows, id)
<1> DEFINE rq == proc.rq
<1>1. ~Ended
    BY DEF Ended
<1>2. rq \in Requests /\ disk.build = rq /\ rq # None /\ work \in Workspaces /\ proc \in Processes
    BY <1>1, Running
<1>3. ReadAt(rq, work, Depth(rq) + 1, 1)
    BY DEF BuildInv, ProcOK, RowsOK, ItemOK, PassOK
<1>4. work.rows \in Partial(Keys, Entries)
    BY <1>2, WorkspaceType
<1>5. \A id : Held(work.rows, id) = HeldBy(rq, work.rows, id)
    BY DEF Held, HeldBy
<1> HIDE DEF rq
<1>6. Complete(rq, work.rows) /\ \A s \in Selectors, id \in Ids : Resolvable(rq, s, id)
    BY <1>2, <1>3, <1>4, ReadComplete
<1> QED
    BY <1>1, <1>2, <1>5, <1>6 DEF rq

\* A universe that repeats an id.
LEMMA RepeatKeeps ==
    ASSUME BuildInv, RefuseRepeat
    PROVE  BuildInv'
<1> DEFINE rq == proc.rq
           id == proc.previous
<1>1. proc.pc = "rows" /\ Refuse /\ Repeated(work.rows)
    BY DEF RefuseRepeat
<1>2. rq \in Requests /\ proc \in Processes /\ Complete(rq, work.rows)
      /\ Held(work.rows, id) = HeldBy(rq, work.rows, id)
    BY <1>1, Passing
<1>3. id \in Ids /\ Cardinality(HeldBy(rq, work.rows, id)) > 1
  <2>1. id # None /\ Cardinality(Held(work.rows, id)) > 1
      BY <1>1 DEF Repeated
  <2> QED
      BY <1>2, <2>1, ProcessType
<1> HIDE DEF rq, id
<1>4. ~Acceptable(rq)
    BY <1>2, <1>3, HeldTwice DEF Acceptable
<1> QED
    BY <1>1, <1>2, <1>4, RefuseKeeps DEF rq

-----------------------------------------------------------------------------
(* The pass over the universe.                                             *)

\* What a pass commits is a ledger, when it commits the counts of its items.
LEMMA PassLedger ==
    ASSUME NEW rq \in Requests, NEW w, NEW pr, NEW reached, PassOK(rq, w, pr, reached),
           w.indexed, pr.counts = Committed(w)
    PROVE  LedgerOK(rq, w)
<1>1. Depth(rq) \in 0..Depth(rq)
    BY DepthType
<1>2. /\ w.inputs = 1..Depth(rq) /\ ReadAt(rq, w, Depth(rq) + 1, 1) /\ AllRead(rq)
      /\ w.staged = None /\ Progress(rq, w, Committed(w))
    BY DEF PassOK
<1> QED
    BY <1>1, <1>2 DEF LedgerOK

\* What remains to be read is what has no item yet.
RemainingOf(rq, rows, last) == {id \in Ids : HeldBy(rq, rows, id) # {} /\ (last # None => id > last)}

LEMMA RemainingIs ==
    ASSUME NEW rq \in Requests, NEW rows, Complete(rq, rows), NEW output, NEW items, NEW c \in Counts,
           ItemsRight(rq, output, items, c)
    PROVE  /\ RemainingOf(rq, rows, c.after) = Universe(rq) \ output
           /\ \A id \in Universe(rq) \ output :
                 (\A y \in Universe(rq) \ output : id <= y)
                     => output = {i \in Universe(rq) : i < id}
<1> DEFINE last == c.after
<1>1. output = {id \in Universe(rq) : last # None /\ id <= last}
    BY DEF ItemsRight
<1>2. last \in Ids \cup {None} /\ \A i \in Ids : i \in Nat
    BY CountsType, IdsAssumption
<1>3. Universe(rq) \subseteq Ids
    BY DEF Universe
<1>4. \A id \in Ids : HeldBy(rq, rows, id) # {} <=> id \in Universe(rq)
    BY HeldIs
<1> HIDE DEF last
<1>5. RemainingOf(rq, rows, last) = {id \in Universe(rq) : last # None => id > last}
    BY <1>3, <1>4 DEF RemainingOf
<1>6. \A id \in Universe(rq) : (last # None => id > last) <=> ~(last # None /\ id <= last)
    BY <1>2, <1>3
<1>7. RemainingOf(rq, rows, last) = Universe(rq) \ output
    BY <1>1, <1>5, <1>6
<1>8. ASSUME NEW id \in Universe(rq) \ output, \A y \in Universe(rq) \ output : id <= y
      PROVE  output = {i \in Universe(rq) : i < id}
  <2>1. ASSUME NEW i \in output PROVE i \in Universe(rq) /\ i < id
    <3>1. i \in Universe(rq) /\ last # None /\ i <= last
        BY <1>1
    <3>2. id > last
        BY <1>1, <1>2, <1>3, <3>1
    <3> QED
        BY <1>2, <1>3, <3>1, <3>2
  <2>2. ASSUME NEW i \in Universe(rq), i < id PROVE i \in output
      BY <1>2, <1>3, <1>8, <2>2
  <2> QED
      BY <2>1, <2>2
<1> QED
    BY <1>7, <1>8 DEF last

\* A row of the universe is taken.
LEMMA TakeOK ==
    ASSUME NEW rq \in Requests, NEW w \in Workspaces, NEW pr, RowsOK(rq, w, pr),
           NEW id \in Universe(rq), id \notin w.output, w.output = {i \in Universe(rq) : i < id}, id # None,
           NEW writes, writes <=> pr.firstPass /\ ~(Resumes(pr) /\ id \in w.universe),
           NEW v, v.build = w.build, v.inputs = w.inputs, v.schemas = w.schemas, v.rows = w.rows,
           v.lookup = w.lookup, v.dockets = w.dockets, v.items = w.items, v.output = w.output,
           v.cursor = w.cursor, v.staged = w.staged,
           v.universe = w.universe \cup (IF writes THEN {id} ELSE {}),
           v.indexed, 
           NEW q, q.started, q.previous = id, q.point = pr.point, q.firstPass = pr.firstPass,
           q.counts = pr.counts, q.budget = pr.budget
    PROVE  ItemOK(rq, v, q)
<1>1. PassOK(rq, w, pr, {})
    BY DEF RowsOK
<1>2. Progress(rq, w, pr.counts)
    BY <1>1 DEF PassOK
<1>3. UniverseRight(rq, w.universe, w.output)
    BY <1>2 DEF Progress
<1>4. UniverseRight(rq, v.universe, v.output)
    BY <1>3 DEF UniverseRight
<1>5. Progress(rq, v, q.counts)
    BY <1>2, <1>4 DEF Progress
<1>6. ReadAt(rq, v, Depth(rq) + 1, 1)
    BY <1>1 DEF PassOK, ReadAt
<1>7. id \in v.universe
  <2>1. CASE ~pr.firstPass
    <3>1. Policy[rq].twoPass
        BY <1>1, <2>1 DEF PassOK
    <3> QED
        BY <1>3, <3>1 DEF UniverseRight
  <2>2. CASE pr.firstPass
      BY <2>2
  <2> QED
      BY <2>1, <2>2
<1>8. q.firstPass /\ ~Resumes(q) => v.universe = v.output \cup {id}
  <2> SUFFICES ASSUME q.firstPass, ~Resumes(q) PROVE v.universe = v.output \cup {id}
      OBVIOUS
  <2>1. pr.firstPass /\ ~Resumes(pr)
      BY DEF Resumes
  <2>2. w.universe = w.output \cup {}
      BY <1>1, <2>1 DEF PassOK
  <2> QED
      BY <2>1, <2>2
<1>9. PassOK(rq, v, q, {q.previous})
    BY <1>1, <1>5, <1>6, <1>8 DEF PassOK
<1> QED
    BY <1>7, <1>9 DEF ItemOK

\* The next row of the universe.
LEMMA TakeRowKeeps ==
    ASSUME BuildInv, TakeRow
    PROVE  BuildInv'
<1> DEFINE rq == proc.rq
           R == Remaining(work.rows)
           id == Min(R)
           writes == proc.firstPass /\ ~(Resuming /\ id \in work.universe)
           u == work.universe \cup (IF writes THEN {id} ELSE {})
           marks == ~proc.started /\ ~proc.point.indexed
           x == marks \/ work.indexed
           w == [work EXCEPT !.universe = u, !.indexed = x]
           pr == [proc EXCEPT !.pc = "item", !.previous = id, !.started = TRUE]
<1>1. proc.pc = "rows" /\ R # {}
    BY DEF TakeRow
<1>2. /\ ~Ended /\ rq \in Requests /\ disk.build = rq /\ rq # None /\ work \in Workspaces
      /\ proc \in Processes /\ Complete(rq, work.rows)
      /\ \A i : Held(work.rows, i) = HeldBy(rq, work.rows, i)
    BY <1>1, Passing
<1>3. RowsOK(rq, work, proc)
    BY <1>1 DEF BuildInv, ProcOK
<1>4. PassOK(rq, work, proc, {}) /\ proc.counts.after = LastRead(proc)
    BY <1>3 DEF RowsOK
<1>5. Progress(rq, work, proc.counts) /\ work.indexed \in BOOLEAN /\ proc.counts \in Counts
    BY <1>2, <1>4, WorkspaceType, ProcessType DEF PassOK
<1>6. ItemsRight(rq, work.output, work.items, proc.counts)
      /\ UniverseRight(rq, work.universe, work.output)
    BY <1>5 DEF Progress
<1>7. R = RemainingOf(rq, work.rows, proc.counts.after)
    BY <1>2, <1>4 DEF Remaining, RemainingOf, LastRead
<1>8. R = Universe(rq) \ work.output
    BY <1>2, <1>5, <1>6, <1>7, RemainingIs
<1>9. Universe(rq) \in SUBSET Ids /\ \A i \in Ids : i \in Nat /\ i # None
    BY IdsAssumption, NoneAssumption DEF Universe
<1>10. R \in SUBSET Nat
    BY <1>8, <1>9
<1> HIDE DEF R
<1>11. id \in R /\ \A y \in R : id <= y
    BY <1>1, <1>10, Least
<1>12. id \in Universe(rq) /\ id \notin work.output /\ id \in Ids /\ id # None
    BY <1>8, <1>9, <1>11
<1> HIDE DEF id
<1>13. work.output = {i \in Universe(rq) : i < id}
    BY <1>2, <1>5, <1>6, <1>8, <1>11, RemainingIs
<1>14. Resuming <=> Resumes(proc)
    BY DEF Resuming, Resumes
<1>15. ~(writes /\ id \in work.universe)
  <2> SUFFICES ASSUME writes, id \in work.universe PROVE FALSE
      OBVIOUS
  <2>1. work.universe = work.output \cup {}
      BY <1>4, <1>14 DEF PassOK
  <2> QED
      BY <1>12, <2>1
<1>16. /\ proc' = pr /\ published' = published /\ refused' = refused /\ work' = w
       /\ disk' = IF marks THEN w ELSE disk
  <2> DEFINE a == [work EXCEPT !.universe = @ \cup (IF writes THEN {id} ELSE {})]
  <2>1. IF marks THEN Mark([a EXCEPT !.indexed = TRUE]) ELSE work' = a /\ UNCHANGED disk
      BY <1>15 DEF TakeRow, id, R
  <2>2. a = [work EXCEPT !.universe = u]
      OBVIOUS
  <2> HIDE DEF u
  <2>3. marks => [a EXCEPT !.indexed = TRUE] = w
      BY <1>2, <2>2 DEF Workspaces
  <2>4. ~marks => a = w
      BY <1>2, <1>5, <2>2 DEF Workspaces
  <2>5. proc' = pr /\ published' = published /\ refused' = refused
      BY <1>15 DEF TakeRow, id, R
  <2> QED
      BY <2>1, <2>3, <2>4, <2>5 DEF Mark
<1>17. u \in SUBSET Ids /\ x \in BOOLEAN
  <2>1. work.universe \in SUBSET Ids
      BY <1>2, WorkspaceType
  <2> QED
      BY <1>5, <1>12, <2>1
<1>18. x
    BY <1>4, <1>5 DEF PassOK
<1> HIDE DEF u, x, marks
<1>19. /\ w \in Workspaces /\ w.universe = u /\ w.indexed = x
       /\ w.build = work.build /\ w.inputs = work.inputs /\ w.schemas = work.schemas /\ w.rows = work.rows
       /\ w.lookup = work.lookup /\ w.dockets = work.dockets
       /\ w.items = work.items /\ w.output = work.output
       /\ w.cursor = work.cursor /\ w.staged = work.staged
    BY <1>2, <1>17 DEF Workspaces
<1>20. /\ pr \in Processes /\ pr.pc = "item" /\ pr.rq = rq /\ pr.budget = proc.budget
       /\ pr.point = proc.point /\ pr.firstPass = proc.firstPass /\ pr.started
       /\ pr.previous = id /\ pr.counts = proc.counts
    BY <1>2, <1>12 DEF Processes
<1> HIDE DEF w, pr
<1>21. ItemOK(rq, w, pr)
  <2>1. w.universe = work.universe \cup (IF writes THEN {id} ELSE {})
      BY <1>19 DEF u
  <2>2. writes <=> proc.firstPass /\ ~(Resumes(proc) /\ id \in work.universe)
      BY <1>14
  <2> HIDE DEF writes, rq
  <2> QED
      BY <1>2, <1>3, <1>12, <1>13, <1>18, <1>19, <1>20, <2>1, <2>2, TakeOK
<1>22. ASSUME NEW d, d.build = rq
       PROVE  ProcOK(d, w, pr)
    BY <1>2, <1>19, <1>20, <1>21, <1>22 DEF ProcOK
<1>23. marks => DiskOK(w)
  <2> SUFFICES ASSUME marks PROVE DiskOK(w)
      OBVIOUS
  <2>1. PassOK(rq, w, pr, {pr.previous})
      BY <1>21 DEF ItemOK
  <2>2. pr.counts = Committed(w)
    <3>1. proc.counts = Committed(work)
        BY <1>4 DEF PassOK, marks
    <3> QED
        BY <1>19, <1>20, <3>1 DEF Committed
  <2>3. LedgerOK(rq, w)
      BY <1>2, <1>18, <1>19, <2>1, <2>2, PassLedger
  <2>4. w.build = rq
      BY <1>4, <1>19 DEF PassOK
  <2> QED
      BY <1>2, <1>19, <2>3, <2>4 DEF DiskOK
<1>24. w.build = rq
    BY <1>4, <1>19 DEF PassOK
<1>25. DiskOK(disk') /\ ProcOK(disk', work', proc')
    BY <1>2, <1>16, <1>22, <1>23, <1>24 DEF BuildInv
<1> QED
    BY <1>16, <1>25 DEF BuildInv

\* The item that is staged next.
LEMMA ItemIs ==
    ASSUME NEW rq \in Requests, NEW w \in Workspaces, NEW pr \in Processes, ItemOK(rq, w, pr),
           Complete(rq, w.rows),
           NEW item, item = ItemIn(rq, w.rows, w.dockets, w.lookup, pr.budget, pr.previous)
    PROVE  /\ item \in CatalogItems
           /\ pr.previous \in Universe(rq)
           /\ Distinct(rq) => item = ItemOf(rq, pr.previous)
<1> DEFINE id == pr.previous
           b == pr.budget
           g == {i \in w.output : i \in Good(rq)}
<1>1. PassOK(rq, w, pr, {id}) /\ id \in w.universe /\ w.output = {i \in Universe(rq) : i < id}
    BY DEF ItemOK
<1>2. Progress(rq, w, pr.counts) /\ b = pr.counts.selected
    BY <1>1 DEF PassOK
<1>3. /\ ItemsRight(rq, w.output, w.items, pr.counts) /\ JoinsRight(rq, w.dockets, w.lookup)
      /\ UniverseRight(rq, w.universe, w.output)
    BY <1>2 DEF Progress
<1>4. id \in Universe(rq)
    BY <1>1, <1>3 DEF UniverseRight
<1>5. w.dockets \in Partial(Ids, Entries) /\ w.lookup \in Partial(Nat, Entries) /\ w.output \in SUBSET Ids
    BY WorkspaceType
<1>6. g = {i \in Good(rq) : i < id}
    BY <1>1 DEF Good
<1>7. Cardinality(g) \in Nat
  <2>1. g \in SUBSET Ids
      BY <1>5
  <2> QED
      BY <2>1, IdsAssumption, FS_Subset, FS_CardinalityType
<1>8. Distinct(rq) => b = Capped(rq, Cardinality(g))
    BY <1>2, <1>3 DEF ItemsRight
<1> HIDE DEF g
<1> DEFINE k == Cardinality(g)
<1>9. Fits(rq, Capped(rq, k)) <=> Fits(rq, k)
    BY <1>7, BudgetRight
<1>10. Distinct(rq) => (Fits(rq, b) <=> Fits(rq, Cardinality({i \in Good(rq) : i < id})))
    BY <1>6, <1>8, <1>9
<1> HIDE DEF id, b
<1>11. item = ItemIn(rq, w.rows, w.dockets, w.lookup, b, id)
    BY DEF id, b
<1>12. item \in CatalogItems
    BY <1>4, <1>5, <1>11, ItemType
<1>13. Distinct(rq) => item = ItemOf(rq, id)
    BY <1>3, <1>4, <1>10, <1>11, ItemRight
<1> QED
    BY <1>4, <1>12, <1>13 DEF id

\* Its counts.
LEMMA CountedType ==
    ASSUME NEW c \in Counts, NEW id \in Ids, NEW item \in CatalogItems,
           NEW e, e = Counted(c, id, item.selected)
    PROVE  /\ e \in Counts /\ e.after = id
           /\ e.selected = c.selected + (IF item.selected THEN 1 ELSE 0)
<1> DEFINE n == c.count + 1
           s == c.selected + (IF item.selected THEN 1 ELSE 0)
           parts == [c.parts EXCEPT ![PartitionOf[id]] = @ + 1]
<1>1. PartitionOf[id] \in Partitions
    BY IdsAssumption
<1>2. n \in Nat /\ s \in Nat /\ parts \in [Partitions -> Nat]
    BY <1>1 DEF Counts
<1>3. e = [after |-> id, count |-> n, selected |-> s, parts |-> parts]
    BY DEF Counted
<1> HIDE DEF n, parts, s
<1>4. e \in Counts /\ e.after = id /\ e.selected = s
    BY <1>2, <1>3 DEF Counts
<1> QED
    BY <1>4 DEF s

LEMMA CountedNext ==
    ASSUME NEW output \in SUBSET Ids, NEW items, DOMAIN items = output, NEW c \in Counts,
           CountsRight(output, items, c), NEW id \in Ids, id \notin output,
           NEW item \in CatalogItems, NEW e, e = Counted(c, id, item.selected)
    PROVE  CountsRight(output \cup {id}, Put(items, id, item), e)
    BY CountedRight

\* An item is staged.
LEMMA StageOK ==
    ASSUME NEW rq \in Requests, NEW w \in Workspaces, NEW pr \in Processes, ItemOK(rq, w, pr),
           NEW id \in Universe(rq), id = pr.previous, id # None, id \notin w.output,
           NEW item \in CatalogItems, Distinct(rq) => item = ItemOf(rq, id),
           NEW c, c = Counted(pr.counts, id, item.selected),
           NEW v, v.build = w.build, v.inputs = w.inputs, v.schemas = w.schemas, v.rows = w.rows,
           v.lookup = w.lookup, v.dockets = w.dockets, v.universe = w.universe,
           v.indexed = w.indexed, v.staged = w.staged,
           v.items = Put(w.items, id, item), v.output = w.output \cup {id},
           NEW q, q.started, q.previous = id, q.point = pr.point, q.firstPass = pr.firstPass,
           q.counts = c, q.budget = pr.budget + (IF item.selected THEN 1 ELSE 0)
    PROVE  c \in Counts /\ RowsOK(rq, v, q)
<1>1. PassOK(rq, w, pr, {id}) /\ id \in w.universe /\ w.output = {i \in Universe(rq) : i < id}
      /\ pr.started
    BY DEF ItemOK
<1>2. Progress(rq, w, pr.counts) /\ pr.budget = pr.counts.selected
    BY <1>1 DEF PassOK
<1>3. /\ CountsRight(w.output, w.items, pr.counts)
      /\ ItemsRight(rq, w.output, w.items, pr.counts) /\ JoinsRight(rq, w.dockets, w.lookup)
      /\ UniverseRight(rq, w.universe, w.output)
    BY <1>2 DEF Progress
<1>4. pr.counts \in Counts /\ w.output \in SUBSET Ids /\ id \in Ids
      /\ DOMAIN w.items = w.output
    BY <1>3, ProcessType, WorkspaceType DEF Universe, ItemsRight
<1>5. c \in Counts /\ c.after = id /\ CountsRight(v.output, v.items, c)
      /\ c.selected = pr.counts.selected + (IF item.selected THEN 1 ELSE 0)
  <2>1. CountsRight(w.output \cup {id}, Put(w.items, id, item), c)
      BY <1>3, <1>4, CountedNext
  <2>2. c \in Counts /\ c.after = id
        /\ c.selected = pr.counts.selected + (IF item.selected THEN 1 ELSE 0)
      BY <1>4, CountedType
  <2> QED
      BY <2>1, <2>2
<1>6. ItemsRight(rq, v.output, v.items, c)
  <2>1. item.selected \in BOOLEAN
      BY DEF CatalogItems
  <2>2. ItemsRight(rq, w.output \cup {id}, Put(w.items, id, item), c)
      BY <1>1, <1>3, <1>4, <1>5, <2>1, ItemsNext
  <2> QED
      BY <2>2
<1>7. UniverseRight(rq, v.universe, v.output)
    BY <1>1, <1>3 DEF UniverseRight
<1>8. Progress(rq, v, q.counts)
    BY <1>3, <1>5, <1>6, <1>7 DEF Progress
<1>9. ReadAt(rq, v, Depth(rq) + 1, 1)
    BY <1>1 DEF PassOK, ReadAt
<1>10. q.budget = q.counts.selected
    BY <1>2, <1>5
<1>11. q.firstPass /\ ~Resumes(q) => v.universe = v.output \cup {}
    BY <1>1 DEF PassOK, Resumes
<1>12. PassOK(rq, v, q, {})
    BY <1>1, <1>8, <1>9, <1>10, <1>11 DEF PassOK
<1>13. q.counts.after = LastRead(q)
    BY <1>5 DEF LastRead
<1> QED
    BY <1>5, <1>12, <1>13 DEF RowsOK

\* The next item is stored.
LEMMA StageItemKeeps ==
    ASSUME BuildInv, StageItem
    PROVE  BuildInv'
<1> DEFINE rq == proc.rq
           id == proc.previous
           item == Item(id)
           c == Counted(proc.counts, id, item.selected)
           full == c.count % BatchItems[rq] = 0
           i == Put(work.items, id, item)
           o == work.output \cup {id}
           k == IF full THEN c ELSE work.cursor
           b == proc.budget + (IF item.selected THEN 1 ELSE 0)
           w == [work EXCEPT !.items = i, !.output = o, !.cursor = k]
           pr == [proc EXCEPT !.pc = "rows", !.counts = c, !.budget = b]
<1>1. proc.pc = "item"
    BY DEF StageItem
<1>2. /\ ~Ended /\ rq \in Requests /\ disk.build = rq /\ rq # None /\ work \in Workspaces
      /\ proc \in Processes /\ Complete(rq, work.rows)
      /\ \A n : Held(work.rows, n) = HeldBy(rq, work.rows, n)
    BY <1>1, Passing
<1>3. ItemOK(rq, work, proc)
    BY <1>1 DEF BuildInv, ProcOK
<1>4. PassOK(rq, work, proc, {id}) /\ id # None /\ work.output = {n \in Universe(rq) : n < id}
      /\ proc.started
    BY <1>3 DEF ItemOK
<1>5. ItemsRight(rq, work.output, work.items, proc.counts)
    BY <1>4 DEF PassOK, Progress
<1>6. item = ItemIn(rq, work.rows, work.dockets, work.lookup, proc.budget, id)
  <2> DEFINE staged == RowOf(id)
             here == {j \in DOMAIN Policy[rq].universe : Policy[rq].universe[j] \in Held(work.rows, id)}
             there == {j \in DOMAIN Policy[rq].universe :
                           Policy[rq].universe[j] \in HeldBy(rq, work.rows, id)}
             docket == LET d == Get(work.dockets, staged.row.docket) IN IF d = None THEN None ELSE d.source
             key == LET r == Get(work.lookup, staged.row.key) IN IF r = None THEN None ELSE r.row.id
  <2>1. RowOf(id) = work.rows[<<Policy[rq].universe[Min(here)], id>>]
      BY DEF RowOf
  <2>2. FirstRow(rq, work.rows, id) = work.rows[<<Policy[rq].universe[Min(there)], id>>]
      BY DEF FirstRow
  <2>3. here = there
      BY <1>2
  <2>4. staged = FirstRow(rq, work.rows, id)
      BY <2>1, <2>2, <2>3
  <2>5. BudgetAvailable <=> Fits(rq, proc.budget)
      BY DEF BudgetAvailable, Fits
  <2>6. item = [source |-> staged.source, discards |-> staged.discards, docket |-> docket,
                lookup |-> key, selected |-> staged.row.good /\ BudgetAvailable]
      BY DEF Item
  <2>7. ItemIn(rq, work.rows, work.dockets, work.lookup, proc.budget, id)
           = [source |-> staged.source, discards |-> staged.discards, docket |-> docket,
              lookup |-> key, selected |-> staged.row.good /\ Fits(rq, proc.budget)]
      BY <2>4 DEF ItemIn
  <2>8. (staged.row.good /\ BudgetAvailable) = (staged.row.good /\ Fits(rq, proc.budget))
      BY <2>5
  <2> HIDE DEF staged, docket, key, item
  <2> QED
      BY <2>6, <2>7, <2>8
<1> HIDE DEF item
<1>7. item \in CatalogItems /\ id \in Universe(rq) /\ (Distinct(rq) => item = ItemOf(rq, id))
    BY <1>2, <1>3, <1>6, ItemIs
<1>8. id \in Ids /\ id \in Nat /\ id \notin work.output
  <2>1. Universe(rq) \subseteq Ids
      BY DEF Universe
  <2>2. id \in Ids /\ id \in Nat
      BY <1>7, <2>1, IdsAssumption
  <2> QED
      BY <1>4, <2>2
<1>9. ~(\/ proc.counts.after # None /\ id <= proc.counts.after
        \/ id \in DOMAIN work.items
        \/ id \in work.output)
  <2>1. DOMAIN work.items = work.output /\ (proc.counts.after # None => proc.counts.after \in work.output)
      BY <1>5 DEF ItemsRight
  <2>2. proc.counts.after # None => proc.counts.after < id /\ proc.counts.after \in Nat
      BY <1>4, <2>1, IdsAssumption DEF Universe
  <2> QED
      BY <1>8, <2>1, <2>2
<1>10. /\ proc' = pr /\ published' = published /\ refused' = refused /\ work' = w
       /\ disk' = IF full THEN w ELSE disk
  <2> DEFINE a == [work EXCEPT !.items = Put(@, id, item), !.output = @ \cup {id}]
  <2>1. IF full THEN Mark([a EXCEPT !.cursor = c]) ELSE work' = a /\ UNCHANGED disk
      BY <1>9 DEF StageItem, item
  <2>2. proc' = pr /\ published' = published /\ refused' = refused
      BY <1>9 DEF StageItem, item
  <2>3. a = [work EXCEPT !.items = i, !.output = o]
      OBVIOUS
  <2> HIDE DEF i, o, c, full
  <2>4. full => [a EXCEPT !.cursor = c] = w
      BY <1>2, <2>3 DEF Workspaces
  <2>5. ~full => a = w
      BY <1>2, <2>3 DEF Workspaces
  <2> QED
      BY <2>1, <2>2, <2>4, <2>5 DEF Mark
<1>11. i \in Partial(Ids, CatalogItems) /\ o \in SUBSET Ids
  <2>1. work.items \in Partial(Ids, CatalogItems) /\ work.output \in SUBSET Ids
      BY <1>2, WorkspaceType
  <2> QED
      BY <1>7, <1>8, <2>1, PartialPut
<1>12. work.items \in Partial(Ids, CatalogItems) /\ work.output \in SUBSET Ids
       /\ work.cursor \in Counts \cup {None} /\ proc.counts \in Counts /\ proc.budget \in Nat
    BY <1>2, WorkspaceType, ProcessType
<1>13. c \in Counts
  <2> DEFINE e == c
  <2>1. e = Counted(proc.counts, id, item.selected)
      OBVIOUS
  <2> HIDE DEF id, e
  <2>2. e \in Counts
      BY <1>7, <1>8, <1>12, <2>1, CountedType
  <2> QED
      BY <2>2 DEF e
<1>14. k \in Counts \cup {None} /\ b \in Nat
    BY <1>12, <1>13
<1> HIDE DEF i, o, k, b, c, full
<1>15. /\ w \in Workspaces /\ w.items = i /\ w.output = o /\ w.cursor = k
       /\ w.build = work.build /\ w.inputs = work.inputs /\ w.schemas = work.schemas /\ w.rows = work.rows
       /\ w.lookup = work.lookup /\ w.dockets = work.dockets /\ w.universe = work.universe
       /\ w.indexed = work.indexed /\ w.staged = work.staged
    BY <1>2, <1>11, <1>14 DEF Workspaces
<1>16. /\ pr \in Processes /\ pr.pc = "rows" /\ pr.rq = rq /\ pr.budget = b
       /\ pr.point = proc.point /\ pr.firstPass = proc.firstPass /\ pr.started = proc.started
       /\ pr.previous = id /\ pr.counts = c
    BY <1>2, <1>13, <1>14 DEF Processes
<1> HIDE DEF w, pr
<1>17. RowsOK(rq, w, pr)
  <2>1. c = Counted(proc.counts, id, item.selected) /\ w.items = Put(work.items, id, item)
        /\ w.output = work.output \cup {id} /\ pr.budget = proc.budget + (IF item.selected THEN 1 ELSE 0)
      BY <1>15, <1>16 DEF c, i, o, b
  <2>2. id = proc.previous /\ pr.started
      BY <1>4, <1>16
  <2> HIDE DEF id, rq
  <2> QED
      BY <1>2, <1>3, <1>4, <1>7, <1>8, <1>15, <1>16, <2>1, <2>2, StageOK
<1>18. w.build = rq
    BY <1>4, <1>15 DEF PassOK
<1>19. full => DiskOK(w)
  <2> SUFFICES ASSUME full PROVE DiskOK(w)
      OBVIOUS
  <2>1. PassOK(rq, w, pr, {})
      BY <1>17 DEF RowsOK
  <2>2. pr.counts = Committed(w)
    <3>1. w.cursor = c /\ w.staged = None /\ c # None
        BY <1>4, <1>13, <1>15, CountsType DEF PassOK, k
    <3> QED
        BY <1>16, <3>1 DEF Committed
  <2>3. w.indexed
      BY <1>4, <1>15 DEF PassOK
  <2>4. LedgerOK(rq, w)
      BY <1>2, <2>1, <2>2, <2>3, PassLedger
  <2> QED
      BY <1>2, <1>15, <1>18, <2>4 DEF DiskOK
<1>20. ASSUME NEW d, d.build = rq
       PROVE  ProcOK(d, w, pr)
    BY <1>2, <1>15, <1>16, <1>17, <1>20 DEF ProcOK
<1>21. DiskOK(disk') /\ ProcOK(disk', work', proc')
    BY <1>2, <1>10, <1>18, <1>19, <1>20 DEF BuildInv
<1> QED
    BY <1>10, <1>21 DEF BuildInv

\* The universe is exhausted.
LEMMA MarkStagedKeeps ==
    ASSUME BuildInv, MarkStaged
    PROVE  BuildInv'
<1> DEFINE rq == proc.rq
           c == proc.counts
           w == [work EXCEPT !.staged = c]
           pr == [proc EXCEPT !.pc = "publish"]
<1>1. proc.pc = "rows" /\ Remaining(work.rows) = {}
    BY DEF MarkStaged
<1>2. /\ rq \in Requests /\ disk.build = rq /\ rq # None /\ work \in Workspaces
      /\ proc \in Processes /\ Complete(rq, work.rows)
      /\ \A i : Held(work.rows, i) = HeldBy(rq, work.rows, i)
    BY <1>1, Passing
<1>3. RowsOK(rq, work, proc)
    BY <1>1 DEF BuildInv, ProcOK
<1>4. PassOK(rq, work, proc, {}) /\ c.after = LastRead(proc)
    BY <1>3 DEF RowsOK
<1>5. Progress(rq, work, c) /\ c \in Counts
    BY <1>2, <1>4, ProcessType DEF PassOK
<1>6. ItemsRight(rq, work.output, work.items, c) /\ UniverseRight(rq, work.universe, work.output)
    BY <1>5 DEF Progress
<1>7. Remaining(work.rows) = RemainingOf(rq, work.rows, c.after)
    BY <1>2, <1>4 DEF Remaining, RemainingOf, LastRead
<1>8. Universe(rq) \ work.output = {}
    BY <1>1, <1>2, <1>5, <1>6, <1>7, RemainingIs
<1>9. work.output = Universe(rq) /\ work.universe = Universe(rq)
    BY <1>6, <1>8 DEF ItemsRight, UniverseRight
<1>10. work' = w /\ disk' = w /\ proc' = pr /\ published' = published /\ refused' = refused
    BY <1>9 DEF MarkStaged, Mark
<1> HIDE DEF c
<1>11. /\ w \in Workspaces /\ w.staged = c
       /\ w.build = work.build /\ w.inputs = work.inputs /\ w.schemas = work.schemas /\ w.rows = work.rows
       /\ w.lookup = work.lookup /\ w.dockets = work.dockets /\ w.universe = work.universe
       /\ w.items = work.items /\ w.output = work.output /\ w.indexed = work.indexed
       /\ w.cursor = work.cursor
    BY <1>2, <1>5 DEF Workspaces
<1>12. /\ pr \in Processes /\ pr.pc = "publish" /\ pr.rq = rq /\ pr.counts = c
    BY <1>2 DEF Processes, c
<1> HIDE DEF w, pr
<1>13. c # None /\ w.build = rq
    BY <1>4, <1>5, <1>11, CountsType DEF PassOK
<1>14. LedgerOK(rq, w)
  <2>1. Depth(rq) \in 0..Depth(rq)
      BY <1>2, DepthType
  <2>2. w.inputs = 1..Depth(rq) /\ AllRead(rq) /\ ReadAt(rq, w, Depth(rq) + 1, 1)
      BY <1>4, <1>11 DEF PassOK, ReadAt
  <2>3. Committed(w) = c
      BY <1>11, <1>13 DEF Committed
  <2>4. Progress(rq, w, Committed(w))
      BY <1>5, <1>11, <2>3 DEF Progress
  <2> QED
      BY <1>9, <1>11, <1>13, <2>1, <2>2, <2>4 DEF LedgerOK
<1>15. DiskOK(w)
    BY <1>2, <1>11, <1>13, <1>14 DEF DiskOK
<1>16. DoneOK(w, w, pr)
    BY <1>11, <1>12, <1>13 DEF DoneOK
<1>17. ProcOK(w, w, pr)
    BY <1>2, <1>11, <1>12, <1>13, <1>16 DEF ProcOK
<1> QED
    BY <1>10, <1>15, <1>17 DEF BuildInv

-----------------------------------------------------------------------------
(* Publication.                                                            *)

\* A build that is staged: its items are those of the universe.
LEMMA Staged ==
    ASSUME NEW rq \in Requests, NEW d \in Workspaces, LedgerOK(rq, d), d.staged # None
    PROVE  /\ CountsRight(d.output, d.items, d.staged) /\ DOMAIN d.items = d.output
           /\ d.output = Universe(rq) /\ d.staged \in Counts
           /\ Distinct(rq) => Acceptable(rq) /\ d.items = Catalog(rq)
<1>1. PICK n \in 0..Depth(rq) :
          /\ d.inputs = 1..n
          /\ ReadAt(rq, d, n + 1, 1)
          /\ n = Depth(rq) /\ AllRead(rq)
          /\ Progress(rq, d, Committed(d))
          /\ d.output = Universe(rq)
    BY DEF LedgerOK, Blank
<1>2. Committed(d) = d.staged
    BY DEF Committed
<1>3. CountsRight(d.output, d.items, d.staged) /\ ItemsRight(rq, d.output, d.items, d.staged)
    BY <1>1, <1>2 DEF Progress
<1>4. d.items \in Partial(Ids, CatalogItems) /\ d.rows \in Partial(Keys, Entries)
      /\ d.staged \in Counts
    BY WorkspaceType
<1>5. \A s \in Selectors, id \in Ids : Resolvable(rq, s, id)
    BY <1>1, <1>4, ReadComplete
<1>6. Distinct(rq) => Acceptable(rq)
    BY <1>1, <1>5 DEF Acceptable
<1>7. ASSUME Distinct(rq) PROVE d.items = Catalog(rq)
  <2>1. DOMAIN d.items = Universe(rq) /\ \A id \in Universe(rq) : d.items[id] = ItemOf(rq, id)
      BY <1>1, <1>3, <1>7 DEF ItemsRight
  <2>2. d.items = [id \in DOMAIN d.items |-> d.items[id]]
      BY <1>4, PartialType
  <2>3. d.items = [id \in Universe(rq) |-> ItemOf(rq, id)]
      BY <2>1, <2>2
  <2> QED
      BY <2>3, CatalogIs
<1> QED
    BY <1>1, <1>3, <1>4, <1>6, <1>7 DEF ItemsRight

\* A staged build is published.
LEMMA PublishKeeps ==
    ASSUME BuildInv, Publish
    PROVE  BuildInv'
<1> DEFINE rq == proc.rq
           c == proc.counts
           items == work.items
           pr == [proc EXCEPT !.pc = "published"]
<1>1. proc.pc = "publish" /\ ~Ended
    BY DEF Publish, Ended
<1>2. /\ rq \in Requests /\ disk.build = rq /\ rq # None /\ work \in Workspaces /\ disk \in Workspaces
      /\ proc \in Processes /\ LedgerOK(rq, disk)
    BY <1>1, Running
<1>3. DoneOK(disk, work, proc)
    BY <1>1 DEF BuildInv, ProcOK
<1>4. work = disk /\ disk.staged # None /\ c = disk.staged
    BY <1>3 DEF DoneOK
<1>5. /\ CountsRight(work.output, items, c) /\ DOMAIN items = work.output /\ c \in Counts
      /\ Distinct(rq) => Acceptable(rq) /\ items = Catalog(rq)
    BY <1>2, <1>4, Staged
<1>6. items \in Partial(Ids, CatalogItems) /\ work.output \in SUBSET Ids
    BY <1>2, WorkspaceType
<1>7. Payload = items
  <2> DEFINE o == work.output
  <2>1. Payload = [id \in {i \in DOMAIN items : c.parts[PartitionOf[i]] > 0} |-> items[id]]
      BY DEF Payload
  <2>2. DOMAIN items = o /\ o \in SUBSET Ids /\ CountsRight(o, items, c)
      BY <1>5, <1>6
  <2> HIDE DEF items, c, o
  <2>3. {i \in DOMAIN items : c.parts[PartitionOf[i]] > 0} = DOMAIN items
      BY <1>5, <1>6, <2>2, PayloadIs
  <2>4. items = [id \in DOMAIN items |-> items[id]]
      BY <1>6, PartialType
  <2> QED
      BY <2>1, <2>3, <2>4
<1>8. GateAccepts
  <2>1. \A p \in Partitions : {id \in DOMAIN Payload : PartitionOf[id] = p}
                                 = {id \in work.output : PartitionOf[id] = p}
      BY <1>5, <1>7
  <2>2. {id \in DOMAIN Payload : Payload[id].selected} = {id \in work.output : items[id].selected}
      BY <1>5, <1>7
  <2>3. c.count = Cardinality(DOMAIN Payload)
      BY <1>5, <1>7 DEF CountsRight
  <2>4. c.selected = Cardinality({id \in DOMAIN Payload : Payload[id].selected})
      BY <1>5, <2>2 DEF CountsRight
  <2>5. \A p \in Partitions : c.parts[p] = Cardinality({id \in DOMAIN Payload : PartitionOf[id] = p})
      BY <1>5, <2>1 DEF CountsRight
  <2> QED
      BY <2>3, <2>4, <2>5 DEF GateAccepts
<1>9. /\ published' = [published EXCEPT ![rq] = items] /\ proc' = pr
      /\ disk' = disk /\ work' = work /\ refused' = refused
    BY <1>7, <1>8 DEF Publish
<1>10. PublishedOK(published')
  <2>1. PublishedOK(published)
      BY DEF BuildInv
  <2>2. DOMAIN published = Requests
      BY <2>1 DEF PublishedOK
  <2>3. published'[rq] = items /\ DOMAIN published' = Requests
        /\ \A q \in Requests : q # rq => published'[q] = published[q]
      BY <1>2, <1>9, <2>2
  <2> HIDE DEF items, rq
  <2> QED
      BY <1>5, <2>1, <2>3 DEF PublishedOK
<1>11. /\ pr \in Processes /\ pr.pc = "published" /\ pr.rq = rq /\ pr.counts = c
    BY <1>2 DEF Processes
<1> HIDE DEF pr
<1>12. DoneOK(disk, work, pr)
    BY <1>4, <1>11 DEF DoneOK
<1>13. ProcOK(disk, work, pr)
    BY <1>2, <1>11, <1>12 DEF ProcOK
<1> QED
    BY <1>9, <1>10, <1>13 DEF BuildInv

-----------------------------------------------------------------------------
(* The theorem.                                                            *)

LEMMA BuildInvStarts == Init => BuildInv
<1> SUFFICES ASSUME Init PROVE BuildInv
    OBVIOUS
<1>1. DiskOK(disk) /\ ProcOK(disk, work, proc)
    BY EmptyOK DEF Init
<1>2. PublishedOK(published) /\ RefusedOK(refused)
    BY DEF Init, PublishedOK, RefusedOK
<1> QED
    BY <1>1, <1>2 DEF BuildInv

LEMMA BuildInvStep == BuildInv /\ [Next]_vars => BuildInv'
<1> SUFFICES ASSUME BuildInv, [Next]_vars PROVE BuildInv'
    OBVIOUS
<1>1. CASE \E rq \in Requests : Start(rq)
    BY <1>1, StartKeeps
<1>2. CASE LoadRow
    BY <1>2, LoadRowKeeps
<1>3. CASE EndSource
    BY <1>3, EndSourceKeeps
<1>4. CASE EndLoad
    BY <1>4, EndLoadKeeps
<1>5. CASE PrePass
    BY <1>5, PrePassKeeps
<1>6. CASE TakeRow
    BY <1>6, TakeRowKeeps
<1>7. CASE RefuseRepeat
    BY <1>7, RepeatKeeps
<1>8. CASE StageItem
    BY <1>8, StageItemKeeps
<1>9. CASE MarkStaged
    BY <1>9, MarkStagedKeeps
<1>10. CASE Publish
    BY <1>10, PublishKeeps
<1>11. CASE RemoveWorkspace
    BY <1>11, RemoveKeeps
<1>12. CASE KeepWorkspace
    BY <1>12, KillKeeps DEF KeepWorkspace
<1>13. CASE Kill
    BY <1>13, KillKeeps DEF Kill
<1>14. CASE UNCHANGED vars
    BY <1>14 DEF vars, BuildInv
<1> QED
    BY <1>1, <1>2, <1>3, <1>4, <1>5, <1>6, <1>7, <1>8, <1>9, <1>10, <1>11, <1>12, <1>13, <1>14
    DEF Next, Step

\* The committed counts, of a workspace.
CountsOf(d, c) ==
    /\ d.output = DOMAIN d.items
    /\ d.output \subseteq d.universe
    /\ c.count = Cardinality(d.output)
    /\ c.selected = Cardinality({id \in d.output : d.items[id].selected})
    /\ \A p \in Partitions : c.parts[p] = Cardinality({id \in d.output : PartitionOf[id] = p})
    /\ IF d.output = {} THEN c.after = None ELSE c.after = Max(d.output)

LEMMA CommittedRight ==
    ASSUME NEW rq \in Requests, NEW d \in Workspaces, NEW c \in Counts,
           CountsRight(d.output, d.items, c), ItemsRight(rq, d.output, d.items, c),
           d.output \subseteq d.universe
    PROVE  CountsOf(d, c)
<1> DEFINE o == d.output
           last == c.after
<1>1. DOMAIN d.items = o /\ o = {id \in Universe(rq) : last # None /\ id <= last}
      /\ (last # None => last \in o)
    BY DEF ItemsRight
<1>2. c.count = Cardinality(o) /\ c.selected = Cardinality({id \in o : d.items[id].selected})
      /\ \A p \in Partitions : c.parts[p] = Cardinality({id \in o : PartitionOf[id] = p})
    BY DEF CountsRight
<1>3. o = {} => last = None
    BY <1>1
<1>4. o # {} => last \in o /\ \A y \in o : y <= last
    BY <1>1
<1>5. o \subseteq Nat
    BY WorkspaceType, IdsAssumption
<1> HIDE DEF o, last
<1>6. ASSUME o # {} PROVE last = Max(o)
  <2>1. last \in o /\ \A y \in o : last >= y
      BY <1>4, <1>5, <1>6
  <2>2. \A x \in o : (\A y \in o : x >= y) => x = last
      BY <1>5, <2>1
  <2> QED
      BY <2>1, <2>2 DEF Max
<1> QED
    BY <1>1, <1>2, <1>3, <1>6 DEF CountsOf, o, last

LEMMA BuildInvExact == BuildInv => BuildExact
<1> SUFFICES ASSUME BuildInv PROVE BuildExact
    OBVIOUS
<1>1. \A rq \in Requests :
          /\ Expected[rq].distinct = Distinct(rq) /\ Expected[rq].acceptable = Acceptable(rq)
          /\ Acceptable(rq) => Expected[rq].catalog = Catalog(rq)
    BY DEF Expected
<1>2. PublishedExact
  <2> SUFFICES ASSUME NEW rq \in Requests, published[rq] # None, Expected[rq].distinct
               PROVE  published[rq] = Expected[rq].catalog
      BY DEF PublishedExact
  <2>1. Distinct(rq)
      BY <1>1
  <2>2. Acceptable(rq) /\ published[rq] = Catalog(rq)
      BY <2>1 DEF BuildInv, PublishedOK
  <2> QED
      BY <1>1, <2>2
<1>3. RefusedRightly
  <2>1. \A rq \in refused : rq \in Requests /\ ~Acceptable(rq)
      BY DEF BuildInv, RefusedOK
  <2> QED
      BY <1>1, <2>1 DEF RefusedRightly
<1>4. CommittedTogether
  <2>1. disk \in Workspaces /\ DiskOK(disk)
      BY DEF BuildInv, DiskOK
  <2>2. Committed(disk) \in Counts
      BY <2>1, CommittedType
  <2>3. CountsOf(disk, Committed(disk))
    <3>1. CASE Blank(disk)
      <4>1. Committed(disk) = NoCounts /\ disk.output = {} /\ DOMAIN disk.items = {}
          BY <3>1 DEF Blank, Committed
      <4>2. Cardinality({}) = 0
          BY FS_EmptySet
      <4>3. {id \in disk.output : disk.items[id].selected} = {}
            /\ \A p \in Partitions : {id \in disk.output : PartitionOf[id] = p} = {}
          BY <4>1
      <4> QED
          BY <4>1, <4>2, <4>3, NoCountsType DEF CountsOf
    <3>2. CASE disk.build = None
      <4>1. Blank(disk)
          BY <2>1, <3>2, EmptyType DEF DiskOK
      <4> QED
          BY <3>1, <4>1
    <3>3. CASE disk.build # None /\ ~Blank(disk)
      <4>1. PICK rq \in Requests : LedgerOK(rq, disk)
          BY <2>1, <3>3, WorkspaceType DEF DiskOK
      <4>2. Progress(rq, disk, Committed(disk))
          BY <3>3, <4>1 DEF LedgerOK
      <4>3. CountsRight(disk.output, disk.items, Committed(disk))
            /\ ItemsRight(rq, disk.output, disk.items, Committed(disk))
            /\ disk.output \subseteq disk.universe
          BY <4>2 DEF Progress, UniverseRight
      <4> QED
          BY <2>1, <2>2, <4>3, CommittedRight
    <3> QED
        BY <3>1, <3>2, <3>3
  <2> QED
      BY <2>3 DEF CommittedTogether, CountsOf, Committed
<1> QED
    BY <1>2, <1>3, <1>4 DEF BuildExact

\* Whatever is killed, resumed or refused, and in whatever batches: a catalog that is published
\* is the one the sources determine, only a request no build accepts is refused, and the
\* committed counts are those of the committed items.
THEOREM BuildsAreExact == Spec => []BuildExact
<1>1. Spec => []BuildInv
    BY BuildInvStarts, BuildInvStep, PTL DEF Spec
<1> QED
    BY <1>1, BuildInvExact, PTL

-----------------------------------------------------------------------------
(***************************************************************************)
(* The verification of a catalog.  Its workers come and go as they please, *)
(* but a task is done only when its partition passed every check, the      *)
(* parent takes the summaries in the order of the partitions, and merges   *)
(* only when it has all: so the result is a function of the artifact and   *)
(* of the engine chosen.                                                   *)
(***************************************************************************)
PartitionCount == Len(artifact.receipt.partitions)
Summary(i) == PartitionSummary(artifact, i)
Summaries == [i \in 1..PartitionCount |-> Summary(i)]
AllPass == \A i \in 1..PartitionCount : ~PartitionFails(artifact, i)

\* What was derived is what one process derives, or the sum of every partition's summary.
DerivedRight ==
    \/ derived = DeriveSerial(artifact)
    \/ derived = MergeSummaries(artifact, Summaries) /\ AllPass

IsDerived == derived.state = "derived"
Verifying == {"serial", "probe", "await", "closing", "killing", "merge", "gate"}
TaskStates == {"unsent", "queued", "refused", "running", "done", "failed", "lost"}

PoolInv ==
    /\ workers \in [Slots -> [alive : BOOLEAN, task : Nat]]
    /\ phase \notin {"await", "closing", "killing"} /\ verdict # "pool" => Live = {}
    /\ awaited \in Seq({Summary(i) : i \in Nat})
    /\ Len(awaited) <= PartitionCount
    /\ \A i \in 1..Len(awaited) : awaited[i] = Summary(i) /\ ~PartitionFails(artifact, i)
    /\ phase = "await" =>
         /\ tasks \in [1..PartitionCount -> TaskStates]
         /\ \A i \in 1..PartitionCount : tasks[i] = "done" => ~PartitionFails(artifact, i)

VerdictInv ==
    /\ artifact \in Artifacts
    /\ phase \in Verifying \cup {"receipt", "done", "admitted", "ended"}
    /\ phase \in Verifying \cup {"admitted"} => ReceiptVerifies(artifact)
    /\ phase \in {"receipt", "serial", "probe", "await", "merge"} => ~IsDerived
    /\ phase \in {"receipt", "serial", "probe", "await", "merge", "gate"} => verdict = "pending"
    /\ phase \in {"closing", "killing"} /\ verdict = "pending" /\ ~IsDerived => Len(awaited) = PartitionCount
    /\ phase \in {"closing", "killing"} => verdict # "accepted"
    /\ phase = "merge" => Len(awaited) = PartitionCount
    /\ phase = "gate" => IsDerived
    /\ phase # "ended" => given = <<>>

(* A verification derives the same from an artifact whatever its workers   *)
(* do: the rows as one process reads them, or the sum of all partitions,   *)
(* each of which passed its checks; it accepts what agrees with that; a    *)
(* reader is given the rows in order when each was validated, by itself or *)
(* by the verification it relies on; and the workers are gone.             *)
ScheduleIndependent ==
    /\ IsDerived => DerivedRight
    /\ verdict = "accepted" => ReceiptVerifies(artifact) /\ IsDerived /\ GateAgrees(artifact, derived)
    /\ given # <<>> => given = MergedRows(artifact) /\ CatalogReads(artifact, TRUE)
    /\ PoolReleased

VerifyInv == PoolInv /\ VerdictInv /\ ScheduleIndependent

\* Both engines validate every row.
LEMMA DerivedValidated ==
    ASSUME IsDerived, DerivedRight, NEW i \in Indices(artifact), artifact \in Artifacts
    PROVE  StreamChecks(artifact, i, TRUE)
<1>1. Indices(artifact) = 1..PartitionCount
    BY PartitionsAssumption DEF Indices, PartitionCount
<1>2. CASE derived = DeriveSerial(artifact)
    <2>1. CatalogReads(artifact, TRUE)
        BY <1>2 DEF DeriveSerial, Unreadable, IsDerived
    <2> QED
        BY <2>1 DEF CatalogReads
<1>3. CASE AllPass
    BY <1>1, <1>3 DEF AllPass, PartitionFails
<1> QED
    BY <1>2, <1>3 DEF DerivedRight

LEMMA AllAwaited ==
    ASSUME PoolInv, Len(awaited) = PartitionCount, artifact \in Artifacts
    PROVE  awaited = Summaries /\ AllPass
<1>1. awaited = [i \in 1..Len(awaited) |-> awaited[i]]
    BY DEF PoolInv
<1> QED
    BY <1>1 DEF PoolInv, Summaries, AllPass

LEMMA VerifyStep ==
    ASSUME VerifyInv, [VerifyNext]_verifyVars
    PROVE  VerifyInv'
<1> DEFINE same == UNCHANGED <<artifact, given>>
<1> USE DEF VerifyInv
<1>0. artifact' = artifact => /\ PartitionCount' = PartitionCount
                              /\ \A i : Summary(i)' = Summary(i)
                              /\ Summaries' = Summaries /\ AllPass' = AllPass
    BY DEF PartitionCount, Summary, Summaries, AllPass
<1>00. PartitionCount \in Nat /\ Indices(artifact) = 1..PartitionCount
    BY PartitionsAssumption DEF VerdictInv, PartitionCount, Indices
<1>01. artifact' = artifact /\ derived' = derived => IsDerived' = IsDerived /\ (DerivedRight' <=> DerivedRight)
    BY <1>0 DEF IsDerived, DerivedRight
<1>02. ASSUME UNCHANGED <<artifact, derived, given>>, verdict' = "accepted" => verdict = "accepted",
              phase' \in {"merge", "gate", "done"} /\ verdict' # "pool" => Live' = {}
       PROVE  ScheduleIndependent'
    <2>0. (IsDerived => DerivedRight) /\ (given # <<>> => given = MergedRows(artifact) /\ CatalogReads(artifact, TRUE))
        BY DEF ScheduleIndependent
    <2>1. (IsDerived => DerivedRight)' /\ (given # <<>> => given = MergedRows(artifact) /\ CatalogReads(artifact, TRUE))'
        <3>1. (IsDerived => DerivedRight)'
            BY <1>01, <1>02, <2>0
        <3>2. (given # <<>> => given = MergedRows(artifact) /\ CatalogReads(artifact, TRUE))'
            BY <1>02, <2>0
        <3> QED
            BY <3>1, <3>2
    <2>2. (verdict = "accepted" => ReceiptVerifies(artifact) /\ IsDerived /\ GateAgrees(artifact, derived))'
        BY <1>01, <1>02 DEF ScheduleIndependent
    <2>3. PoolReleased'
        BY <1>02 DEF PoolReleased
    <2> QED
        BY <2>1, <2>2, <2>3 DEF ScheduleIndependent
<1>2. CASE VerifyReceipt
    <2> USE <1>2 DEF VerifyReceipt, AtPhase, Ends, poolVars
    <2>1. PoolInv'
        BY <1>0 DEF PoolInv, VerdictInv, Live
    <2>2. VerdictInv'
        BY <1>0, <1>01 DEF VerdictInv, Verifying
    <2>3. ScheduleIndependent'
        BY <1>01 DEF ScheduleIndependent, VerdictInv, PoolReleased, PoolInv, Live
    <2> QED
        BY <2>1, <2>2, <2>3
<1>3. CASE SerialDerivation
    <2> USE <1>3 DEF SerialDerivation, AtPhase, DerivesSerially, poolVars
    <2>1. PoolInv'
        BY <1>0 DEF PoolInv, VerdictInv, Live
    <2>2. VerdictInv'
        BY <1>0, <1>01 DEF VerdictInv, Verifying, IsDerived
    <2>3. ScheduleIndependent'
        BY <1>0, <1>01 DEF ScheduleIndependent, VerdictInv, PoolReleased, PoolInv, Live, IsDerived, DerivedRight
    <2> QED
        BY <2>1, <2>2, <2>3
<1>4. CASE ProbeAnswered
    <2> USE <1>4 DEF ProbeAnswered, AtPhase
    <2>1. tasks' \in [1..PartitionCount -> TaskStates]
          /\ \A i \in 1..PartitionCount : tasks'[i] # "done"
        BY <1>00 DEF TaskStates, Submits
    <2>2. PoolInv'
        BY <1>0, <2>1 DEF PoolInv, VerdictInv, Live
    <2>3. VerdictInv'
        BY <1>0, <1>01 DEF VerdictInv, Verifying, IsDerived
    <2>4. ScheduleIndependent'
        BY <1>0, <1>01 DEF ScheduleIndependent, VerdictInv, PoolReleased
    <2> QED
        BY <2>2, <2>3, <2>4
<1>5. CASE ProbeFailed
    <2> USE <1>5 DEF ProbeFailed, AtPhase, DerivesSerially
    <2>1. PoolInv'
        BY <1>0 DEF PoolInv, VerdictInv, Live
    <2>2. VerdictInv'
        BY <1>0, <1>01 DEF VerdictInv, Verifying, IsDerived
    <2>3. ScheduleIndependent'
        BY <1>0, <1>01 DEF ScheduleIndependent, VerdictInv, PoolReleased, IsDerived, DerivedRight
    <2> QED
        BY <2>1, <2>2, <2>3
<1>6. ASSUME NEW w \in Slots, Take(w)
      PROVE  VerifyInv'
    <2> USE <1>6 DEF Take, AtPhase, TaskOf
    <2>0. phase = "await" /\ phase' = "await" /\ DOMAIN tasks = 1..PartitionCount
        BY <1>00 DEF PoolInv
    <2> PICK i \in 1..PartitionCount : tasks' = [tasks EXCEPT ![i] = "running"] /\ workers' = [workers EXCEPT ![w].task = i]
        BY <2>0
    <2>1. workers' \in [Slots -> [alive : BOOLEAN, task : Nat]]
        BY <1>00, <2>0 DEF PoolInv
    <2>2. /\ tasks' \in [1..PartitionCount -> TaskStates]
          /\ \A k \in 1..PartitionCount : tasks'[k] = "done" => tasks[k] = "done"
        BY <1>00, <2>0 DEF PoolInv, TaskStates
    <2>3. PoolInv'
        BY <1>0, <2>0, <2>1, <2>2 DEF PoolInv
    <2>4. VerdictInv'
        BY <1>0, <1>01, <2>0 DEF VerdictInv
    <2>5. ScheduleIndependent'
        BY <1>02, <2>0
    <2> QED
        BY <2>3, <2>4, <2>5
<1>7. ASSUME NEW w \in Slots, WorkerEnds(w)
      PROVE  VerifyInv'
    <2> USE <1>7 DEF WorkerEnds, AtPhase, TaskOf
    <2>0. phase = "await" /\ phase' = "await" /\ DOMAIN tasks = 1..PartitionCount
        BY <1>00 DEF PoolInv
    <2>1. workers' \in [Slots -> [alive : BOOLEAN, task : Nat]]
        BY DEF PoolInv
    <2>2. /\ tasks' \in [1..PartitionCount -> TaskStates]
          /\ \A i \in 1..PartitionCount : tasks'[i] = "done" => ~PartitionFails(artifact, i)
        BY <1>00, <2>0 DEF PoolInv, TaskStates
    <2>3. PoolInv'
        BY <1>0, <2>0, <2>1, <2>2 DEF PoolInv
    <2>4. VerdictInv'
        BY <1>0, <1>01, <2>0 DEF VerdictInv
    <2>5. ScheduleIndependent'
        BY <1>02, <2>0
    <2> QED
        BY <2>3, <2>4, <2>5
<1>8. ASSUME NEW w \in Slots, WorkerDies(w)
      PROVE  VerifyInv'
    <2> USE <1>8 DEF WorkerDies, AtPhase, TaskOf
    <2>0. phase = "await" /\ phase' = "await" /\ DOMAIN tasks = 1..PartitionCount
        BY <1>00 DEF PoolInv
    <2>1. workers' \in [Slots -> [alive : BOOLEAN, task : Nat]]
        BY DEF PoolInv, Idle
    <2>2. /\ tasks' \in [1..PartitionCount -> TaskStates]
          /\ \A i \in 1..PartitionCount : tasks'[i] = "done" => tasks[i] = "done"
        BY <1>00, <2>0 DEF PoolInv, TaskStates
    <2>3. PoolInv'
        BY <1>0, <2>0, <2>1, <2>2 DEF PoolInv
    <2>4. VerdictInv'
        BY <1>0, <1>01, <2>0 DEF VerdictInv
    <2>5. ScheduleIndependent'
        BY <1>02, <2>0
    <2> QED
        BY <2>3, <2>4, <2>5
<1>9. ASSUME NEW w \in Slots, Replace(w) \/ WorkerStops(w)
      PROVE  VerifyInv'
    <2> USE <1>9 DEF Replace, WorkerStops, AtPhase
    <2>0. /\ phase \in {"await", "closing", "killing"}
          /\ UNCHANGED <<artifact, phase, tasks, exits, awaited, derived, verdict, damaged, given>>
        OBVIOUS
    <2>1. workers' \in [Slots -> [alive : BOOLEAN, task : Nat]]
        <3>1. CASE workers' = [workers EXCEPT ![w].alive = TRUE]
            BY <3>1 DEF PoolInv
        <3>2. CASE workers' = [workers EXCEPT ![w] = Idle]
            BY <3>2 DEF PoolInv, Idle
        <3> QED
            BY <3>1, <3>2
    <2>2. PoolInv'
        BY <1>0, <2>0, <2>1 DEF PoolInv
    <2>3. VerdictInv'
        BY <1>0, <1>01, <2>0 DEF VerdictInv
    <2>4. ScheduleIndependent'
        BY <1>02, <2>0
    <2> QED
        BY <2>2, <2>3, <2>4
<1>10. ASSUME SubmitRefused \/ AwaitExit \/ AwaitOverrun
       PROVE  VerifyInv'
    <2>0. /\ phase = "await" /\ phase' = "closing" /\ verdict' \in {"storage", "worker"}
          /\ UNCHANGED <<artifact, poolVars, derived, damaged, given>>
        BY <1>10 DEF SubmitRefused, AwaitExit, AwaitOverrun, AtPhase
    <2>1. PoolInv'
        BY <1>0, <2>0 DEF PoolInv, poolVars
    <2>2. VerdictInv'
        BY <1>0, <1>01, <2>0 DEF VerdictInv, Verifying
    <2>3. ScheduleIndependent'
        BY <1>02, <2>0
    <2> QED
        BY <2>1, <2>2, <2>3
<1>11. CASE AwaitReady
    <2> DEFINE next == HeadOf + Window
    <2>0. /\ phase = "await" /\ UNCHANGED <<artifact, workers, exits, deaths, derived, damaged, given>>
          /\ tasks \in [1..PartitionCount -> TaskStates] /\ HeadOf \in 1..PartitionCount
          /\ awaited \in Seq({Summary(i) : i \in Nat}) /\ Len(awaited) \in Nat /\ HeadOf = Len(awaited) + 1
        BY <1>00, <1>11 DEF AwaitReady, AtPhase, PoolInv, HeadOf
    <2>1. CASE phase' = "closing" /\ verdict' = "artifact" /\ UNCHANGED <<tasks, awaited>>
        <3>1. PoolInv'
            BY <1>0, <2>0, <2>1 DEF PoolInv
        <3>2. VerdictInv'
            BY <1>0, <1>01, <2>0, <2>1 DEF VerdictInv, Verifying
        <3>3. ScheduleIndependent'
            BY <1>02, <2>0, <2>1
        <3> QED
            BY <3>1, <3>2, <3>3
    <2>2. CASE /\ tasks[HeadOf] = "done" /\ awaited' = Append(awaited, PartitionSummary(artifact, HeadOf))
               /\ tasks' = IF next \in DOMAIN tasks THEN [tasks EXCEPT ![next] = Submits(next)] ELSE tasks
               /\ UNCHANGED <<phase, verdict>>
        <3> HIDE DEF next
        <3>1. ~PartitionFails(artifact, HeadOf)
            BY <2>0, <2>2 DEF PoolInv
        <3>2. /\ awaited' \in Seq({Summary(i) : i \in Nat}) /\ Len(awaited') = HeadOf
              /\ awaited'[HeadOf] = Summary(HeadOf) /\ \A i \in 1..Len(awaited) : awaited'[i] = awaited[i]
            <4>1. Summary(HeadOf) \in {Summary(i) : i \in Nat} /\ awaited' = Append(awaited, Summary(HeadOf))
                BY <2>0, <2>2 DEF Summary
            <4> DEFINE S == {Summary(i) : i \in Nat}
                       x == Summary(HeadOf)
            <4>2. x \in S /\ awaited' = Append(awaited, x) /\ awaited \in Seq(S) /\ HeadOf = Len(awaited) + 1
                BY <2>0, <4>1
            <4>3. \A i \in 1..Len(awaited) : awaited'[i] = awaited[i]
                <5> HIDE DEF S, x
                <5> QED
                    BY <4>2
            <4>4. awaited' \in Seq(S) /\ Len(awaited') = HeadOf /\ awaited'[HeadOf] = x
                <5> HIDE DEF S, x
                <5> QED
                    BY <4>2
            <4> QED
                BY <4>3, <4>4
        <3>3. \A i \in 1..Len(awaited') : awaited'[i] = Summary(i) /\ ~PartitionFails(artifact, i)
            <4> TAKE i \in 1..Len(awaited')
            <4>1. CASE i = HeadOf
                BY <3>1, <3>2, <4>1
            <4>2. CASE i # HeadOf
                <5>1. i \in 1..Len(awaited)
                    BY <2>0, <3>2, <4>2
                <5> QED
                    BY <5>1, <3>2 DEF PoolInv
            <4> QED
                BY <4>1, <4>2
        <3>4. /\ tasks' \in [1..PartitionCount -> TaskStates]
              /\ \A i \in 1..PartitionCount : tasks'[i] = "done" => tasks[i] = "done"
            BY <1>00, <2>0, <2>2 DEF TaskStates, Submits
        <3>5. PoolInv'
            <4>1. /\ workers' \in [Slots -> [alive : BOOLEAN, task : Nat]]
                  /\ phase' = "await"
                BY <2>0, <2>2 DEF PoolInv
            <4>2. \A i \in 1..PartitionCount : tasks'[i] = "done" => ~PartitionFails(artifact, i)
                BY <2>0, <3>4 DEF PoolInv
            <4>3. (awaited \in Seq({Summary(i) : i \in Nat}))'
                BY <1>0, <2>0, <3>2
            <4>4. (Len(awaited) <= PartitionCount /\ \A i \in 1..Len(awaited) : awaited[i] = Summary(i) /\ ~PartitionFails(artifact, i))'
                BY <1>0, <2>0, <3>2, <3>3
            <4> QED
                BY <1>0, <2>0, <3>4, <4>1, <4>2, <4>3, <4>4 DEF PoolInv
        <3>6. VerdictInv'
            BY <1>0, <1>01, <2>0, <2>2 DEF VerdictInv
        <3>7. ScheduleIndependent'
            BY <1>02, <2>0, <2>2
        <3> QED
            BY <3>5, <3>6, <3>7
    <2> QED
        BY <1>11, <2>1, <2>2 DEF AwaitReady
<1>12. CASE AwaitAll
    <2>0. /\ phase = "await" /\ phase' = "closing" /\ Len(awaited) = PartitionCount
          /\ UNCHANGED <<artifact, poolVars, derived, verdict, damaged, given>>
        <3>1. phase = "await" /\ tasks \in [1..PartitionCount -> TaskStates]
            BY <1>12 DEF AwaitAll, AtPhase, PoolInv
        <3>2. Len(tasks) = PartitionCount
            BY <1>00, <3>1
        <3> QED
            BY <1>12, <3>1, <3>2 DEF AwaitAll, AtPhase
    <2>1. PoolInv'
        BY <1>0, <2>0 DEF PoolInv, poolVars
    <2>2. VerdictInv'
        BY <1>0, <1>01, <2>0 DEF VerdictInv, Verifying, poolVars
    <2>3. ScheduleIndependent'
        BY <1>02, <2>0
    <2> QED
        BY <2>1, <2>2, <2>3
<1>13. CASE PoolClosed \/ KillWorkers \/ CloseOverrun
    <2>0. /\ phase \in {"closing", "killing"} /\ UNCHANGED <<artifact, poolVars, derived, damaged, given>>
          /\ \/ /\ Live = {} /\ verdict' = verdict
                /\ phase' = IF verdict # "pending" THEN "done" ELSE IF derived.state = "derived" THEN "gate" ELSE "merge"
             \/ phase' = "killing" /\ verdict' = verdict
             \/ phase' = "done" /\ verdict' = "pool"
        BY <1>13 DEF PoolClosed, KillWorkers, CloseOverrun, AtPhase, Ends
    <2>1. PoolInv'
        BY <1>0, <2>0 DEF PoolInv, poolVars, Live
    <2>2. VerdictInv'
        BY <1>0, <1>01, <2>0 DEF VerdictInv, Verifying, poolVars, IsDerived
    <2>3. ScheduleIndependent'
        BY <1>02, <2>0 DEF poolVars, Live, VerdictInv
    <2> QED
        BY <2>1, <2>2, <2>3
<1>14. CASE MergeSpills
    <2>0. /\ phase = "merge" /\ derived' = MergeSummaries(artifact, awaited)
          /\ UNCHANGED <<artifact, poolVars, damaged, given>>
          /\ IF derived'.state = "derived" THEN phase' = "gate" /\ UNCHANGED verdict ELSE Ends("artifact")
        BY <1>14 DEF MergeSpills, AtPhase
    <2>1. derived' = MergeSummaries(artifact, Summaries) /\ AllPass
        BY <2>0, AllAwaited DEF VerdictInv
    <2>2. PoolInv'
        BY <1>0, <2>0 DEF PoolInv, poolVars, Ends, Live, VerdictInv
    <2>3. VerdictInv'
        BY <1>0, <2>0 DEF VerdictInv, Verifying, Ends, IsDerived, poolVars
    <2>4. DerivedRight'
        BY <1>0, <2>0, <2>1 DEF DerivedRight
    <2>5. ScheduleIndependent'
        BY <1>0, <2>0, <2>4 DEF ScheduleIndependent, PoolReleased, Ends, VerdictInv, PoolInv, poolVars, Live
    <2> QED
        BY <2>2, <2>3, <2>5
<1>15. CASE Gate
    <2>0. /\ phase = "gate" /\ phase' = "done" /\ verdict' = IF GateAgrees(artifact, derived) THEN "accepted" ELSE "artifact"
          /\ UNCHANGED <<artifact, poolVars, derived, damaged, given>>
        BY <1>15 DEF Gate, AtPhase, Ends
    <2>1. PoolInv'
        BY <1>0, <2>0 DEF PoolInv, poolVars, Live, VerdictInv
    <2>2. VerdictInv'
        BY <1>0, <1>01, <2>0 DEF VerdictInv, Verifying
    <2>3. GateAgrees(artifact, derived)' = GateAgrees(artifact, derived) /\ ReceiptVerifies(artifact)' = ReceiptVerifies(artifact)
        BY <2>0
    <2>4. ReceiptVerifies(artifact) /\ IsDerived
        BY <2>0 DEF VerdictInv, Verifying
    <2>5. (verdict = "accepted" => ReceiptVerifies(artifact) /\ IsDerived /\ GateAgrees(artifact, derived))'
        BY <1>01, <2>0, <2>3, <2>4
    <2>6. Live = {} /\ Live' = Live
        BY <2>0 DEF PoolInv, VerdictInv, Live, poolVars
    <2>7. given' = <<>>
        BY <2>0 DEF VerdictInv
    <2>8. ScheduleIndependent'
        BY <1>01, <2>0, <2>5, <2>6, <2>7 DEF ScheduleIndependent, PoolReleased
    <2> QED
        BY <2>1, <2>2, <2>8
<1>16. CASE \E ref \in DOMAIN artifact.payload : Damage(ref)
    <2>0. UNCHANGED <<artifact, phase, poolVars, derived, verdict, given>>
        BY <1>16 DEF Damage
    <2>1. PoolInv'
        BY <1>0, <2>0 DEF PoolInv, poolVars, Live
    <2>2. VerdictInv'
        BY <1>0, <1>01, <2>0 DEF VerdictInv, poolVars
    <2>3. ScheduleIndependent'
        BY <1>02, <2>0 DEF poolVars, Live, ScheduleIndependent, PoolReleased
    <2> QED
        BY <2>1, <2>2, <2>3
<1>17. CASE Admit
    <2>0. /\ phase = "done" /\ phase' \in {"admitted", "ended"} /\ (phase' = "admitted" => ReceiptVerifies(artifact))
          /\ UNCHANGED <<artifact, poolVars, derived, verdict, damaged, given>>
        BY <1>17 DEF Admit, AtPhase
    <2>1. PoolInv'
        BY <1>0, <2>0 DEF PoolInv, poolVars, Live
    <2>2. VerdictInv'
        BY <1>0, <1>01, <2>0 DEF VerdictInv, Verifying, poolVars
    <2>3. ScheduleIndependent'
        BY <1>02, <2>0 DEF poolVars, Live
    <2> QED
        BY <2>1, <2>2, <2>3
<1>18. CASE StreamRows
    <2>0. /\ phase = "admitted" /\ phase' = "ended" /\ UNCHANGED <<artifact, poolVars, derived, verdict, damaged>>
          /\ (given' # <<>> => given' = MergedRows(artifact) /\ CatalogReads(artifact, verdict # "accepted"))
        BY <1>18 DEF StreamRows, AtPhase, PayloadOpens
    <2>1. PoolInv'
        BY <1>0, <2>0 DEF PoolInv, poolVars, Live
    <2>2. VerdictInv'
        BY <1>0, <1>01, <2>0 DEF VerdictInv, Verifying, poolVars
    <2>3. ASSUME given' # <<>> PROVE given' = MergedRows(artifact) /\ CatalogReads(artifact, TRUE)
        <3>1. CASE verdict = "accepted"
            <4>1. IsDerived /\ DerivedRight /\ artifact \in Artifacts
                BY <3>1 DEF ScheduleIndependent, VerdictInv
            <4>2. \A i \in Indices(artifact) : StreamChecks(artifact, i, TRUE)
                BY <4>1, DerivedValidated
            <4> QED
                BY <2>0, <2>3, <4>2 DEF CatalogReads
        <3>2. CASE verdict # "accepted"
            <4>1. (verdict # "accepted") = TRUE
                BY <3>2
            <4> QED
                BY <2>0, <2>3, <4>1
        <3> QED
            BY <3>1, <3>2
    <2>4. ScheduleIndependent'
        <3>1. (IsDerived => DerivedRight)' /\ (verdict = "accepted" => ReceiptVerifies(artifact) /\ IsDerived /\ GateAgrees(artifact, derived))'
            BY <1>01, <2>0 DEF ScheduleIndependent
        <3>2. (given # <<>> => given = MergedRows(artifact) /\ CatalogReads(artifact, TRUE))'
            BY <2>0, <2>3
        <3>3. PoolReleased'
            BY <2>0 DEF PoolReleased
        <3> QED
            BY <3>1, <3>2, <3>3 DEF ScheduleIndependent
    <2> QED
        BY <2>1, <2>2, <2>4
<1>19. CASE UNCHANGED verifyVars
    <2>1. PoolInv'
        BY <1>0, <1>19 DEF PoolInv, verifyVars, Live
    <2>2. VerdictInv'
        BY <1>0, <1>01, <1>19 DEF VerdictInv, verifyVars
    <2>3. ScheduleIndependent'
        BY <1>02, <1>19 DEF verifyVars, Live, ScheduleIndependent, PoolReleased
    <2> QED
        BY <2>1, <2>2, <2>3
<1> QED
    BY <1>2, <1>3, <1>4, <1>5, <1>6, <1>7, <1>8, <1>9, <1>10, <1>11, <1>12, <1>13, <1>14, <1>15, <1>16, <1>17, <1>18, <1>19
       DEF VerifyNext, Parent

\* For any artifact, number of workers and their deaths, and any replaced payload: the
\* result of a verification is a function of the artifact, an accepted catalog agrees
\* with it, and every row a reader streams was validated (derivation.py, reader.py).
THEOREM VerificationScheduleIndependent == VerifySpec => []ScheduleIndependent
<1>1. VerifyInit => VerifyInv
    <2> SUFFICES ASSUME VerifyInit PROVE VerifyInv
        OBVIOUS
    <2>1. PoolInv
        BY PartitionsAssumption DEF VerifyInit, PoolInv, Idle, Live, PartitionCount
    <2>2. VerdictInv /\ ScheduleIndependent
        BY DEF VerifyInit, VerdictInv, ScheduleIndependent, Verifying, IsDerived, Pending, PoolReleased
    <2> QED
        BY <2>1, <2>2 DEF VerifyInv
<1>2. VerifyInv /\ [VerifyNext]_verifyVars => VerifyInv'
    BY VerifyStep
<1>3. VerifyInv => ScheduleIndependent
    BY DEF VerifyInv
<1> QED
    BY <1>1, <1>2, <1>3, PTL DEF VerifySpec
=============================================================================
