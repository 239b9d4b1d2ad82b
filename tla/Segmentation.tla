----------------------------- MODULE Segmentation -----------------------------
(***************************************************************************)
(* The bounded text segmenter.  A text is tiled into paragraphs, headings  *)
(* and blank regions; a paragraph over the token budget is cut into        *)
(* overlapping leaves; the others are packed; and the bytes are accounted  *)
(* for.  Every iteration of the code's loops is an action.                 *)
(*                                                                         *)
(* A text is a sequence of character classes.  Positions are offsets       *)
(* between characters, as in a Python slice; spans are half-open.          *)
(* A job is a record with                                                  *)
(*   kind      the kind of the representation                              *)
(*   text      the decoded text                                            *)
(*   mappings  the evidence mappings: from and to in bytes, and identity   *)
(*   counter   the token counter, see Count                                *)
(*   max, min, overlap   the settings, in tokens; they name the counter    *)
(***************************************************************************)
EXTENDS Integers, Sequences, FiniteSets, TLC, SequencesExt, FiniteSetsExt

CONSTANTS
    Jobs,        \* the segmentations to run
    ProbeChars,  \* least width of the first probe of a budget: 64 in the code
    ProbeFactor, \* characters probed for each token of a budget: 4 in the code
    None

\* What BoundedSegmentSettings accepts.
ASSUME SettingsAssumption ==
    \A j \in Jobs : j.max \in Nat \ {0} /\ j.min \in 1..j.max /\ j.overlap \in 0..(j.max - 1)

\* What Representation accepts: mappings in order, without overlap, within the bytes.
ASSUME MappingAssumption ==
    \A j \in Jobs :
        /\ j.text \in Seq(ToSet(j.text)) /\ j.mappings \in Seq(ToSet(j.mappings))
        /\ \A i \in DOMAIN j.mappings :
             /\ {j.mappings[i].from, j.mappings[i].to} \subseteq Nat /\ j.mappings[i].from <= j.mappings[i].to
             /\ \A k \in 1..(i - 1) : j.mappings[k].to <= j.mappings[i].from

\* No unit is None.
ASSUME UnitsAssumption ==
    None \notin [from : Nat, to : Nat, headings : Seq(Nat), key : Nat \X Nat, split : BOOLEAN]

\* A token counter answers an integer.
ASSUME CounterAssumption == \A j \in Jobs : j.counter.cost \in Int

ASSUME ProbeAssumption == ProbeChars \in Nat \ {0} /\ ProbeFactor \in Nat

VARIABLES
    job,
    phase,    \* "begin", "tile", "units", "pack", "account", "done", "refused"
    windows,  \* the mappings as character spans
    tile,     \* window and position of the tiling
    at,       \* index of the next region, then of the next unit
    regions,
    stack,    \* the open headings: level and start, outermost first
    epoch,    \* headings met so far
    leaf,     \* start of the next leaf of the region being cut
    units,
    held,     \* spans held back from the segments
    group,    \* the units being packed, as one span
    groups,
    result

vars == <<job, phase, windows, tile, at, regions, stack, epoch, leaf, units, held, group, groups,
          result>>

-----------------------------------------------------------------------------
\* Characters, slices and tokens.

Blanks == {"sp"}                        \* space and tab
Spaces == {"sp", "lf", "cr", "nb"}      \* "nb": white space that is neither blank nor line end
Newlines == {<<"lf">>, <<"cr", "lf">>}

\* "e" and "nb" stand for characters of two bytes.
Width(c) == IF c \in {"e", "nb"} THEN 2 ELSE 1

Slice(t, s, e) == SubSeq(t, s + 1, e)

\* Byte offset of every position.
Offsets(t) ==
    LET offset[p \in 0..Len(t)] == IF p = 0 THEN 0 ELSE offset[p - 1] + Width(t[p])
    IN [p \in 0..Len(t) |-> offset[p]]

\* Characters or words; a counter may price one exact text differently.
Count(c, s) ==
    IF s = c.expensive THEN c.cost
    ELSE IF c.unit = "characters" THEN Len(s)
    ELSE Cardinality({i \in DOMAIN s : s[i] \notin Spaces /\ (i = 1 \/ s[i - 1] \in Spaces)})

Tokens(s, e) == Count(job.counter, Slice(job.text, s, e))

-----------------------------------------------------------------------------
Init ==
    /\ job \in Jobs
    /\ phase = "begin"
    /\ windows = <<>> /\ tile = None /\ regions = <<>> /\ at = 1
    /\ stack = <<>> /\ epoch = 0 /\ leaf = 0
    /\ units = <<>> /\ held = <<>>
    /\ group = None /\ groups = <<>> /\ result = None

Tiling == <<windows, tile, regions>>
Cutting == <<stack, epoch, leaf, units, held>>
Packing == <<group, groups>>

\* A BoundedSegmentationError: nothing is emitted.
Refuse == phase' = "refused" /\ UNCHANGED <<job, at, Tiling, Cutting, Packing, result>>

\* The character at which a byte offset falls, if it falls between two.
CharIndex(b) == {p \in 0..Len(job.text) : Offsets(job.text)[p] = b}

\* Reversible mappings of a text become character windows.
BeginWindows ==
    /\ phase = "begin"
    /\ LET ms == job.mappings IN
       IF \/ job.kind \notin {"text", "html", "xml"}
          \/ ms = <<>>
          \/ \E i \in DOMAIN ms : \/ ~ms[i].identity
                                  \/ CharIndex(ms[i].from) = {}
                                  \/ CharIndex(ms[i].to) = {}
       THEN Refuse
       ELSE /\ windows' = [i \in DOMAIN ms |-> [from |-> Min(CharIndex(ms[i].from)),
                                                to |-> Min(CharIndex(ms[i].to))]]
            /\ tile' = [win |-> 1, pos |-> Min(CharIndex(ms[1].from))]
            /\ phase' = "tile"
            /\ UNCHANGED <<job, at, regions, Cutting, Packing, result>>

-----------------------------------------------------------------------------
\* Regions.

\* Two line ends with only blanks between them.
IsGap(s) ==
    \E i, j \in 0..Len(s) :
        /\ i <= j
        /\ SubSeq(s, 1, i) \in Newlines
        /\ SubSeq(s, j + 1, Len(s)) \in Newlines
        /\ \A k \in (i + 1)..j : s[k] \in Blanks

\* The leftmost gap of a text between two positions, as a set of at most one.
FirstGap(t, pos, upper) ==
    LET opens(i) == {e \in (i + 2)..upper : t[e] = "lf" /\ IsGap(Slice(t, i, e))}
        starts == {i \in pos..(upper - 2) : t[i + 1] \in {"cr", "lf"} /\ opens(i) # {}}
    IN IF starts = {} THEN {} ELSE {<<Min(starts), e>> : e \in opens(Min(starts))}

\* One line of one to six marks, blanks and a title.
HeadingLevel(s) ==
    LET marks == {k \in 1..6 : /\ k + 1 < Len(s)
                               /\ \A i \in 1..k : s[i] = "hash"
                               /\ s[k + 1] \in Blanks
                               /\ \E b \in (k + 1)..(Len(s) - 1) :
                                      /\ \A i \in (k + 1)..b : s[i] \in Blanks
                                      /\ s[b + 1] \notin Spaces}
    IN IF "lf" \in ToSet(s) \/ marks = {} THEN 0 ELSE Max(marks)

Region(kind, s, e) == [win |-> tile.win, kind |-> kind, from |-> s, to |-> e]

\* A block without its outer white space, and that white space as regions of its own.
BlockRegions(s, e) ==
    LET text == {p \in s..(e - 1) : job.text[p + 1] \notin Spaces}
        first == Min(text)
        last == Max(text) + 1
        kind == IF HeadingLevel(Slice(job.text, first, last)) > 0 THEN "heading" ELSE "paragraph"
        some(r) == IF r.from < r.to THEN <<r>> ELSE <<>>
    IN IF s = e THEN <<>>
       ELSE IF text = {} THEN <<Region("empty", s, e)>>
       ELSE some(Region("empty", s, first)) \o <<Region(kind, first, last)>>
            \o some(Region("empty", last, e))

\* The block up to the next gap and the gap itself; or the last block of the window.
TileBlock ==
    /\ phase = "tile"
    /\ LET upper == windows[tile.win].to
           gaps == FirstGap(job.text, tile.pos, upper)
       IN IF gaps # {}
          THEN LET g == CHOOSE g \in gaps : TRUE IN
               /\ regions' = regions \o BlockRegions(tile.pos, g[1]) \o BlockRegions(g[1], g[2])
               /\ tile' = [tile EXCEPT !.pos = g[2]]
               /\ UNCHANGED phase
          ELSE /\ regions' = regions \o BlockRegions(tile.pos, upper)
               /\ IF tile.win < Len(windows)
                  THEN /\ tile' = [win |-> tile.win + 1, pos |-> windows[tile.win + 1].from]
                       /\ UNCHANGED phase
                  ELSE tile' = None /\ phase' = "units"
    /\ UNCHANGED <<job, windows, at, Cutting, Packing, result>>

-----------------------------------------------------------------------------
\* Units.

Here == regions[at]

InRegion(kind) == phase = "units" /\ at <= Len(regions) /\ Here.kind = kind

Hold(reason) == Append(held, [from |-> Here.from, to |-> Here.to, reason |-> reason])

\* A heading closes those of its level and below, and opens itself.
PushHeading ==
    /\ InRegion("heading")
    /\ LET level == HeadingLevel(Slice(job.text, Here.from, Here.to))
           open == {0} \cup {i \in DOMAIN stack : stack[i].level < level}
       IN stack' = Append(SubSeq(stack, 1, Max(open)), [level |-> level, title |-> Here.from])
    /\ epoch' = epoch + 1
    /\ held' = Hold("heading")
    /\ at' = at + 1
    /\ UNCHANGED <<job, phase, Tiling, leaf, units, Packing, result>>

\* White space is held back.
HoldEmpty ==
    /\ InRegion("empty")
    /\ held' = Hold("empty")
    /\ at' = at + 1
    /\ UNCHANGED <<job, phase, Tiling, stack, epoch, leaf, units, Packing, result>>

Unit(s, e, split) ==
    [from |-> s, to |-> e, headings |-> [i \in DOMAIN stack |-> stack[i].title],
     key |-> <<Here.win, epoch>>, split |-> split]

Oversized == Tokens(Here.from, Here.to) > job.max

\* A paragraph that fits is one unit.
TakeWhole ==
    /\ InRegion("paragraph") /\ ~Oversized
    /\ units' = Append(units, Unit(Here.from, Here.to, FALSE))
    /\ at' = at + 1
    /\ UNCHANGED <<job, phase, Tiling, stack, epoch, leaf, held, Packing, result>>

\* Room for the overlap is reserved in every leaf.
LeafBudget == job.max - job.overlap

\* The furthest end from s whose slice fits: a probe of growing width, then bisection.
LargestEnd(s) ==
    LET n == Here.to
        fits(e) == Tokens(s, e) <= LeafBudget
        high(w) == Min({n, s + w})
        Probe[w \in Nat \ {0}] ==      \* <<last end that fits, first that does not>>
            IF ~fits(high(w)) THEN <<IF w = Max({ProbeChars, LeafBudget * ProbeFactor}) THEN s
                                     ELSE high(w \div 2), high(w)>>
            ELSE IF high(w) = n THEN <<n, n>> ELSE Probe[2 * w]
        Search[p \in (Nat \ {0}) \X Nat \X Nat] ==   \* low, high and the last end that fitted
            LET middle == (p[1] + p[2]) \div 2 IN
            IF p[1] > p[2] THEN p[3]
            ELSE IF fits(middle) THEN Search[<<middle + 1, p[2], middle>>]
            ELSE Search[<<p[1], middle - 1, p[3]>>]
        probed == Probe[Max({ProbeChars, LeafBudget * ProbeFactor})]
    IN IF probed[1] = n THEN n ELSE Search[<<probed[1] + 1, probed[2], probed[1]>>]

LeafMin == Min({job.min, LeafBudget})

\* The nearest end from s that is worth a leaf, found by bisection.
SmallestEnd(s, upper) ==
    LET Search[p \in (Nat \ {0}) \X Nat \X Nat] ==
            LET middle == (p[1] + p[2]) \div 2 IN
            IF p[1] > p[2] THEN p[3]
            ELSE IF Tokens(s, middle) >= LeafMin THEN Search[<<p[1], middle - 1, middle>>]
            ELSE Search[<<middle + 1, p[2], p[3]>>]
    IN IF LeafMin <= 1 THEN Min({s + 1, upper}) ELSE Search[<<s + 1, upper, upper>>]

\* The last paragraph, line, sentence or word break between two positions, in that order.
LastBreak(lower, upper) ==
    LET char(p) == job.text[p + 1]
        within == lower..(upper - 1)
        paragraphs == {p \in within : p + 1 \in within /\ char(p) = "lf" /\ char(p + 1) = "lf"}
        lines == {p \in within : char(p) = "lf"}
        sentences == {p \in within : char(p) = "dot" /\ p + 1 < Here.to /\ char(p + 1) \in Spaces}
        words == {p \in within : char(p) \in Spaces}
    IN IF paragraphs # {} THEN Max(paragraphs) + 2
       ELSE IF lines # {} THEN Max(lines) + 1
       ELSE IF sentences # {} THEN Max(sentences) + 1
       ELSE IF words # {} THEN Max(words) + 1
       ELSE upper

\* The end of the leaf at s: within the budget, at a break if there is one.
LeafEnd(s) ==
    LET upper == LargestEnd(s)
        end == LastBreak(SmallestEnd(s, upper), upper)
    IN IF upper = Here.to THEN upper
       ELSE Max({s} \cup {e \in (s + 1)..end : Tokens(s, e) <= LeafBudget})

\* The earliest start in the region whose text up to the leaf still fits the overlap.
OverlapStart(end) ==
    LET small(p) == Tokens(p, end) <= job.overlap
        Search[p \in Nat \X Nat] ==
            LET middle == (p[1] + p[2]) \div 2 IN
            IF p[1] >= p[2] THEN p[1]
            ELSE IF small(middle) THEN Search[<<p[1], middle>>]
            ELSE Search[<<middle + 1, p[2]>>]
        Forward[p \in Nat] == IF p < end /\ ~small(p) THEN Forward[p + 1] ELSE p
        Back[p \in Nat] == IF p > Here.from /\ small(p - 1) THEN Back[p - 1] ELSE p
    IN Back[Forward[Search[<<Here.from, end>>]]]

\* The next leaf of an oversized paragraph; one character that does not fit refuses it all.
SplitLeaf ==
    /\ InRegion("paragraph") /\ Oversized
    /\ LET s == IF leaf = 0 THEN Here.from ELSE leaf
           e == LeafEnd(s)
       IN IF LargestEnd(s) = s THEN Refuse
          ELSE /\ units' = Append(units, Unit(IF s = Here.from THEN s ELSE OverlapStart(s), e, TRUE))
               /\ IF e = Here.to THEN leaf' = 0 /\ at' = at + 1 ELSE leaf' = e /\ UNCHANGED at
               /\ UNCHANGED <<job, phase, Tiling, stack, epoch, held, Packing, result>>

\* All regions are units or held back.
EndUnits ==
    /\ phase = "units" /\ at > Len(regions)
    /\ phase' = "pack" /\ at' = 1
    /\ UNCHANGED <<job, Tiling, Cutting, Packing, result>>

-----------------------------------------------------------------------------
\* Packing.

Flushed == IF group = None THEN groups ELSE Append(groups, group)

\* Mutated: a group may reach over a heading or a window.
PackUnitAcross ==
    /\ phase = "pack" /\ at <= Len(units)
    /\ LET u == units[at] IN
       IF u.split THEN groups' = Append(Flushed, u) /\ group' = None
       ELSE IF group = None THEN group' = u /\ UNCHANGED groups
       ELSE IF Tokens(group.from, u.to) > job.max THEN groups' = Flushed /\ group' = u
       ELSE group' = [group EXCEPT !.to = u.to] /\ UNCHANGED groups
    /\ at' = at + 1
    /\ UNCHANGED <<job, phase, Tiling, Cutting, result>>

\* A leaf is a group of its own; a whole paragraph joins the open group while they fit together
\* and neither a heading nor the end of a window lies between them.
PackUnit ==
    /\ phase = "pack" /\ at <= Len(units)
    /\ LET u == units[at] IN
       IF u.split THEN groups' = Append(Flushed, u) /\ group' = None
       ELSE IF group = None THEN group' = u /\ UNCHANGED groups
       ELSE IF group.key # u.key \/ Tokens(group.from, u.to) > job.max
       THEN groups' = Flushed /\ group' = u
       ELSE group' = [group EXCEPT !.to = u.to] /\ UNCHANGED groups
    /\ at' = at + 1
    /\ UNCHANGED <<job, phase, Tiling, Cutting, result>>

EndPack ==
    /\ phase = "pack" /\ at > Len(units)
    /\ groups' = Flushed /\ group' = None
    /\ phase' = "account"
    /\ UNCHANGED <<job, at, Tiling, Cutting, result>>

-----------------------------------------------------------------------------
\* Accounting.

Span(x) == [from |-> x.from, to |-> x.to]

Earlier(x, y) == x.from < y.from \/ (x.from = y.from /\ x.to < y.to)

\* Spans sorted, with those that overlap or touch joined.
Merge(spans) ==
    LET add(merged, x) ==
            IF merged # <<>> /\ x.from <= Last(merged).to
            THEN Append(Front(merged), [from |-> Last(merged).from, to |-> Max({Last(merged).to, x.to})])
            ELSE Append(merged, x)
    IN FoldLeft(add, <<>>, SortSeq(spans, Earlier))

\* The pieces of a span that no covered span holds.
Remainder(x, covered) ==
    LET step(acc, c) ==
            IF c.to <= acc.pos \/ c.from >= x.to THEN acc
            ELSE [pos |-> Max({acc.pos, c.to}),
                  pieces |-> IF c.from > acc.pos
                             THEN Append(acc.pieces, [from |-> acc.pos, to |-> Min({c.from, x.to})])
                             ELSE acc.pieces]
        end == FoldLeft(step, [pos |-> x.from, pieces |-> <<>>], covered)
    IN IF end.pos < x.to THEN Append(end.pieces, [from |-> end.pos, to |-> x.to]) ELSE end.pieces

UnionLength(spans) == FoldLeft(LAMBDA n, x : n + x.to - x.from, 0, Merge(spans))

\* Covered and duplicated bytes, by sweeping over the ends of the spans.
Sweep(spans) ==
    LET events == [i \in 1..(2 * Len(spans)) |->
                      IF i % 2 = 1 THEN [pos |-> spans[(i + 1) \div 2].from, delta |-> 1]
                      ELSE [pos |-> spans[i \div 2].to, delta |-> -1]]
        before(x, y) == x.pos < y.pos \/ (x.pos = y.pos /\ x.delta > y.delta)
        step(acc, x) ==
            LET width == x.pos - acc.pos IN
            [pos |-> x.pos, active |-> acc.active + x.delta,
             covered |-> acc.covered + (IF acc.active > 0 THEN width ELSE 0),
             duplicated |-> acc.duplicated + (IF acc.active > 1 THEN width * (acc.active - 1) ELSE 0)]
    IN FoldLeft(step, [pos |-> 0, active |-> 0, covered |-> 0, duplicated |-> 0], SortSeq(events, before))

\* A span in bytes.
InBytes(x) == [from |-> Offsets(job.text)[x.from], to |-> Offsets(job.text)[x.to]]

\* Every emitted segment is measured, and every byte is in a segment or excluded; or all is
\* refused.
Account ==
    /\ phase = "account"
    /\ LET spans == [i \in DOMAIN groups |-> Span(groups[i])]
           covered == Merge(spans)
           excluded == FlattenSeq([i \in DOMAIN held |-> Remainder(held[i], covered)])
           bytes == [i \in DOMAIN spans |-> InBytes(spans[i])]
           without == [i \in DOMAIN excluded |-> InBytes(excluded[i])]
           sweep == Sweep(bytes)
           total == Offsets(job.text)[Len(job.text)]
           accounted == UnionLength(bytes \o without)
       IN IF (\E i \in DOMAIN spans : Tokens(spans[i].from, spans[i].to) > job.max)
             \/ total # accounted
          THEN Refuse
          ELSE /\ result' = [spans |-> bytes, excluded |-> without,
                             headings |-> [i \in DOMAIN groups |-> groups[i].headings],
                             covered |-> sweep.covered, duplicated |-> sweep.duplicated,
                             excludedBytes |-> accounted - UnionLength(bytes)]
               /\ phase' = "done"
               /\ UNCHANGED <<job, at, Tiling, Cutting, Packing>>

Next ==
    \/ BeginWindows \/ TileBlock
    \/ PushHeading \/ HoldEmpty \/ TakeWhole \/ SplitLeaf \/ EndUnits
    \/ PackUnit \/ EndPack \/ Account

Spec == Init /\ [][Next]_vars

-----------------------------------------------------------------------------
\* Properties.

Bytes(x) == (x.from)..(x.to - 1)

\* Every byte of an accepted text is in a segment or in exactly one excluded range, never in
\* both, and the sweep's counts are those of the byte sets.
Partition ==
    phase = "done" =>
        LET total == Offsets(job.text)[Len(job.text)]
            inSpans(b) == {i \in DOMAIN result.spans : b \in Bytes(result.spans[i])}
            outside(b) == {i \in DOMAIN result.excluded : b \in Bytes(result.excluded[i])}
            bs == 0..(total - 1)
        IN /\ \A b \in bs : IF inSpans(b) = {} THEN Cardinality(outside(b)) = 1 ELSE outside(b) = {}
           /\ result.covered = Cardinality({b \in bs : inSpans(b) # {}})
           /\ result.excludedBytes = Cardinality({b \in bs : inSpans(b) = {}})
           /\ result.covered + result.duplicated
                = FoldLeft(LAMBDA n, x : n + x.to - x.from, 0, result.spans)

\* Characters of heading lines, of paragraphs, and of neither.
Chars(x) == (x.from)..(x.to - 1)
OfKind(kind) == UNION {Chars(regions[i]) : i \in {k \in DOMAIN regions : regions[k].kind = kind}}

\* Nothing is dropped to meet the budget: every character of a paragraph is in a segment, and
\* no heading is.
ParagraphsKept ==
    phase = "done" =>
        LET inSegments == UNION {Chars(groups[i]) : i \in DOMAIN groups} IN
        /\ OfKind("paragraph") \subseteq inSegments
        /\ OfKind("heading") \cap inSegments = {}

\* A segment fits the budget and resolves through a single mapping.
SegmentsResolve ==
    phase = "done" =>
        \A i \in DOMAIN groups :
            /\ Tokens(groups[i].from, groups[i].to) <= job.max
            /\ \E w \in DOMAIN job.mappings :
                   /\ job.mappings[w].from <= result.spans[i].from
                   /\ result.spans[i].to <= job.mappings[w].to

\* What a window shows of the text, and the whole text, is in paragraphs and headings.
Recognised(from, to) ==
    {p \in from..(to - 1) : job.text[p + 1] \notin Spaces} \subseteq OfKind("paragraph") \cup OfKind("heading")
WindowsRecognised == phase = "done" => \A w \in DOMAIN windows : Recognised(windows[w].from, windows[w].to)
TextRecognised == phase = "done" => Recognised(0, Len(job.text))

EvidenceKept == ParagraphsKept /\ SegmentsResolve /\ WindowsRecognised /\ TextRecognised

\* The heading path of a segment: the headings before it that no later heading of their level
\* or above has closed.
HeadingPath ==
    phase = "done" =>
        \A i \in DOMAIN groups :
            LET level(h) == HeadingLevel(Slice(job.text, h.from, h.to))
                before == {h \in ToSet(regions) : h.kind = "heading" /\ h.to <= groups[i].from}
                open == {h \in before : \A g \in before : g.from > h.from => level(g) > level(h)}
            IN /\ ToSet(result.headings[i]) = {h.from : h \in open}
               /\ \A j, k \in DOMAIN result.headings[i] :
                      j < k => result.headings[i][j] < result.headings[i][k]

\* The counter prices a text by its characters or words alone.
Regular == job.counter.expensive = None

\* With a counter that grows with its text, the leaves of a paragraph follow each other from
\* its start to its end, each as long as budget and breaks allow, each reaching back exactly
\* as far as the overlap allows: what bisection finds is what comparing all ends would.
LeavesExact ==
    phase = "done" /\ Regular =>
        \A i \in {k \in DOMAIN regions : regions[k].kind = "paragraph"} :
            LET r == regions[i]
                leaves == SelectSeq(units, LAMBDA u : u.split /\ u.to \in (r.from + 1)..r.to)
                start(k) == IF k = 1 THEN r.from ELSE leaves[k - 1].to
                fitting(k) == {e \in (start(k) + 1)..r.to : Tokens(start(k), e) <= LeafBudget}
                worth(k) == {e \in fitting(k) : Tokens(start(k), e) >= LeafMin}
                lower(k) == IF worth(k) = {} THEN Max(fitting(k)) ELSE Min(worth(k))
                breaks(k) == {e \in (lower(k) + 1)..Max(fitting(k)) : job.text[e] \in Spaces}
            IN Tokens(r.from, r.to) > job.max =>
                 /\ leaves # <<>> /\ Last(leaves).to = r.to
                 /\ \A k \in DOMAIN leaves :
                      /\ k > 1 => leaves[k].from = Min({p \in r.from..start(k) :
                                                           Tokens(p, start(k)) <= job.overlap})
                      /\ IF r.to \in fitting(k) THEN leaves[k].to = r.to
                         ELSE /\ leaves[k].to \in lower(k)..Max(fitting(k))
                              /\ breaks(k) = {} => leaves[k].to = Max(fitting(k))
                              /\ breaks(k) # {} => \/ leaves[k].to \in breaks(k)
                                                   \/ job.text[leaves[k].to] = "dot"

\* A text is refused only for its mappings or for an irregular counter: overlap and packing
\* never lead a regular one over the budget.
RegularAccepted ==
    phase = "refused" =>
        LET total == Offsets(job.text)[Len(job.text)]
            cuts == {Offsets(job.text)[p] : p \in 0..Len(job.text)}
        IN \/ ~Regular
           \/ job.kind = "json"
           \/ \E m \in ToSet(job.mappings) : ~m.identity \/ {m.from, m.to} \cap cuts # {m.from, m.to}
           \/ UNION {Bytes(m) : m \in ToSet(job.mappings)} # 0..(total - 1)

\* What segment_text promises of a text it accepts, whatever its headings, mappings and
\* counter: bytes accounted for, evidence kept, heading paths and leaves right; and it refuses
\* no regular text.
SegmentsExact == Partition /\ EvidenceKept /\ HeadingPath /\ LeavesExact /\ RegularAccepted
=============================================================================
