----------------------------- MODULE VisibleText -----------------------------
(***************************************************************************)
(* The visible text of one HTML or XML file (processing/visible_text.py):  *)
(* the tree its events make, the blocks of that tree, their layout as      *)
(* text, and the captured bytes each interval of the text came from.       *)
(*                                                                         *)
(* A document is [format, events].  An event is [kind, name, key,          *)
(* text, size]: size is the bytes it takes in the file.  The bytes of a    *)
(* text event are its characters, unless it was written with references,   *)
(* and then they are more.  SpicyDocs reads the events (external).         *)
(*                                                                         *)
(* The tree is a sequence of nodes numbered as they open, node 1 being     *)
(* the document, and the pieces of character data in document order, each  *)
(* with the node it was added to.                                          *)
(***************************************************************************)
EXTENDS Integers, Sequences, FiniteSets, FiniteSetsExt, SequencesExt

CONSTANTS VoidTags, SuppressedTags, HeadingLevels

White == {"sp", "lf"}
IsBlank(text) == \A i \in DOMAIN text : text[i] \in White
Space == <<"sp">>
BlockSeparator == <<"lf", "lf">>
MaxHeadingLevel == 6

EventBytes(e) ==
    IF e.kind = "text" /\ e.size = Len(e.text) THEN e.text ELSE [i \in 1..e.size |-> "mark"]
SourceBytes(doc) == FlattenSeq([i \in DOMAIN doc.events |-> EventBytes(doc.events[i])])
EventStart(doc, i) == FoldLeft(LAMBDA n, e : n + e.size, 0, SubSeq(doc.events, 1, i - 1))

(***************************************************************************)
(* The tree.                                                               *)
(***************************************************************************)
EmptyTree ==
    [nodes |-> <<[tag |-> "document", key |-> "document", parent |-> 0, joined |-> TRUE]>>,
     open |-> <<1>>, suppressed |-> 0, pieces |-> <<>>]

OpenNode(tree, e, joined, stays) ==
    LET n == Len(tree.nodes) + 1 IN
    [tree EXCEPT !.nodes = Append(@, [tag |-> e.name, key |-> e.key, parent |-> Last(tree.open), joined |-> joined]),
                 !.open = IF stays THEN Append(@, n) ELSE @]

AddPiece(doc, tree, i) ==
    [tree EXCEPT !.pieces =
        Append(@, [text |-> doc.events[i].text, start |-> EventStart(doc, i),
                   end |-> EventStart(doc, i) + doc.events[i].size, node |-> Last(tree.open)])]

(* _parse_xml: the reader refuses what is not well formed.                 *)
XmlStep(doc, tree, i) ==
    LET e == doc.events[i] IN
    CASE e.kind = "start" -> OpenNode(tree, e, TRUE, TRUE)
      [] e.kind = "empty" -> OpenNode(tree, e, TRUE, FALSE)
      [] e.kind = "end" -> [tree EXCEPT !.open = Front(@)]
      [] e.kind = "text" -> AddPiece(doc, tree, i)

(* _parse_html: a suppressed element only counts, a void one is ignored,   *)
(* an end tag closes the nearest element of its name with all it contains, *)
(* and an element opened while suppressed joins no parent.                 *)
HtmlEnd(tree, name) ==
    LET matches == {k \in DOMAIN tree.open : k > 1 /\ tree.nodes[tree.open[k]].tag = name} IN
    IF matches = {} THEN tree ELSE [tree EXCEPT !.open = SubSeq(@, 1, Max(matches) - 1)]

HtmlStep(doc, tree, i) ==
    LET e == doc.events[i] IN
    CASE e.kind # "text" /\ e.name \in VoidTags -> tree
      [] e.kind = "start" /\ e.name \in SuppressedTags -> [tree EXCEPT !.suppressed = @ + 1]
      [] e.kind = "end" /\ e.name \in SuppressedTags -> [tree EXCEPT !.suppressed = Max({0, @ - 1})]
      [] e.kind = "start" -> OpenNode(tree, e, tree.suppressed = 0, TRUE)
      [] e.kind = "end" -> HtmlEnd(tree, e.name)
      [] e.kind = "text" /\ tree.suppressed = 0 -> AddPiece(doc, tree, i)
      [] OTHER -> tree

Parse(doc) ==
    FoldLeft(LAMBDA tree, i : IF doc.format = "xml" THEN XmlStep(doc, tree, i) ELSE HtmlStep(doc, tree, i),
             EmptyTree, [i \in DOMAIN doc.events |-> i])

(***************************************************************************)
(* Blocks: the outermost elements that own text, in document order.        *)
(***************************************************************************)
Chain(nodes, n) == LET up[k \in 0..Len(nodes)] == IF k = 0 THEN {} ELSE {k} \cup up[nodes[k].parent] IN up[n]

\* Node m is reached from node n by going down the tree.
Under(nodes, m, n) == n \in Chain(nodes, m) /\ \A k \in Chain(nodes, m) : k > n => nodes[k].joined

(* _Node.owns_text and _Node.pieces                                        *)
OwnsText(tree, n) == \E i \in DOMAIN tree.pieces : tree.pieces[i].node = n /\ ~IsBlank(tree.pieces[i].text)
PiecesOf(tree, n) == SelectSeq(tree.pieces, LAMBDA p : Under(tree.nodes, p.node, n))

(* _walk_blocks, with the two _level methods.                              *)
BlockLevel(doc, node) ==
    IF doc.format = "xml" /\ node.key \in DOMAIN HeadingLevels THEN HeadingLevels[node.key]
    ELSE IF node.tag \in DOMAIN HeadingLevels THEN HeadingLevels[node.tag] ELSE 0

WalkBlocks(doc, tree) ==
    SelectSeq([n \in DOMAIN tree.nodes |-> n],
              LAMBDA n : /\ Under(tree.nodes, n, 1)
                         /\ OwnsText(tree, n)
                         /\ \A k \in Chain(tree.nodes, n) \ {n} : ~OwnsText(tree, k))

(***************************************************************************)
(* Layout.                                                                 *)
(***************************************************************************)
Collapse(text) ==
    LET kept == SelectSeq([i \in DOMAIN text |-> i],
                          LAMBDA i : text[i] \notin White \/ i = 1 \/ text[i - 1] \notin White) IN
    [k \in DOMAIN kept |-> IF text[kept[k]] \in White THEN "sp" ELSE text[kept[k]]]
Stripped(text) ==
    IF IsBlank(text) THEN <<>>
    ELSE SubSeq(text, SelectInSeq(text, LAMBDA c : c # "sp"), SelectLastInSeq(text, LAMBDA c : c # "sp"))

InjectedSpace == [text |-> Space, start |-> 0, end |-> 0, injected |-> TRUE]

(* _normalized_pieces                                                      *)
NormalizeStep(acc, piece) ==
    LET normal == Collapse(piece.text)
        core == Stripped(normal) IN
    IF core = <<>> THEN [acc EXCEPT !.pending = @ \/ (acc.started /\ normal # <<>>)]
    ELSE [out |-> acc.out \o (IF acc.started /\ (acc.pending \/ normal[1] = "sp") THEN <<InjectedSpace>> ELSE <<>>)
                   \o <<[text |-> core, start |-> piece.start, end |-> piece.end, injected |-> FALSE]>>,
          started |-> TRUE, pending |-> Last(normal) = "sp"]

NormalizedPieces(pieces) ==
    FoldLeft(NormalizeStep, [out |-> <<>>, started |-> FALSE, pending |-> FALSE], pieces).out

(* _Writer.write and write_run                                             *)
Write(w, text) == [w EXCEPT !.content = @ \o text]
WriteRun(w, source, p) ==
    IF p.injected THEN Write(w, p.text)
    ELSE LET at == Len(w.content) IN
         [Write(w, p.text) EXCEPT !.runs = IF p.text = <<>> THEN @ ELSE
             Append(@, [from |-> at, to |-> at + Len(p.text), start |-> p.start, end |-> p.end,
                        exact |-> p.text = SubSeq(source, p.start + 1, p.end)])]

Hashes(level) == [i \in 1..Min({level, MaxHeadingLevel}) |-> "hash"] \o Space

(* _write_block                                                            *)
WriteBlock(w, source, pieces, level, normalize) ==
    LET apart == IF w.blocks = <<>> THEN w ELSE Write(w, BlockSeparator)
        verbatim == [i \in DOMAIN pieces |-> [text |-> pieces[i].text, start |-> pieces[i].start,
                                              end |-> pieces[i].end, injected |-> FALSE]]
        prepared == IF level > 0 \/ normalize THEN NormalizedPieces(pieces) ELSE verbatim
        headed == IF level > 0 THEN Write(apart, Hashes(level)) ELSE apart
        written == FoldLeft(LAMBDA x, p : WriteRun(x, source, p), headed, prepared) IN
    IF \A i \in DOMAIN pieces : IsBlank(pieces[i].text) THEN apart
    ELSE [written EXCEPT !.blocks = Append(@, [level |-> level, from |-> Len(apart.content), to |-> Len(written.content)])]

(* _lay_out under the two extract methods.                                 *)
LayOut(doc) ==
    LET tree == Parse(doc)
        source == SourceBytes(doc) IN
    FoldLeft(LAMBDA w, n : WriteBlock(w, source, PiecesOf(tree, n), BlockLevel(doc, tree.nodes[n]), doc.format = "xml"),
             [content |-> <<>>, runs |-> <<>>, blocks |-> <<>>], WalkBlocks(doc, tree))

(***************************************************************************)
(* Where an interval of the text came from: TextRun.resolve and            *)
(* VisibleText.rendition_range.                                            *)
(***************************************************************************)
(* Variant: an interval of an exact run names the whole run.               *)
ResolveWhole(run, from, to) == <<run.start, run.end>>

Resolve(run, from, to) ==
    IF ~run.exact THEN <<run.start, run.end>>
    ELSE LET low == run.start + Max({0, from - run.from})
             high == run.start + Min({run.to, to}) - run.from IN
         <<low, Max({high, low + 1})>>

Touched(v, from, to) == SelectSeq(v.runs, LAMBDA r : r.from < to /\ from < r.to)

RenditionRange(doc, v, from, to) ==
    LET spans == {Resolve(r, from, to) : r \in ToSet(Touched(v, from, to))} IN
    <<Max({0, Min({s[1] : s \in spans})}), Min({Len(SourceBytes(doc)), Max({s[2] : s \in spans})})>>

(***************************************************************************)
(* What the text should be.                                                *)
(***************************************************************************)
\* How deep event i is inside suppressed elements.
Balance(doc, S) ==
    Cardinality({j \in S : doc.events[j].kind = "start" /\ doc.events[j].name \in SuppressedTags})
      - Cardinality({j \in S : doc.events[j].kind = "end" /\ doc.events[j].name \in SuppressedTags})
Suppressed(doc, i) == doc.format = "html" /\ \E j \in 1..(i - 1) : Balance(doc, j..(i - 1)) > 0

TextEvents(doc) == {i \in DOMAIN doc.events : doc.events[i].kind = "text"}
Showing(doc) == SelectSeq([i \in DOMAIN doc.events |-> i],
                          LAMBDA i : i \in TextEvents(doc) /\ ~Suppressed(doc, i) /\ ~IsBlank(doc.events[i].text))

\* Every element is closed by its own end tag, in order.
WellNested(doc) ==
    LET tags == SelectSeq(doc.events, LAMBDA e : e.kind \in {"start", "end"} /\ e.name \notin VoidTags)
        walk == FoldLeft(LAMBDA open, e : IF e.kind = "start" THEN Append(open, e.name)
                                          ELSE IF open # <<>> /\ Last(open) = e.name THEN Front(open)
                                          ELSE Append(open, "unmatched"), <<>>, tags) IN
    walk = <<>>

Words(text) == SelectSeq(text, LAMBDA c : c \notin White \cup {"hash"})
=============================================================================
