------------------------------ MODULE Extraction ------------------------------
(***************************************************************************)
(* One captured file on its way through DocumentPipeline: the extractor    *)
(* its media type selects (processing/extraction.py, ocr.py and            *)
(* visible_text_runtime.py), the representation with its evidence mappings *)
(* (domain/content.py), the segmenter the representation selects           *)
(* (processing/segmentation.py, or Segmentation when a bounded one is      *)
(* supplied), and the reader that checks a reloaded segment                *)
(* (processing/artifacts.py).                                              *)
(*                                                                         *)
(* A stage is planned, which fixes the identity its result is kept under,  *)
(* and performed later.  A check hashes the reader's installed files; the  *)
(* reader itself is imported after the check, once in the life of the      *)
(* process, and what is imported may be another than the files name: they  *)
(* may be replaced at any time, and a process may have imported others     *)
(* before.  Versions see the same in a file; which one read it is kept.    *)
(* Recognition answers page by page, and may answer anything.              *)
(*                                                                         *)
(* Bytes are a sequence; "cont" is the second byte of a two-byte           *)
(* character and "bad" is no byte of UTF-8.  A digest is modelled by the   *)
(* bytes themselves.  A file is [media, bytes, digest, doc, pages,         *)
(* records]: bytes are what a read of the file gives now, digest what was  *)
(* captured; doc, pages and records are what the readers see in it, None   *)
(* when they refuse it (external).  A pipeline is [extractor, segmenter,   *)
(* pages, counter, max, min, overlap]: the last four are for a bounded     *)
(* segmenter.                                                              *)
(***************************************************************************)
EXTENDS Segmentation, VisibleText

CONSTANTS
    Cases,       \* the captured files, each with the pipeline it goes through
    Readers,     \* versions of the installed readers; None is also possible
    Answers,     \* what recognition may answer for a page
    MaxAnswers,  \* bound on the answers for one file
    MaxUpgrades  \* bound on the changes of the installed readers

\* What OcrExtractor accepts: no page selection, or distinct positive pages.
ASSUME PagesAssumption ==
    \A c \in Cases : c.setup.pages # None => /\ c.setup.pages # <<>>
                                             /\ IsInjective(c.setup.pages)
                                             /\ \A i \in DOMAIN c.setup.pages : c.setup.pages[i] >= 1

\* The characters recognition may answer, and those its pages are joined with.
Characters == {"cont", "lf", "ff"} \cup UNION {ToSet(x.text) : x \in Answers}
Digests == {c.file.digest : c \in Cases}

\* Recognition answers text for a number, and None is not what it is made into.
ASSUME AnswersAssumption ==
    /\ \A x \in Answers : x.text \in Seq(Characters) /\ x.page \in Int
    /\ None \notin [kind : {"pdf-text"}, content : Seq(Characters), source : Digests,
                    mappings : Seq([from : Nat, to : Nat, how : {"recognition"},
                                    evidence : [source : Digests, start : {None}, end : {None}, page : Int]])]

VARIABLES
    file, setup,
    pinned,     \* the reader the extractors and segmenters were made with
    installed,  \* the reader whose files are installed now
    upgrades,
    loaded,     \* the reader this process has imported, or None
    slipped,    \* history: a check has not spoken, or may not speak, of the code in use
    stage,      \* "captured" "planned" "reading" "recognizing" "extracted" "cut" "slicing" "bounding"
                \* "segmented" "checked" "failed"
    identity,   \* the reader version named by each stage's definition
    checked,    \* the installed version that each stage's producer found
    readBy,     \* the reader version that each stage really used
    pages,      \* the answers of recognition that were taken
    evidence,   \* what is retained beside the representation
    rep,        \* the representation
    segments,
    check       \* the last reload

fixed == <<file, setup, pinned>>
readers == <<installed, upgrades, loaded, slipped>>
named == <<identity, checked, readBy>>
evars == <<fixed, readers, stage, named, pages, evidence, rep, segments, check>>

(***************************************************************************)
(* Bytes.                                                                  *)
(***************************************************************************)
Encode(t) == FlattenSeq([i \in DOMAIN t |-> IF Width(t[i]) = 2 THEN <<t[i], "cont">> ELSE <<t[i]>>])

(* decode_utf8                                                             *)
Decodes(b) ==
    \A i \in DOMAIN b : /\ b[i] # "bad"
                        /\ Width(b[i]) = 2 <=> (i < Len(b) /\ b[i + 1] = "cont")
                        /\ b[i] = "cont" => i > 1
Decode(b) == SelectSeq(b, LAMBDA x : x # "cont")

(***************************************************************************)
(* Representations and their evidence.                                     *)
(***************************************************************************)
Mapping(from, to, how, start, end, page) ==
    [from |-> from, to |-> to, how |-> how,
     evidence |-> [source |-> file.digest, start |-> start, end |-> end, page |-> page]]

(* Representation.__post_init__, with EvidenceMapping and EvidenceCoordinate *)
WellMapped(r) ==
    \A i \in DOMAIN r.mappings :
        LET m == r.mappings[i] e == m.evidence IN
        /\ (IF i = 1 THEN 0 ELSE r.mappings[i - 1].to) <= m.from
        /\ m.from <= m.to /\ m.to <= Len(r.content)
        /\ e.source = r.source
        /\ (e.start = None) = (e.end = None)
        /\ e.start # None => e.start \in 0..e.end
        /\ m.how = "identity" => e.start # None /\ e.end - e.start = m.to - m.from

(* resolve_evidence_mapping                                                *)
ResolveMapping(m, from, to) ==
    IF m.how = "identity"
    THEN [m.evidence EXCEPT !.start = @ + from - m.from, !.end = m.evidence.start + to - m.from]
    ELSE IF from = m.from /\ to = m.to THEN m.evidence ELSE None

(* Representation.evidence_for_range: the first mapping that holds it.     *)
EvidenceForRange(r, from, to) ==
    LET holding == {i \in DOMAIN r.mappings : r.mappings[i].from <= from /\ to <= r.mappings[i].to} IN
    IF ~(0 <= from /\ from <= to /\ to <= Len(r.content)) \/ holding = {} THEN None
    ELSE ResolveMapping(r.mappings[Min(holding)], from, to)

(* Pages joined by a separator, with a mapping each: the loops of          *)
(* LazyPypdfExtractor.extract and OcrExtractor.extract.                    *)
Separator == <<"lf", "ff", "lf">>
PageContent(texts) ==
    FlattenSeq([i \in DOMAIN texts |-> IF i = 1 THEN Encode(texts[1]) ELSE Separator \o Encode(texts[i])])

(* Variant: the separators are not counted.                                *)
PageMappingsClose(texts, numbers, how) ==
    [i \in DOMAIN texts |->
        LET before == Len(FlattenSeq([j \in 1..(i - 1) |-> Encode(texts[j])])) IN
        Mapping(before, before + Len(Encode(texts[i])), how, None, None, numbers[i])]

PageMappings(texts, numbers, how) ==
    [i \in DOMAIN texts |->
        LET before == IF i = 1 THEN 0 ELSE Len(PageContent(SubSeq(texts, 1, i - 1)) \o Separator) IN
        Mapping(before, before + Len(Encode(texts[i])), how, None, None, numbers[i])]

(* _block_mappings                                                         *)
BlockMappings(v) ==
    [i \in DOMAIN v.blocks |->
        LET span == RenditionRange(file.doc, v, v.blocks[i].from, v.blocks[i].to) IN
        Mapping(v.blocks[i].from, v.blocks[i].to, "block", span[1], span[2], None)]

(***************************************************************************)
(* What a mapping resolves to, by its transformation.  None is a refusal.  *)
(***************************************************************************)
Observed == IF evidence = <<>> \/ Last(evidence).label # "observations" THEN <<>> ELSE Last(evidence).pages

(* The evidence_resolver methods of the PDF, OCR and visible-text          *)
(* extractors.                                                             *)
ResolvePage(m) ==
    IF installed # pinned \/ file.pages = None \/ m.evidence.page > Len(file.pages) THEN None
    ELSE [bytes |-> Encode(file.pages[m.evidence.page])]

ResolveObserved(m, source) ==
    LET found == {i \in DOMAIN Observed : Observed[i].page = m.evidence.page} IN
    IF found = {} \/ source # file.digest THEN None ELSE [bytes |-> Encode(Observed[Max(found)].text)]

ResolveBlock(m, source) ==
    LET v == LayOut(file.doc) IN
    IF installed # pinned \/ source # file.bytes \/ m \notin ToSet(BlockMappings(v)) THEN None
    ELSE [bytes |-> Slice(v.content, m.from, m.to)]

Derived(m, source) ==
    CASE m.how = "page" -> ResolvePage(m)
      [] m.how = "recognition" -> ResolveObserved(m, source)
      [] m.how = "block" -> ResolveBlock(m, source)

(* verify_representation_mapping                                           *)
VerifyMapping(m, output, source) ==
    IF m.how = "identity"
    THEN m.evidence.end <= Len(source) /\ Slice(source, m.evidence.start, m.evidence.end) = output
    ELSE Derived(m, source) # None /\ Derived(m, source).bytes = output

(* verify_representation_evidence                                          *)
VerifyEvidence(r, source) ==
    /\ source = r.source
    /\ \A i \in DOMAIN r.mappings :
           /\ r.mappings[i].evidence.source = r.source
           /\ VerifyMapping(r.mappings[i], Slice(r.content, r.mappings[i].from, r.mappings[i].to), source)

(***************************************************************************)
(* The extractors.  None is a refusal.                                     *)
(***************************************************************************)
IsMarkup(m) == (m.sub = "xml" /\ m.top \in {"application", "text"}) \/ m.suffix = "xml"

(* DefaultExtractorRegistry._select                                        *)
Route(m) ==
    CASE m.top = "text" /\ m.sub = "html" -> "html"
      [] IsMarkup(m) -> "xml"
      [] (m.top = "application" /\ m.sub = "json") \/ m.suffix = "json" -> "json"
      [] m.top = "application" /\ m.sub = "pdf" -> "pdf"
      [] m.top = "image" -> "image"
      [] m.top = "text" -> "text"
      [] OTHER -> "none"

(* The extractor of the file, and whether it uses an installed reader.     *)
Extractor ==
    CASE setup.extractor = "visible" ->
           IF Route(file.media) \in {"html", "xml"} THEN "visible" ELSE "none"
      [] setup.extractor = "ocr" ->
           IF Route(file.media) = "pdf" \/ file.media.top = "image" THEN "ocr" ELSE "none"
      [] OTHER -> Route(file.media)
Reads(extractor) == extractor \notin {"text", "ocr"}

(* require_reader_identity                                                 *)
ReaderCurrent == pinned # None /\ installed = pinned

Representing(kind, content, mappings) ==
    [kind |-> kind, content |-> content, mappings |-> mappings, source |-> file.digest]

(* What each source-native extractor requires of the bytes.                *)
Readable(kind) ==
    CASE kind = "text" -> Decodes(file.bytes)
      [] kind = "html" -> file.doc # None
      [] kind = "xml" -> Decodes(file.bytes) /\ file.doc # None
      [] kind = "json" -> file.records # None
      [] kind = "image" -> TRUE

(* _passthrough_result                                                     *)
PassThrough(kind) ==
    LET r == Representing(kind, file.bytes, <<Mapping(0, Len(file.bytes), "identity", 0, Len(file.bytes), None)>>) IN
    IF Readable(kind) /\ file.bytes = file.digest /\ WellMapped(r) /\ VerifyEvidence(r, file.bytes) THEN r ELSE None

(* LazyPypdfExtractor.extract                                              *)
ExtractPdf ==
    LET r == Representing("pdf-text", PageContent(file.pages),
                          PageMappings(file.pages, [i \in DOMAIN file.pages |-> i], "page")) IN
    IF file.bytes = file.digest /\ file.pages # None /\ WellMapped(r) /\ VerifyEvidence(r, file.bytes) THEN r ELSE None

(* VisibleTextExtractor._read and extract                                  *)
ExtractVisible ==
    LET v == LayOut(file.doc)
        r == Representing("visible-text", v.content, BlockMappings(v)) IN
    IF file.bytes = file.digest /\ Decodes(file.bytes) /\ file.doc # None /\ v.blocks # <<>> /\ WellMapped(r)
    THEN r ELSE None

Extracted(extractor) ==
    CASE extractor = "pdf" -> ExtractPdf
      [] extractor = "visible" -> ExtractVisible
      [] OTHER -> PassThrough(extractor)

(***************************************************************************)
(* The pipeline.                                                           *)
(***************************************************************************)
IdleSegmentation ==
    /\ job = None /\ phase = "idle"
    /\ windows = <<>> /\ tile = None /\ regions = <<>> /\ at = 1
    /\ stack = <<>> /\ epoch = 0 /\ leaf = 0 /\ units = <<>> /\ held = <<>>
    /\ group = None /\ groups = <<>> /\ result = None

ExtractInit ==
    /\ \E c \in Cases : file = c.file /\ setup = c.setup
    /\ pinned \in Readers \cup {None} /\ installed = pinned /\ upgrades = 0
    /\ loaded \in Readers \cup {None} /\ slipped = (loaded \notin {None, pinned})
    /\ stage = "captured"
    /\ identity = [extract |-> None, segment |-> None]
    /\ checked = identity /\ readBy = identity
    /\ pages = <<>> /\ evidence = <<>> /\ rep = None /\ segments = None /\ check = None

(* The import inside a producer: a module the process has is not read      *)
(* again.                                                                  *)
Code == IF loaded # None THEN loaded ELSE installed

Fail ==
    /\ stage' = "failed"
    /\ UNCHANGED <<fixed, readers, named, pages, rep, segments, check, vars>>

(* DocumentPipeline._extract_call: selected_identity names the result.     *)
PlanExtract ==
    /\ stage = "captured"
    /\ IF Extractor = "none" \/ (Reads(Extractor) /\ ~ReaderCurrent)
       THEN Fail /\ UNCHANGED evidence
       ELSE /\ stage' = "planned"
            /\ identity' = [identity EXCEPT !.extract = IF Reads(Extractor) THEN pinned ELSE None]
            /\ UNCHANGED <<fixed, readers, checked, readBy, pages, evidence, rep, segments, check, vars>>

(* The producer of the call: the extractor checks its reader again.        *)
PerformExtract ==
    /\ stage = "planned" /\ Extractor # "ocr"
    /\ IF Reads(Extractor) /\ ~ReaderCurrent THEN Fail /\ UNCHANGED evidence
       ELSE /\ stage' = "reading"
            /\ checked' = [checked EXCEPT !.extract = IF Reads(Extractor) THEN installed ELSE None]
            /\ UNCHANGED <<fixed, readers, identity, readBy, pages, evidence, rep, segments, check, vars>>

(* Then it imports the reader and reads the file.                          *)
ReadFile ==
    /\ stage = "reading"
    /\ IF (Reads(Extractor) /\ Code = None) \/ Extracted(Extractor) = None
       THEN Fail /\ UNCHANGED evidence
       ELSE /\ stage' = "extracted"
            /\ rep' = Extracted(Extractor)
            /\ loaded' = IF Reads(Extractor) THEN Code ELSE loaded
            /\ readBy' = [readBy EXCEPT !.extract = IF Reads(Extractor) THEN Code ELSE None]
            /\ UNCHANGED <<fixed, installed, upgrades, slipped, identity, checked, pages, evidence, segments, check, vars>>

(***************************************************************************)
(* Recognition: OcrExtractor.extract.                                      *)
(***************************************************************************)
StartRecognition ==
    /\ stage = "planned" /\ Extractor = "ocr"
    /\ IF file.bytes # file.digest THEN Fail /\ UNCHANGED evidence
       ELSE /\ stage' = "recognizing"
            /\ UNCHANGED <<fixed, readers, named, pages, evidence, rep, segments, check, vars>>

\* Bytes the answer carries are kept as items of their own.
Carried(x) == IF x.carries \in {"bytes", "both"} THEN <<[label |-> "bytes", pages |-> <<>>]>> ELSE <<>>

(* Variant: what was taken so far is lost with the failure.                *)
FailRecognitionBare(found) == Fail /\ UNCHANGED evidence

(* The handler of a failure: what was taken so far is retained with it, by *)
(* the producer of the extraction call.                                    *)
FailRecognition(found) ==
    /\ evidence' = found \o <<[label |-> "failure", pages |-> pages]>>
    /\ Fail

Acceptable(x) ==
    /\ x.page >= 1 /\ \A i \in DOMAIN pages : pages[i].page # x.page
    /\ x.count >= 1 /\ x.page <= x.count
    /\ x.source = file.digest

TakePage(x) ==
    /\ stage = "recognizing" /\ Len(pages) < MaxAnswers
    /\ IF ~Acceptable(x) THEN FailRecognition(evidence)
       ELSE IF x.carries \in {"object", "both"} THEN FailRecognition(evidence \o Carried(x))
       ELSE /\ pages' = Append(pages, x)
            /\ evidence' = evidence \o Carried(x)
            /\ UNCHANGED <<fixed, readers, stage, named, rep, segments, check, vars>>

(* External: recognition fails, with details that may carry bytes.         *)
RecognitionFails(x) == stage = "recognizing" /\ FailRecognition(evidence \o Carried(x))

AllRecognized ==
    /\ pages # <<>>
    /\ [i \in DOMAIN pages |-> pages[i].page]
         = (IF setup.pages # None THEN setup.pages ELSE [i \in 1..pages[1].count |-> i])
    /\ \A i \in DOMAIN pages : pages[i].count = pages[1].count

EndRecognition ==
    /\ stage = "recognizing"
    /\ LET texts == [i \in DOMAIN pages |-> pages[i].text]
           r == Representing("pdf-text", PageContent(texts),
                             PageMappings(texts, [i \in DOMAIN pages |-> pages[i].page], "recognition")) IN
       IF ~AllRecognized \/ ~WellMapped(r) THEN FailRecognition(evidence)
       ELSE /\ stage' = "extracted"
            /\ rep' = r
            /\ evidence' = evidence \o <<[label |-> "observations", pages |-> pages]>>
            /\ UNCHANGED <<fixed, readers, named, pages, segments, check, vars>>

(***************************************************************************)
(* Segmenters.                                                             *)
(***************************************************************************)
(* DefaultSegmenterRegistry._select, or the block segmenter alone.         *)
Segmenter ==
    CASE setup.segmenter = "blocks" -> IF rep.kind = "visible-text" THEN "blocks" ELSE "none"
      [] setup.segmenter = "bounded" /\ rep.kind \in {"text", "html", "xml"} -> "bounded"
      [] rep.kind \in {"text", "html", "xml"} -> "paragraph"
      [] rep.kind = "pdf-text" -> "page"
      [] rep.kind = "json" -> "record"
      [] rep.kind = "image" -> "whole-image"
      [] OTHER -> "none"

(* _trim_char_range and _paragraph_char_ranges                             *)
Trimmed(t, s, e) ==
    LET text == {p \in s..(e - 1) : t[p + 1] \notin Spaces} IN
    IF text = {} THEN <<>> ELSE <<<<Min(text), Max(text) + 1>>>>

ParagraphRanges(t) ==
    LET after[s \in 0..Len(t)] ==
            LET gaps == FirstGap(t, s, Len(t))
                gap == CHOOSE g \in gaps : TRUE IN
            IF gaps = {} THEN Trimmed(t, s, Len(t)) ELSE Trimmed(t, s, gap[1]) \o after[gap[2]]
    IN after[0]

(* build_segment                                                           *)
BuildSegment(span) ==
    [from |-> span[1], to |-> span[2], content |-> Slice(rep.content, span[1], span[2]),
     evidence |-> EvidenceForRange(rep, span[1], span[2])]

(* The spans each segmenter cuts; None is a refusal.                       *)
MappingSpans == [i \in DOMAIN rep.mappings |-> <<rep.mappings[i].from, rep.mappings[i].to>>]

ParagraphCuts ==
    IF ~Decodes(rep.content) THEN None
    ELSE LET t == Decode(rep.content)
             ranges == ParagraphRanges(t) IN
         [i \in DOMAIN ranges |-> <<Offsets(t)[ranges[i][1]], Offsets(t)[ranges[i][2]]>>]

PageCuts ==
    IF \E i \in DOMAIN rep.mappings : \/ rep.mappings[i].how \notin {"page", "recognition"}
                                      \/ rep.mappings[i].evidence.page = None
    THEN None ELSE MappingSpans

BlockCuts ==
    IF \E i \in DOMAIN rep.mappings : \/ rep.mappings[i].how # "block"
                                      \/ rep.mappings[i].evidence.start = None
                                      \/ rep.mappings[i].evidence.page # None
    THEN None ELSE MappingSpans

RecordCuts == file.records
WholeImageCuts == <<<<0, Len(rep.content)>>>>

Cuts(segmenter) ==
    CASE segmenter = "paragraph" -> ParagraphCuts
      [] segmenter = "page" -> PageCuts
      [] segmenter = "record" -> RecordCuts
      [] segmenter = "whole-image" -> WholeImageCuts
      [] segmenter = "blocks" -> BlockCuts

(* DocumentPipeline._segment_call: the segmenter's identity.               *)
PlanSegment ==
    /\ stage = "extracted"
    /\ IF Segmenter = "none" \/ (Segmenter = "record" /\ ~ReaderCurrent)
       THEN Fail /\ UNCHANGED evidence
       ELSE /\ stage' = "cut"
            /\ identity' = [identity EXCEPT !.segment = IF Segmenter = "record" THEN pinned ELSE None]
            /\ UNCHANGED <<fixed, readers, checked, readBy, pages, evidence, rep, segments, check, vars>>

(* The producer: the record segmenter checks its reader again.             *)
PerformSegment ==
    /\ stage = "cut" /\ Segmenter # "bounded"
    /\ IF Segmenter = "record" /\ ~ReaderCurrent THEN Fail /\ UNCHANGED evidence
       ELSE /\ stage' = "slicing"
            /\ checked' = [checked EXCEPT !.segment = IF Segmenter = "record" THEN installed ELSE None]
            /\ UNCHANGED <<fixed, readers, identity, readBy, pages, evidence, rep, segments, check, vars>>

CutSegments ==
    /\ stage = "slicing"
    /\ LET cuts == Cuts(Segmenter)
           built == [i \in DOMAIN cuts |-> BuildSegment(cuts[i])] IN
       IF \/ Segmenter = "record" /\ Code = None
          \/ cuts = None
          \/ \E i \in DOMAIN built : built[i].evidence = None
       THEN Fail /\ UNCHANGED evidence
       ELSE /\ stage' = "segmented"
            /\ segments' = built
            /\ loaded' = IF Segmenter = "record" THEN Code ELSE loaded
            /\ readBy' = [readBy EXCEPT !.segment = IF Segmenter = "record" THEN Code ELSE None]
            /\ UNCHANGED <<fixed, installed, upgrades, slipped, identity, checked, pages, evidence, rep, check, vars>>

(* BoundedSegmenter.segment_bounded: the text and its mappings go to the   *)
(* steps of Segmentation, and its spans come back as segments.             *)
StartBounded ==
    /\ stage = "cut" /\ Segmenter = "bounded"
    /\ IF ~Decodes(rep.content) THEN Fail /\ UNCHANGED evidence
       ELSE /\ stage' = "bounding"
            /\ job' = [kind |-> rep.kind, text |-> Decode(rep.content), counter |-> setup.counter,
                       max |-> setup.max, min |-> setup.min, overlap |-> setup.overlap,
                       mappings |-> [i \in DOMAIN rep.mappings |->
                           [from |-> rep.mappings[i].from, to |-> rep.mappings[i].to,
                            identity |-> rep.mappings[i].how = "identity"]]]
            /\ phase' = "begin"
            /\ UNCHANGED <<at, Tiling, Cutting, Packing, result>>
            /\ UNCHANGED <<fixed, readers, named, pages, evidence, rep, segments, check>>

EndBounded ==
    /\ stage = "bounding" /\ phase \in {"done", "refused"}
    /\ IF phase = "refused" THEN Fail /\ UNCHANGED evidence
       ELSE /\ stage' = "segmented"
            /\ segments' = [i \in DOMAIN result.spans |-> BuildSegment(<<result.spans[i].from, result.spans[i].to>>)]
            /\ UNCHANGED <<fixed, readers, named, pages, evidence, rep, check, vars>>

\* A stage has checked the installed files and is to import or use the reader.
Importing ==
    \/ stage = "reading" /\ Reads(Extractor)
    \/ stage = "slicing" /\ Segmenter = "record"

(* External: another version of the readers is installed, or none.         *)
Upgrade ==
    /\ upgrades < MaxUpgrades /\ stage \notin {"failed", "checked"}
    /\ upgrades' = upgrades + 1
    /\ installed' \in (Readers \cup {None}) \ {installed}
    /\ slipped' = (slipped \/ (Importing /\ loaded = None))
    /\ UNCHANGED <<fixed, loaded, stage, named, pages, evidence, rep, segments, check, vars>>

(***************************************************************************)
(* A segment is reloaded, perhaps altered, and checked against what the    *)
(* representation says of it and against the captured file.                *)
(***************************************************************************)
(* verify_segment_representation                                           *)
VerifySegment(seg) ==
    /\ seg.to <= Len(rep.content)
    /\ seg.content = Slice(rep.content, seg.from, seg.to)
    /\ EvidenceForRange(rep, seg.from, seg.to) # None
    /\ seg.evidence = EvidenceForRange(rep, seg.from, seg.to)

\* Alterations that keep the record a Segment: its size is that of its content.
Shifted(seg) == [seg EXCEPT !.from = @ + 1, !.to = @ + 1]
Cut(seg) == [seg EXCEPT !.to = @ - 1, !.content = Front(@)]
Replaced(seg) == [seg EXCEPT !.content = Append(Front(@), "bad")]
Relocated(seg) == [seg EXCEPT !.evidence = IF @.start # None THEN [@ EXCEPT !.start = @ + 1]
                                           ELSE [@ EXCEPT !.page = @ + 1]]
Altered(seg) ==
    {seg, Shifted(seg), Relocated(seg)}
    \cup (IF seg.content = <<>> THEN {} ELSE {Cut(seg), Replaced(seg)})

(* verify_segment_evidence                                                 *)
Reload ==
    /\ stage = "segmented"
    /\ \E i \in DOMAIN segments : \E seg \in Altered(segments[i]) : \E source \in {file.bytes, Append(file.bytes, "bad")} :
           check' = [seg |-> seg, same |-> seg = segments[i] /\ source = file.bytes,
                     accepted |-> VerifySegment(seg) /\ VerifyEvidence(rep, source)]
    /\ stage' = "checked"
    /\ UNCHANGED <<fixed, readers, named, pages, evidence, rep, segments, vars>>

ExtractNext ==
    \/ Upgrade
    \/ PlanExtract \/ PerformExtract \/ ReadFile
    \/ StartRecognition \/ (\E x \in Answers : TakePage(x) \/ RecognitionFails(x)) \/ EndRecognition
    \/ PlanSegment \/ PerformSegment \/ CutSegments
    \/ StartBounded \/ (stage = "bounding" /\ Next /\ UNCHANGED evars) \/ EndBounded
    \/ Reload

ExtractSpec == ExtractInit /\ IdleSegmentation /\ [][ExtractNext]_<<evars, vars>>

(***************************************************************************)
(* Properties.                                                             *)
(***************************************************************************)
Requested == IF setup.pages # None THEN setup.pages ELSE [i \in 1..pages[1].count |-> i]

\* The text that the captured file, or the answer of recognition, has where evidence e points.
Shown(e) ==
    CASE e.page = None -> Slice(file.bytes, e.start, e.end)
      [] e.page # None /\ Extractor = "ocr" ->
           Encode(pages[CHOOSE i \in DOMAIN pages : pages[i].page = e.page].text)
      [] OTHER -> Encode(file.pages[e.page])

\* The words of the events of a document that lie between two bytes and are not suppressed.
WordsShown(doc, start, end) ==
    FlattenSeq([k \in DOMAIN Showing(doc) |->
        LET i == Showing(doc)[k] IN
        IF start <= EventStart(doc, i) /\ EventStart(doc, i) + doc.events[i].size <= end
        THEN Words(doc.events[i].text) ELSE <<>>])

\* The elements of s are among those of t, in order.
Within(s, t) == FoldLeft(LAMBDA n, x : IF n < Len(s) /\ s[n + 1] = x THEN n + 1 ELSE n, 0, t) = Len(s)

Visible == rep # None /\ rep.kind = "visible-text"

\* A segment says what its evidence shows.
Honest(seg) ==
    IF Visible THEN Within(Words(seg.content), WordsShown(file.doc, seg.evidence.start, seg.evidence.end))
    ELSE seg.content = Shown(seg.evidence)

\* Every segment, and every reloaded segment the reader accepts, says what the captured file has
\* at the place its evidence names; and a segment that nobody altered is accepted while the
\* readers are those it was made with (verify_segment_evidence, build_segment).
EvidenceHonest ==
    /\ segments # None => \A i \in DOMAIN segments : Honest(segments[i])
    /\ check # None => /\ check.accepted => Honest(check.seg)
                       /\ check.same /\ installed = pinned => check.accepted

\* The blocks of an HTML or XML file hold the words of the file that are not suppressed, in
\* order: none twice, none out of order and, if every element is closed, none missing, in all
\* and within the bytes each block names (_parse_html, _walk_blocks, _lay_out).
BlocksExact ==
    Visible =>
        LET all == WordsShown(file.doc, 0, Len(file.bytes))
            texts == [i \in DOMAIN rep.mappings |->
                         Words(Slice(rep.content, rep.mappings[i].from, rep.mappings[i].to))] IN
        /\ Words(rep.content) = FlattenSeq(texts)
        /\ Within(Words(rep.content), all)
        /\ WellNested(file.doc) =>
               /\ Words(rep.content) = all
               /\ \A i \in DOMAIN texts :
                      texts[i] = WordsShown(file.doc, rep.mappings[i].evidence.start, rep.mappings[i].evidence.end)

\* Any interval of the visible text resolves to bytes of the file: within it, in order, and to
\* the very same bytes when the interval lies in text the file holds as it is
\* (TextRun.resolve, VisibleText.rendition_range).
RangesSound ==
    Visible =>
        LET v == LayOut(file.doc) IN
        \A from \in 0..(Len(v.content) - 1) : \A to \in (from + 1)..Len(v.content) :
            Touched(v, from, to) # <<>> =>
                LET range == RenditionRange(file.doc, v, from, to) IN
                /\ 0 <= range[1] /\ range[1] < range[2] /\ range[2] <= Len(file.bytes)
                /\ \A i \in DOMAIN v.runs :
                       v.runs[i].exact /\ v.runs[i].from <= from /\ to <= v.runs[i].to
                         => Slice(file.bytes, range[1], range[2]) = Slice(v.content, from, to)

\* The paragraphs of a text: every character that is not white space is in exactly one, in
\* order; no blank line is inside one, and one is between any two (_paragraph_char_ranges).
ParagraphsExact ==
    stage \in {"segmented", "checked"} /\ Segmenter = "paragraph" =>
        LET t == Decode(rep.content)
            char(b) == CHOOSE p \in 0..Len(t) : Offsets(t)[p] = b
            spans == [i \in DOMAIN segments |-> <<char(segments[i].from), char(segments[i].to)>>]
            gap(s, e) == \E i \in s..e : \E j \in i..e : IsGap(Slice(t, i, j)) IN
        /\ \A p \in 0..(Len(t) - 1) :
               t[p + 1] \notin Spaces => Cardinality({i \in DOMAIN spans : p \in spans[i][1]..(spans[i][2] - 1)}) = 1
        /\ \A i \in DOMAIN spans :
               /\ ~gap(spans[i][1], spans[i][2])
               /\ t[spans[i][1] + 1] \notin Spaces /\ t[spans[i][2]] \notin Spaces
               /\ i > 1 => spans[i - 1][2] < spans[i][1] /\ gap(spans[i - 1][2], spans[i][1])

\* Recognition gives a representation of all the requested pages in their order or none; and
\* whether it does or fails at any page, what was answered until then is retained, once, marked
\* complete or not, with all the bytes it carried (OcrExtractor.extract).
RecognitionKept ==
    stage \notin {"none", "captured", "planned", "reading", "recognizing"} /\ Extractor = "ocr" =>
        LET manifests == {i \in DOMAIN evidence : evidence[i].label # "bytes"} IN
        /\ pages # <<>> => manifests = {Len(evidence)} /\ Last(evidence).pages = pages
        /\ Cardinality(DOMAIN evidence \ manifests) >= Cardinality({i \in DOMAIN pages : pages[i].carries = "bytes"})
        /\ rep # None => /\ Last(evidence).label = "observations"
                         /\ [i \in DOMAIN pages |-> pages[i].page] = Requested
                         /\ [i \in DOMAIN rep.mappings |-> rep.mappings[i].evidence.page] = Requested
        /\ rep = None /\ manifests # {} => Last(evidence).label = "failure"

\* What a stage's result is kept under is the reader whose files were installed when its
\* producer began, however often they are replaced after the stage was planned.  It is also
\* the reader that made the result, unless the process had imported another one before or the
\* files were replaced between the check and the first import (require_reader_identity).
ReaderPinned ==
    /\ rep # None => checked.extract = identity.extract
    /\ segments # None => checked.segment = identity.segment
    /\ ~slipped => /\ rep # None => readBy.extract = identity.extract
                   /\ segments # None => readBy.segment = identity.segment

\* The visible text of a document and the ranges read back from it: words, byte ranges and
\* paragraphs are those of the file.
TextExact == BlocksExact /\ RangesSound /\ ParagraphsExact

\* Everything kept from a document names evidence that reads back to it, and the reader that
\* was installed and, as far as a check of files can tell, made it.
ExtractionHonest == EvidenceHonest /\ ReaderPinned
=============================================================================
