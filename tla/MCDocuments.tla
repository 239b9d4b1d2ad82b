----------------------------- MODULE MCDocuments -----------------------------
(***************************************************************************)
(* Segmentation alone: all texts of at most four characters, and texts of  *)
(* three pieces: prose, headings of three levels and sentences, joined by  *)
(* four kinds of line end.  Counters of characters and of words; one that  *)
(* prices a slice of a text above every budget; texts cut into two         *)
(* mappings at every byte, and mappings that leave bytes out.              *)
(*                                                                         *)
(* Pipelines: all HTML files of at most three events, nested and           *)
(* suppressed ones that are longer, XML files, texts, pages, records,      *)
(* images and files that cannot be read, each from capture to a reloaded   *)
(* segment.                                                                *)
(*                                                                         *)
(* Acquisitions over three versions of an object, and two writers of one   *)
(* blob.  Each component runs from its own initial states.                 *)
(***************************************************************************)
EXTENDS Extraction, Transfers, Blobs, TLC

CONSTANTS u1, u2, u3, w1, w2, m1, m2

VARIABLE part   \* the component this behaviour is about

ByCharacter == [unit |-> "characters", expensive |-> None, cost |-> 0]
ByWord == [unit |-> "words", expensive |-> None, cost |-> 0]

ByteSize(t) == FoldLeft(LAMBDA n, c : n + Width(c), 0, t)

Job(t, ms, c, s) ==
    [kind |-> "text", text |-> t, mappings |-> ms, counter |-> c, max |-> s[1], min |-> s[2], overlap |-> s[3]]

Identity(f, e) == [from |-> f, to |-> e, identity |-> TRUE]
WholeText(t) == <<Identity(0, ByteSize(t))>>

Settings == {<<2, 1, 1>>, <<3, 2, 1>>, <<4, 1, 2>>}

Short == BoundedSeq({"a", "e", "sp", "lf", "hash"}, 4)

Prose == <<"a", "sp", "e", "dot", "sp", "a", "a", "lf", "a">>
Pieces == {<<"a">>, <<"e", "sp", "a">>, <<"hash", "sp", "a">>, <<"hash", "hash", "sp", "e">>,
           <<"hash", "a", "nb", "dot">>, Prose}
LineEnds == {<<"lf">>, <<"lf", "lf">>, <<"cr", "lf", "sp", "cr", "lf">>, <<"lf", "sp", "lf", "lf">>}

Joined == {p \o g \o q \o g \o r : p, q, r \in Pieces, g \in LineEnds}

Mapped == <<"hash", "sp", "a", "lf", "lf", "e", "sp", "a", "lf", "lf", "a", "e", "a", "a">>

MCJobs ==
    {Job(t, WholeText(t), c, s) : t \in Short \cup Joined, c \in {ByCharacter, ByWord}, s \in Settings}
    \cup {Job(Mapped, <<Identity(0, b), Identity(b + d, ByteSize(Mapped))>>, c, <<3, 1, 1>>) :
            b \in 0..(ByteSize(Mapped) - 1), d \in {0, 1}, c \in {ByCharacter, ByWord}}
    \cup {Job(Prose, WholeText(Prose), [unit |-> "characters", expensive |-> Slice(Prose, f, e), cost |-> 9], s) :
            f \in 0..5, e \in 6..9, s \in Settings}
    \cup {Job(Prose, <<[Identity(0, ByteSize(Prose)) EXCEPT !.identity = FALSE]>>, ByWord, <<3, 1, 1>>),
          [Job(Prose, WholeText(Prose), ByWord, <<3, 1, 1>>) EXCEPT !.kind = "json"]}

-----------------------------------------------------------------------------
\* Markup.

MCVoidTags == {"br"}
MCSuppressedTags == {"head", "script"}
MCHeadingLevels == [x \in {"h1", "HD"} |-> IF x = "h1" THEN 1 ELSE 2]

Open(n) == [kind |-> "start", name |-> n, key |-> n, text |-> <<>>, size |-> 2]
Close(n) == [kind |-> "end", name |-> n, key |-> n, text |-> <<>>, size |-> 2]
Empty(n) == [kind |-> "empty", name |-> n, key |-> n, text |-> <<>>, size |-> 1]
Text(t, n) == [kind |-> "text", name |-> "text", key |-> "text", text |-> t, size |-> n]
A == Text(<<"a">>, 1)
B == Text(<<"sp", "b", "sp", "sp", "c">>, 5)
C == Text(<<"d">>, 3)      \* written with a reference
D == Text(<<"lf">>, 1)
Inside(n, s) == <<Open(n)>> \o s \o <<Close(n)>>

Html(es) == [format |-> "html", events |-> es]
Xml(es) == [format |-> "xml", events |-> es]

HtmlFiles ==
    {Html(es) : es \in BoundedSeq({Open("p"), Close("p"), Open("h1"), Open("script"), Close("script"), Open("br"), A, B}, 3)}
    \cup {Html(Inside("body", x \o y)) :
             x \in {Inside("h1", <<B, C>>), Inside("p", <<A>> \o Inside("b", <<C>>) \o <<B>>), Inside("head", <<A>>)},
             y \in {Inside("p", <<D, B>>), Inside("script", <<A>> \o Inside("script", <<C>>) \o <<A>>) \o <<B>>,
                    Inside("p", <<Open("br"), A, D, C>>), <<Open("script"), Open("p"), A, Close("script"), B, Close("p")>>,
                    <<Open("p"), A, Open("p"), C, Close("body"), B>>}}

XmlFiles ==
    {Xml(Inside("R", x \o <<D>> \o y)) :
        x \in {Inside("HD", <<B, C>>), Inside("P", <<A, D, C>> \o <<Empty("Q")>> \o <<B>>), <<>>},
        y \in {Inside("P", <<B>> \o Inside("E", <<C, A>>)), Inside("S", Inside("HD", <<D, A>>) \o Inside("P", <<C>>)), <<C, B>>}}

-----------------------------------------------------------------------------
\* Files and pipelines.

MediaType(top, sub, suffix) == [top |-> top, sub |-> sub, suffix |-> suffix]
HtmlMedia == MediaType("text", "html", "none")
XmlMedia == MediaType("application", "xml", "none")
Pdf == MediaType("application", "pdf", "none")

File(m, b) == [media |-> m, bytes |-> b, digest |-> b, doc |-> None, pages |-> None, records |-> None]
Markup(m, d) == [File(m, SourceBytes(d)) EXCEPT !.doc = d]

Plain == {<<"a", "sp", "lf", "sp", "lf", "e", "lf", "b">>, <<"lf", "lf", "lf", "e", "cr", "lf", "cr", "lf", "a", "sp">>,
          <<"hash", "sp", "a", "lf", "lf", "e", "sp", "a", "a">>, <<"sp", "lf">>, <<>>}
TextFiles == {File(MediaType("text", "plain", "none"), Encode(t)) : t \in Plain}

PdfFiles == {[File(Pdf, <<"pdf">>) EXCEPT !.pages = p] :
                p \in {None, <<>>, <<<<"a">>, <<>>, <<"e", "b">>>>, <<<<>>, <<"a">>>>}}

JsonFiles == {[File(MediaType("application", "json", "none"), <<"mark", "a", "mark", "b", "mark">>) EXCEPT !.records = r] :
                 r \in {None, <<<<1, 2>>, <<3, 4>>>>}}

Scan == File(MediaType("image", "png", "none"), <<"png", "bad">>)
Drawing == Markup(MediaType("image", "svg", "xml"), Xml(Inside("R", <<A>>)))
Damaged == {[File(MediaType("text", "plain", "none"), b) EXCEPT !.digest = d] :
               b \in {<<"a">>, <<"bad">>}, d \in {<<"a">>, <<"bad">>}}
Unknown == File(MediaType("application", "zip", "none"), <<"a">>)
Unreadable == File(HtmlMedia, <<"bad">>)
Undecodable == [File(HtmlMedia, <<"bad">>) EXCEPT !.doc = Html(<<Text(<<"a">>, 1)>>)]

Setup(extractor, segmenter, selected) ==
    [extractor |-> extractor, segmenter |-> segmenter, pages |-> selected, counter |-> ByWord, max |-> 2, min |-> 1,
     overlap |-> 1]
Default == Setup("default", "default", None)

Case(files, setups) == {[file |-> f, setup |-> s] : f \in files, s \in setups}

MCCases ==
    Case({Markup(HtmlMedia, d) : d \in HtmlFiles} \cup {Markup(XmlMedia, d) : d \in XmlFiles},
         {Setup("visible", "blocks", None)})
    \cup Case(TextFiles \cup PdfFiles \cup JsonFiles \cup Damaged
                \cup {Scan, Drawing, Unknown, Unreadable, Undecodable}
                \cup {Markup(HtmlMedia, Html(Inside("p", <<B>>)))},
              {Default, Setup("default", "bounded", None), Setup("visible", "default", None), Setup("visible", "blocks", None)})
    \cup Case(TextFiles, {[Setup("default", "bounded", None) EXCEPT !.counter = [@ EXCEPT !.expensive = <<"a">>, !.cost = 9]]})
    \cup Case({Scan, CHOOSE f \in TextFiles : TRUE} \cup {[Scan EXCEPT !.digest = <<"png">>]}
                \cup {CHOOSE f \in PdfFiles : f.pages = None},
              {Setup("ocr", "default", p) : p \in {None, <<2>>, <<2, 1>>}})

PageAnswer(p, n, s, t, c) == [page |-> p, count |-> n, source |-> s, text |-> t, carries |-> c]
MCAnswers ==
    {PageAnswer(p, n, Scan.digest, t, "nothing") : p \in 0..3, n \in {1, 2}, t \in {<<"a", "e">>, <<>>}}
    \cup {PageAnswer(p, 2, Scan.digest, <<"b">>, c) : p \in {1, 2}, c \in {"bytes", "object", "both"}}
    \cup {PageAnswer(1, 2, <<"other">>, <<"a">>, "nothing"), PageAnswer(1, 2, <<"pdf">>, <<"a">>, "nothing")}

-----------------------------------------------------------------------------
MCSize == <<1, 2, 2>>

Alone ==
    /\ file = None /\ setup = None /\ pinned = None /\ installed = None /\ upgrades = 0 /\ stage = "none"
    /\ loaded = None /\ slipped = FALSE /\ identity = None /\ checked = None /\ readBy = None /\ pages = <<>> /\ evidence = <<>> /\ rep = None
    /\ segments = None /\ check = None

NoTransfer == TransfersInit
NoBlob == BlobsInit /\ backend = "local" /\ object = Nil

MCInit ==
    \/ part = "segmentation" /\ Init /\ Alone /\ NoTransfer /\ NoBlob
    \/ part = "extraction" /\ ExtractInit /\ IdleSegmentation /\ NoTransfer /\ NoBlob
    \/ part = "transfer" /\ IdleSegmentation /\ Alone /\ TransfersInit /\ NoBlob
    \/ part = "blob" /\ IdleSegmentation /\ Alone /\ NoTransfer /\ BlobsInit

MCNext ==
    /\ UNCHANGED part
    /\ \/ part = "segmentation" /\ Next /\ UNCHANGED <<evars, tvars, bvars>>
       \/ part = "extraction" /\ ExtractNext /\ UNCHANGED <<tvars, bvars>>
       \/ part = "transfer" /\ TransfersNext /\ UNCHANGED <<vars, evars, bvars>>
       \/ part = "blob" /\ BlobsNext /\ UNCHANGED <<vars, evars, tvars>>

MCSpec == MCInit /\ [][MCNext]_<<part, vars, evars, tvars, bvars>> /\ TransfersFairness
=============================================================================
