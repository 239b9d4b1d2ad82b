----------------------------- MODULE MCPolicies -----------------------------
(***************************************************************************)
(* Small sources for the catalog policies: at most three universe rows,    *)
(* each a variation of an ordinary document, docket or comment, and up to  *)
(* three Federal Register records that may share a number.                 *)
(***************************************************************************)
EXTENDS CatalogPolicies, TLC

MCTexts == 0..6
MCUrls == {"u1", "u2"}
MCObjects == {"sha"}
MCInstants == {<<2020, 1, 1>>, <<2021, 2, 1>>}
MCFixtures == {6}
MCOrderHash == [i \in 0..6 |-> (5 * i) % 7]
MCWithholding == {"copyrighted"}
MCTemplate(id) == "template"

Rendition(id, locator) == [id |-> id, field |-> "file", locator |-> locator, sha |-> Null, size |-> Null]

Plain == [scope |-> "documents", id |-> 1, title |-> 1, agency |-> 1, type |-> 1,
          posted |-> <<2020, 1, 1>>, modified |-> <<2021, 2, 1>>, closes |-> Null,
          docket |-> Null, fr |-> Null, on |-> Null, rins |-> {}, link |-> "u1",
          withdrawn |-> FALSE, restrict |-> Null, topics |-> <<>>, discards |-> {},
          renditions |-> <<Rendition(1, "u2")>>]

Object(sha, size) == [Rendition(1, "sha") EXCEPT !.sha = sha, !.size = size]

\* What may be unusual about a row of any scope.
Variations(r) ==
    {r,
     [r EXCEPT !.withdrawn = TRUE],
     [r EXCEPT !.title = Junk, !.link = Null],
     [r EXCEPT !.agency = 5],
     [r EXCEPT !.agency = 2, !.type = 2, !.docket = Junk],
     [r EXCEPT !.posted = Junk, !.rins = {Junk, <<7, 1>>}],
     [r EXCEPT !.modified = Null],
     [r EXCEPT !.modified = Null, !.posted = Null],
     [r EXCEPT !.modified = Odd],
     [r EXCEPT !.link = Junk, !.docket = 3],
     [r EXCEPT !.renditions = <<>>, !.link = Null, !.docket = 3],
     [r EXCEPT !.renditions = <<>>, !.link = Null, !.restrict = "copyrighted", !.fr = 2],
     [r EXCEPT !.renditions = <<>>, !.link = Null, !.restrict = "new reason"],
     [r EXCEPT !.renditions = <<Rendition(2, "u2"), Rendition(1, "u2"), Rendition(1, "u1")>>],
     [r EXCEPT !.renditions = <<Rendition(1, "u2"), Rendition(1, "u1")>>],
     [r EXCEPT !.renditions = <<Rendition(1, Junk)>>],
     [r EXCEPT !.renditions = <<Object("sha", 4)>>],
     [r EXCEPT !.renditions = <<Object(Null, 4)>>],
     [r EXCEPT !.topics = <<<<1, 1>>, <<2, 1>>, <<1, 1>>>>],
     [r EXCEPT !.topics = <<<<1, 1>>, <<1, 2>>>>],
     [r EXCEPT !.on = 1, !.fr = Junk, !.discards = {8}],
     [r EXCEPT !.on = Junk, !.closes = Junk]}

Filed(r, id) == [r EXCEPT !.id = id]

RegisterRecord(id, number, renditions) ==
    [Plain EXCEPT !.scope = "register", !.id = id, !.renditions = renditions, !.rins = {<<id, 2>>}]
    @@ [number |-> number, agencies |-> {1}, dockets |-> {1, Junk}]

Html == [Rendition(1, "u1") EXCEPT !.field = "html"]
Pdf == [Rendition(2, "u2") EXCEPT !.field = "pdf"]

Registers ==
    {{},
     {RegisterRecord(1, 2, <<Pdf, Html>>)},
     {RegisterRecord(1, 2, <<Html>>), RegisterRecord(2, 2, <<Pdf>>)},
     {RegisterRecord(1, 2, <<>>), RegisterRecord(2, 4, <<Pdf>>), RegisterRecord(3, Junk, <<Html>>)}}

Regulations(docket, comment, register, sample, max) ==
    [kind |-> "regulations", docket |-> docket, comment |-> comment, register |-> register,
     agencies |-> {1, 2}, sample |-> sample, max |-> max]

Plainly(kind) ==
    [kind |-> kind, docket |-> FALSE, comment |-> FALSE, register |-> FALSE,
     agencies |-> {}, sample |-> Null, max |-> Null]

Job(p, rows, register) == [member |-> Member(p), rows |-> rows, register |-> register]

\* Rows of every scope with one unusual row among ordinary ones.
MixedJobs ==
    {Job(Regulations(TRUE, TRUE, reg, sample, max), <<d, Filed([Plain EXCEPT !.scope = "dockets"], 3), c>>, register) :
       d \in {[Filed(v, 1) EXCEPT !.fr = IF @ = Junk THEN Junk ELSE 2] : v \in Variations(Plain)},
       c \in {Filed([v EXCEPT !.scope = s], 4) : v \in Variations(Plain), s \in {"comments", "dockets"}},
       reg \in {TRUE}, register \in Registers, sample \in {Null}, max \in {Null, 1}}

\* Documents of two types and several strata.
Sampled ==
    {[Plain EXCEPT !.type = t, !.agency = a, !.posted = d, !.withdrawn = w] :
       t \in {1, 2}, a \in {1, 2, Junk}, d \in {<<2020, 1, 1>>, Junk}, w \in {FALSE}}

SampleJobs ==
    {Job(Regulations(FALSE, FALSE, FALSE, limit, max),
         <<Filed(a, 1), Filed(b, 2), Filed(c, 3), Filed(d, 6)>>, {}) :
       a \in Sampled, b \in Sampled, c \in {x \in Sampled : x.posted # Junk /\ x.agency = 1},
       d \in {Plain, [Plain EXCEPT !.withdrawn = TRUE]}, limit \in {1, 2}, max \in {Null, 1}}

RegisterJobs ==
    {Job(Plainly("register"),
         <<[r EXCEPT !.title = t, !.posted = p, !.link = l, !.topics = topics]>>, {}) :
       r \in UNION Registers, t \in {1, Null}, p \in {<<2020, 1, 0>>, Junk, Null},
       l \in {"u1", Junk}, topics \in {<<>>, <<<<1, 1>>, <<1, 2>>>>}}

SuppliedJobs ==
    {Job(Plainly("supplied"), <<[Plain EXCEPT !.scope = "supplied", !.renditions = rs, !.title = t,
                                              !.topics = topics]>>, {}) :
       rs \in {<<>>, <<Rendition(1, "u2"), Rendition(2, "u1")>>}, t \in {1, Null},
       topics \in {<<>>, <<<<1, 1>>, <<1, 2>>>>}}

\* Members that no installed policy writes.
AlteredJobs ==
    LET m == Member(Regulations(TRUE, FALSE, TRUE, 2, Null)) IN
    {[member |-> x, rows |-> <<Plain>>, register |-> {}] :
       x \in {m, [m EXCEPT !.universe = <<"dockets", "documents">>], [m EXCEPT !.universe = <<>>],
              [m EXCEPT !.docket = FALSE], [m EXCEPT !.comment = TRUE], [m EXCEPT !.rules = "other"],
              [Member(Plainly("register")) EXCEPT !.max = 3]}}

MCJobs == {Job(Plainly("supplied"), <<>>, {})} \cup MixedJobs \cup SampleJobs \cup RegisterJobs \cup SuppliedJobs \cup AlteredJobs
=============================================================================
