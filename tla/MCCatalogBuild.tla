---------------------------- MODULE MCCatalogBuild ----------------------------
(***************************************************************************)
(* Six requests: a two-pass policy with a docket, an ambiguous and a clear *)
(* lookup key, a record filed by three sources and a budget of one; the    *)
(* same with no universe row at all; a one-pass policy over two schema     *)
(* versions that are disjoint, that repeat an id, and that meet a third    *)
(* version; and a repeat that nobody resolves.                             *)
(***************************************************************************)
EXTENDS CatalogBuild

CONSTANTS docs, bare, register, repeat, unread, twice,  \* requests
          doc, dkt, fr1, fr2, fr3                       \* selectors

Row(s, id) == [id |-> id, sel |-> s, owns |-> FALSE, good |-> TRUE, docket |-> None, key |-> None]

MCSources == [rq \in Requests |->
    CASE rq = docs ->
            << <<[Row(doc, 1) EXCEPT !.docket = 2], Row(dkt, 2),
                 [Row(doc, 3) EXCEPT !.key = 7], [Row(doc, 4) EXCEPT !.key = 8]>>,
               <<[Row(doc, 1) EXCEPT !.docket = 2, !.owns = TRUE, !.good = FALSE],
                 [Row(fr1, 3) EXCEPT !.key = 7], [Row(fr1, 4) EXCEPT !.key = 8],
                 [Row(fr1, 5) EXCEPT !.key = 8]>>,
               <<Row(doc, 1)>> >>
      [] rq = bare -> << <<[Row(fr1, 1) EXCEPT !.key = 7]>> >>
      [] rq = register -> << <<Row(fr1, 1), Row(fr2, 2)>>, <<Row(fr1, 3)>> >>
      [] rq = repeat -> << <<Row(fr1, 1), Row(fr1, 2)>>, <<Row(fr2, 1)>> >>
      [] rq = unread -> << <<Row(fr1, 1), Row(fr3, 2)>>, <<Row(fr1, 3)>> >>
      [] rq = twice -> << <<Row(fr1, 1), Row(fr1, 2)>>, <<Row(fr1, 2)>> >>]

MCPolicy == [rq \in Requests |->
    IF rq \in {docs, bare}
    THEN [universe |-> <<doc, dkt>>, lookup |-> fr1, twoPass |-> TRUE, resolves |-> TRUE, limit |-> 1]
    ELSE [universe |-> <<fr1, fr2>>, lookup |-> None, twoPass |-> FALSE, resolves |-> FALSE,
          limit |-> None]]

MCBatchItems == [rq \in Requests |-> IF rq \in {docs, register} THEN 2 ELSE 1]
MCFamily == [s \in Selectors |-> IF s \in {fr1, fr2, fr3} THEN fr1 ELSE s]
MCPartitionOf == [id \in Ids |-> id % 2]
=============================================================================
