---------------------------- MODULE MCCatalogStore ----------------------------
(***************************************************************************)
(* A series of three catalogs: old, and two rival successors whose payload *)
(* old has too; commands that name the same destination.                   *)
(***************************************************************************)
EXTENDS CatalogStore, TLC

CONSTANTS old, new, rival, x, y, build1, build2, v, w, m, p, q, cas, out

\* The two successors differ in their digests only.
Symmetry ==
    Permutations(Builders) \cup Permutations(Advancers) \cup Permutations(Private)
    \cup Permutations(Artifacts \ {old})

MCPayload == [a \in Artifacts |-> IF a = old THEN Blobs ELSE {x}]
MCSupersedes == [a \in Artifacts |-> IF a = old THEN None ELSE old]
MCDest == [s \in Private |-> out]
=============================================================================
