----------------------------- MODULE MCRetention -----------------------------
(***************************************************************************)
(* A keyed state s with two representations (p1 inline with member e1, p2  *)
(* external), an operation that reads s and produces e2, whose bytes are   *)
(* the same blob as e1's, a request rq that binds s, and a selection sel   *)
(* of the operation's output for a later request.  A second operation of   *)
(* the same definition (x2, res2) may be prepared in one session and       *)
(* published in another.                                                   *)
(***************************************************************************)
EXTENDS Retention, TLC

CONSTANTS e1, e2, s, p1, p2, x, res, rq, sel, x2, res2, \* records
          bv, br, bj, bj2,                        \* blobs: shared value, p2's, journals
          uImport, uRestore, uOp, uSplit, uMove, uInputs, uReuse, \* units
          qHead, qResult,                         \* selects
          dInput, dOutput, dOld,                  \* removals
          pub1, pub2,                             \* publishers
          ds                                      \* dataset

\* Publishers run the same code.
Symmetry == Permutations(Publishers)

MCNeeds == [r \in Records |->
    CASE r = p1 -> {s, e1} [] r = p2 -> {s} [] r \in {x, x2, rq} -> {s}
      [] r = res -> {x, e2} [] r = res2 -> {x2, e2} [] r = sel -> {e2} [] OTHER -> {}]
MCNames == [r \in Records |->
    CASE r = res -> {x} [] r = res2 -> {x2} [] r = sel -> {res} [] OTHER -> {}]
MCContent == [r \in Records |->
    CASE r \in {e1, e2} -> {bv} [] r = p2 -> {br} [] OTHER -> {}]
MCRepsOf == [r \in Records |-> IF r = s THEN {p1, p2} \cap Records ELSE {}]
MCIn == [u \in Units |->
    CASE u \in {uImport, uRestore} -> {s, p1, e1} [] u = uOp -> {res, e2} [] u = uSplit -> {res2, e2}
      [] u = uMove -> {p2} [] u = uInputs -> {rq} [] u = uReuse -> {sel}]
MCRoots == [u \in Units |->
    CASE u \in {uImport, uRestore, uMove} -> {s} [] u = uOp -> {res} [] u = uSplit -> {res2} [] u = uInputs -> {rq}
      [] u = uReuse -> {sel}]
MCExec == [u \in Operations |-> IF u = uSplit THEN x2 ELSE x]
MCRes == [u \in Operations |-> IF u = uSplit THEN res2 ELSE res]
MCJBlob == [u \in Operations |-> IF u = uSplit THEN bj2 ELSE bj]
MCArgs == [q \in Selects |->
    IF q = qHead THEN [dataset |-> ds, target |-> s, expected |-> None]
    ELSE [dataset |-> ds, target |-> res, expected |-> s]]
MCScope == [d \in Removals |->
    CASE d = dInput -> {s, p1, e1} [] d = dOld -> {p1, e1} [] d = dOutput -> {res, x, e2}]
MCOrphans == [d \in Removals |-> IF d = dOutput THEN {bj} ELSE {}]
=============================================================================
