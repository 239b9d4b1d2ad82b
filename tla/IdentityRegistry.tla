--------------------------- MODULE IdentityRegistry ---------------------------
(***************************************************************************)
(* What identities promise, whoever publishes: a data identity means one   *)
(* thing.  A row claims it for an entity with one digest or for a state,   *)
(* a bulk layer holds copies of entities, and every claim and every layer  *)
(* is accepted in one step that looks at all of them.                      *)
(***************************************************************************)
CONSTANTS
    Ids,       \* data identities
    Digests,   \* digests of entity bytes
    Bulks,     \* bulk representations, each with a layer of its own
    Members,   \* bulk representation -> its occurrences, pairs of identity and digest
    StateOf,   \* bulk representation -> the identity of its state
    None

VARIABLES
    row,       \* identity -> its ledger row, or None
    shelf      \* bulk representations that can be read

vars == <<row, shelf>>

Row == [kind : {"entity"}, digest : Digests, there : BOOLEAN]
       \cup [kind : {"state"}, digest : {None}, there : BOOLEAN]

\* The row r of identity i and a copy of i with digest d can both be kept.
Agree(r, d) == r # None => r.kind = "entity" /\ r.digest = d

\* A claim agrees with every copy on the shelf.
Claim(i, r) ==
    /\ row[i] # None => row[i].kind = r.kind /\ row[i].digest = r.digest
    /\ \A c \in shelf : \A m \in Members[c] : m[1] = i => Agree(r, m[2])
    /\ row' = [row EXCEPT ![i] = r]
    /\ UNCHANGED shelf

\* A layer goes on the shelf with its state when every claim agrees with it.
Shelve(c) ==
    LET i == StateOf[c] IN
    /\ \A m \in Members[c] : m[1] # i /\ Agree(row[m[1]], m[2])
    /\ \A b \in shelf : \A m \in Members[b] : m[1] # i
    /\ row[i] # None => row[i].kind = "state"
    /\ row' = [row EXCEPT ![i] = [kind |-> "state", digest |-> None, there |-> TRUE]]
    /\ shelf' = shelf \cup {c}

\* A policy takes layers off the shelf; rows keep identity and digest.
Withdraw(cs, gone) ==
    /\ shelf' = shelf \ cs
    /\ row' = [i \in Ids |-> IF i \in gone /\ row[i] # None
                             THEN [row[i] EXCEPT !.there = FALSE] ELSE row[i]]

Init ==
    /\ row = [i \in Ids |-> None]
    /\ shelf = {}

Next ==
    \/ \E i \in Ids, r \in Row : Claim(i, r)
    \/ \E c \in Bulks : Shelve(c)
    \/ \E cs \in SUBSET Bulks, gone \in SUBSET Ids : Withdraw(cs, gone)

Spec == Init /\ [][Next]_vars
=============================================================================
