------------------------------ MODULE Identities ------------------------------
(***************************************************************************)
(* Data identities across ledger rows and bulk layers.                     *)
(*                                                                         *)
(* Members of a bulk state have no ledger row: their layer registers them  *)
(* all at once.  A publication (application/core_publication.py) searches  *)
(* the layers for the identities its caller chose, and a bulk import       *)
(* (storage/core_states.py) looks its members up among the rows, each in   *)
(* transactions of their own.  What they found is current when the commit  *)
(* finds the identity mark where it was (storage/ledger.py); otherwise the *)
(* attempt is repeated.  Sessions cache what they searched.                *)
(*                                                                         *)
(* Sessions hold the content guard shared, so a removal, which needs it    *)
(* alone, runs between them.  Identities that DocSpec mints are fresh and  *)
(* are not searched for; the model has the others.                         *)
(***************************************************************************)
EXTENDS Naturals, FiniteSets

CONSTANTS
    Sessions,
    Ids,       \* data identities that callers choose
    Digests,   \* digests of entity bytes
    Bulks,     \* bulk representations
    Members,   \* bulk representation -> pairs of occurrence identity and digest
    StateOf,   \* bulk representation -> identity of its state
    Attempts,  \* _IDENTITY_ATTEMPTS
    MaxUnits,  \* bound on the units ever begun
    None

ASSUME IdentityAssumption ==
    /\ Members \in [Bulks -> SUBSET (Ids \X Digests)]
    /\ StateOf \in [Bulks -> Ids]
    /\ Attempts \in Nat \ {0}
    /\ MaxUnits \in Nat
    /\ IsFiniteSet(Digests)
    /\ None \notin Ids \cup Digests \cup Bulks \cup Nat

VARIABLES
    row,       \* identity -> its row of the records table, or None
    layer,     \* bulk representation -> "absent" | "available" | "removed"
    mark,      \* the newest identity-sequence unit
    layered,   \* the identity-sequence units recorded as identity-layers
    session,   \* session -> its Publication, or None
    units      \* units begun so far

vars == <<row, layer, mark, layered, session, units>>

Occurrence(d) == [kind |-> "entity", digest |-> d, there |-> TRUE]
StateRow == [kind |-> "state", digest |-> None, there |-> TRUE]

Rows == {[kind |-> "entity", digest |-> d, there |-> b] : d \in Digests, b \in BOOLEAN}
        \cup {[kind |-> "state", digest |-> None, there |-> b] : b \in BOOLEAN}

ASSUME RowAssumption == None \notin Rows

\* What a unit publishes: a row, a bulk state, or a reference to an occurrence.
Ops == {[what |-> "row", id |-> i, new |-> r, bulk |-> None] :
          i \in Ids, r \in {Occurrence(d) : d \in Digests} \cup {StateRow}}
       \cup {[what |-> "bulk", id |-> StateOf[c], new |-> StateRow, bulk |-> c] : c \in Bulks}
       \cup {[what |-> "pin", id |-> i, new |-> None, bulk |-> None] : i \in Ids}

NoOp == [what |-> "none", id |-> None, new |-> None, bulk |-> None]

Fresh == [pc |-> "idle", op |-> NoOp, mark |-> 0, attempt |-> 0, search |-> {},
          seen |-> None, view |-> None, hits |-> {}, misses |-> {}]

Available == {c \in Bulks : layer[c] = "available"}
Copies(cs) == UNION {Members[c] : c \in cs}
Held(copies, i) == {m[2] : m \in {x \in copies : x[1] = i}}

Set(s, v) == session' = [session EXCEPT ![s] = v]
ledger == <<row, layer, mark, layered>>

-----------------------------------------------------------------------------
(* Sessions                                                                 *)

Open(s) ==
    /\ session[s] = None
    /\ Set(s, Fresh)
    /\ UNCHANGED <<ledger, units>>

\* The session ends, or its process dies wherever it is.
Close(s) ==
    /\ session[s] # None
    /\ Set(s, None)
    /\ UNCHANGED <<ledger, units>>

Begin(s, op) ==
    /\ session[s] # None /\ session[s].pc = "idle"
    /\ units < MaxUnits
    /\ op.what = "bulk" => layer[op.bulk] = "absent"
    /\ units' = units + 1
    /\ Set(s, [session[s] EXCEPT !.pc = "view", !.op = op, !.attempt = 0])
    /\ UNCHANGED ledger

\* Mutant: what was searched before is kept whatever others commit.
ViewedKeeping(t) == [t EXCEPT !.seen = mark]

\* identity_view: a commit since the last look that added bulk layers makes the
\* session forget the layers, members and misses it knows.
Viewed(t) ==
    IF t.seen # None /\ \E m \in layered : m > t.seen
    THEN [t EXCEPT !.seen = mark, !.view = None, !.hits = {}, !.misses = {}]
    ELSE [t EXCEPT !.seen = mark]

\* An attempt starts from the mark it will commit against.
View(s) ==
    LET t == session[s] IN
    /\ t # None /\ t.pc = "view"
    /\ Set(s, [Viewed(t) EXCEPT !.pc = "rows", !.mark = mark])
    /\ UNCHANGED <<ledger, units>>

\* An error of the check ends the unit.
Refuse(s) == Set(s, [session[s] EXCEPT !.pc = "idle", !.op = NoOp, !.search = {}])

\* Mutant: members are compared with entity rows only.
LedgerCopiesEntities(c) ==
    /\ \A m \in Members[c] : m[1] # StateOf[c]
    /\ \A m \in Members[c] : row[m[1]] # None /\ row[m[1]].kind = "entity" => row[m[1]].digest = m[2]

\* _check_ledger_copies: a member's identity is not the state's, not another
\* state's, and not a row's with other bytes.
LedgerCopies(c) ==
    /\ \A m \in Members[c] : m[1] # StateOf[c]
    /\ \A m \in Members[c] : row[m[1]] # None => row[m[1]].kind = "entity" /\ row[m[1]].digest = m[2]

\* The rows are read: those of a bulk import's members first, then the one the
\* unit publishes.  An identity with a row is not searched for, one without is.
CheckRows(s) ==
    LET t == session[s]
        r == row[t.op.id]
        wanted == r = None \/ (t.op.what = "pin" /\ r.kind = "entity" /\ ~r.there)
    IN
    /\ t # None /\ t.pc = "rows"
    /\ IF \/ t.op.what = "bulk" /\ ~LedgerCopies(t.op.bulk)
          \/ r # None /\ t.op.what # "pin" /\ r.kind = t.op.new.kind /\ r.digest # t.op.new.digest
       THEN Refuse(s)
       ELSE Set(s, [t EXCEPT !.pc = IF wanted THEN "locate" ELSE "commit",
                             !.search = IF wanted THEN {t.op.id} ELSE {}])
    /\ UNCHANGED <<ledger, units>>

\* locate_members looks at the mark again before it uses what it knows.
Locate(s) ==
    LET t == session[s] IN
    /\ t # None /\ t.pc = "locate"
    /\ Set(s, [Viewed(t) EXCEPT !.pc = "search"])
    /\ UNCHANGED <<ledger, units>>

\* find_members over the layers the session knows, or lists now; copies of one
\* identity with different bytes are refused.  A caller-chosen identity that is
\* found collides; a reference is read from its copy, and both are remembered.
Found(s, t) ==
    LET i == t.op.id
        known == Held(t.hits, i) # {} \/ i \in t.misses
        view == IF known \/ t.view # None THEN t.view ELSE Available
        held == IF known THEN Held(t.hits, i) ELSE Held(Copies(view), i)
        collides == t.op.what # "pin" /\ held # {} /\ held # {t.op.new.digest}
        next == [t EXCEPT !.view = view,
                          !.misses = IF held = {} THEN @ \cup {i} ELSE @,
                          !.hits = IF t.op.what = "pin" THEN @ \cup {<<i, d>> : d \in held} ELSE @]
    IN
    IF \/ Cardinality(held) > 1
       \/ collides
       \/ t.op.what = "pin" /\ held = {}
       \/ t.op.what = "pin" /\ row[i] # None /\ held # {row[i].digest}
    THEN Set(s, [(IF Cardinality(held) > 1 THEN [t EXCEPT !.view = view] ELSE next)
                 EXCEPT !.pc = "idle", !.op = NoOp, !.search = {}])
    ELSE Set(s, [next EXCEPT !.pc = "commit",
                             !.op.new = IF t.op.what = "pin"
                                        THEN Occurrence(CHOOSE d \in held : TRUE) ELSE @])

Search(s) ==
    /\ session[s] # None /\ session[s].pc = "search"
    /\ Found(s, session[s])
    /\ UNCHANGED <<ledger, units>>

-----------------------------------------------------------------------------
(* The commit                                                               *)

\* The unit carries the mark when its checks read layers, or it adds one.
Carries(t) == t.search # {} \/ t.op.what = "bulk"

\* commit finds another mark than the attempt's: the attempt is repeated.
Changed(s) ==
    LET t == session[s] IN
    /\ t # None /\ t.pc = "commit"
    /\ Carries(t) /\ mark # t.mark
    /\ IF t.attempt + 1 = Attempts
       THEN Refuse(s)
       ELSE Set(s, [t EXCEPT !.pc = "view", !.attempt = @ + 1, !.search = {}])
    /\ UNCHANGED <<ledger, units>>

\* A row that exists keeps kind and digest: the data_identity index refuses the
\* other kind, the commit other bytes.
Keeps(i, r) == row[i] # None => row[i].kind = r.kind /\ row[i].digest = r.digest

\* The commit of a reference to an available row adds nothing.
Written(t) == t.op.new # None

\* The session's view after its own commit: its mark is the next one when nothing
\* else moved it, and a new layer joins the view while members are forgotten.
AfterCommit(t) ==
    LET bulk == t.op.what = "bulk"
        seen == IF Carries(t) /\ t.seen = t.mark THEN t.mark + 1 ELSE t.seen
    IN [t EXCEPT !.pc = "idle", !.op = NoOp, !.search = {}, !.seen = seen,
                 !.hits = IF bulk THEN {} ELSE @,
                 !.misses = IF bulk THEN {} ELSE @,
                 !.view = IF bulk /\ @ # None THEN @ \cup {t.op.bulk} ELSE @]

\* One transaction: rows, the pinned member, the layer and the next mark.
Commit(s) ==
    LET t == session[s] IN
    /\ t # None /\ t.pc = "commit"
    /\ Carries(t) => mark = t.mark
    /\ IF Written(t) /\ ~Keeps(t.op.id, t.op.new)
       THEN Refuse(s) /\ UNCHANGED ledger
       ELSE /\ row' = IF Written(t) THEN [row EXCEPT ![t.op.id] = t.op.new] ELSE row
            /\ layer' = IF t.op.what = "bulk" THEN [layer EXCEPT ![t.op.bulk] = "available"] ELSE layer
            /\ mark' = IF Carries(t) THEN mark + 1 ELSE mark
            /\ layered' = IF t.op.what = "bulk" THEN layered \cup {mark + 1} ELSE layered
            /\ Set(s, AfterCommit(t))
    /\ UNCHANGED units

\* A policy removes a bulk state, and with it any pinned rows of its scope.
RemoveMembers(c, gone) ==
    /\ \A s \in Sessions : session[s] = None
    /\ layer[c] = "available"
    /\ layer' = [layer EXCEPT ![c] = "removed"]
    /\ row' = [i \in Ids |-> IF i \in gone \cup {StateOf[c]} /\ row[i] # None
                             THEN [row[i] EXCEPT !.there = FALSE] ELSE row[i]]
    /\ UNCHANGED <<mark, layered, session, units>>

-----------------------------------------------------------------------------

Init ==
    /\ row = [i \in Ids |-> None]
    /\ layer = [c \in Bulks |-> "absent"]
    /\ mark = 0
    /\ layered = {}
    /\ session = [s \in Sessions |-> None]
    /\ units = 0

Run(s) ==
    \/ Open(s) \/ Close(s)
    \/ \E op \in Ops : Begin(s, op)
    \/ View(s) \/ CheckRows(s) \/ Locate(s) \/ Search(s) \/ Changed(s) \/ Commit(s)

Next ==
    \/ \E s \in Sessions : Run(s)
    \/ \E c \in Bulks, gone \in SUBSET Ids : RemoveMembers(c, gone)

Spec == Init /\ [][Next]_vars

-----------------------------------------------------------------------------
(* Properties                                                               *)

SessionType ==
    [pc : {"idle", "view", "rows", "locate", "search", "commit"},
     op : [what : {"none", "row", "bulk", "pin"}, id : Ids \cup {None},
           new : Rows \cup {None}, bulk : Bulks \cup {None}],
     mark : Nat, attempt : 0 .. Attempts - 1, search : SUBSET Ids,
     seen : Nat \cup {None}, view : (SUBSET Bulks) \cup {None},
     hits : SUBSET (Ids \X Digests), misses : SUBSET Ids]

\* Rows, layers, the mark and the sessions keep their types: no unit takes more
\* attempts than it has.
TypeOK ==
    /\ row \in [Ids -> Rows \cup {None}]
    /\ layer \in [Bulks -> {"absent", "available", "removed"}]
    /\ mark \in Nat
    /\ layered \subseteq 1 .. mark
    /\ session \in [Sessions -> SessionType \cup {None}]
    /\ units \in 0 .. MaxUnits

\* An identity means one thing: a row that some layer also holds is an entity with
\* the layer's bytes, never a state, however imports and publications interleave.
RowsAgree ==
    \A c \in Available : \A m \in Members[c] :
        row[m[1]] # None => row[m[1]].kind = "entity" /\ row[m[1]].digest = m[2]

\* What a session remembers is what it would find: with the mark where it saw it,
\* no missed identity is in a layer and no found one has other bytes.
CacheCoherent ==
    \A s \in Sessions : session[s] # None /\ session[s].seen = mark =>
        /\ session[s].view # None => session[s].view = Available
        /\ \A i \in session[s].misses : Held(Copies(Available), i) = {}
        /\ \A h \in session[s].hits : Held(Copies(Available), h[1]) = {h[2]}

Registry == INSTANCE IdentityRegistry WITH row <- row, shelf <- Available

\* Checks made apart from the commit amount to a check in the commit: every commit
\* is one step of the registry of identities.
ImplementsRegistry == Registry!Spec

\* Both views of the registry are right: the one on disk and the ones sessions keep.
RegistryViews == RowsAgree /\ CacheCoherent
=============================================================================
