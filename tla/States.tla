------------------------------- MODULE States -------------------------------
(***************************************************************************)
(* Keyed states, their representations and their revisions                 *)
(* (adapters/storage/core_states.py, application/core_edits.py).           *)
(*                                                                         *)
(* A state's membership maps member keys to occurrences and never changes. *)
(* A representation holds it inline, or as a membership layer beside an    *)
(* entity layer with the occurrences; a state may have several, of which   *)
(* one is preferred.  A revision resolves ordered edits against a base     *)
(* state without comparing complete memberships, and certifies which keys  *)
(* it touched; the difference of two states is read from the certified     *)
(* history between them when there is one.                                 *)
(***************************************************************************)
EXTENDS Naturals, Sequences, FiniteSets, SequencesExt

CONSTANTS
    MemberKeys,  \* member keys
    Occs,        \* occurrences, all retained
    Absence,     \* no occurrence, no layer, no revision
    MaxStates,   \* bound on states
    MaxReps,     \* bound on representations ever published
    MaxEdits     \* bound on the edits of a revision

\* Absence is no occurrence, no layer and no revision.
ASSUME StatesAssumption ==
    /\ MaxStates \in Nat /\ MaxReps \in Nat /\ MaxEdits \in Nat
    /\ Absence \notin Occs /\ Absence \notin Nat /\ \A e \in SUBSET Occs : Absence # e

VARIABLES
    reps,        \* sequence of representations, in the order of publication
    revs,        \* sequence of revisions
    main,        \* [state -> its preferred representation, or Absence]
    certs        \* resolved_revision links: pairs of representation and revision

svars == <<reps, revs, main, certs>>

Membership == [MemberKeys -> Occs \cup {Absence}]
Used(m) == {m[k] : k \in MemberKeys} \ {Absence}
StateIds == 1..MaxStates
Edits == UNION {[1..n -> [key: MemberKeys, occ: Occs \cup {Absence}]] : n \in 0..MaxEdits}

Rep(s, m, e, r) == [state |-> s, members |-> m, entities |-> e, revision |-> r, there |-> TRUE]

OfState(s) == {i \in DOMAIN reps : reps[i].state = s}
There(s) == {i \in OfState(s) : reps[i].there}
Inline(i) == reps[i].entities = Absence
Bulk(s) == {i \in There(s) : ~ Inline(i)}

(* representation: the available bulk one that the state's link names, or  *)
(* another available one.                                                  *)
Readable(s) == Bulk(s) # {}
Layers(s) == reps[IF main[s] \in Bulk(s) THEN main[s] ELSE CHOOSE i \in Bulk(s) : TRUE]

Touched(edits) == {edits[i].key : i \in DOMAIN edits}

-----------------------------------------------------------------------------
(* Edits in one query: every edit with the previous one of its key (lag),  *)
(* and the latest of each key.                                             *)

Before(edits, i) == {j \in 1..(i - 1) : edits[j].key = edits[i].key}
Latest(edits, k) == edits[CHOOSE i \in DOMAIN edits :
                            edits[i].key = k /\ \A j \in DOMAIN edits : edits[j].key = k => j <= i]

(* A removal needs a live key: the previous edit of the key put it, or     *)
(* there is none and the base holds it.                                    *)
Admissible(base, edits) ==
    \A i \in DOMAIN edits : edits[i].occ = Absence =>
        LET b == Before(edits, i)
            previous == CHOOSE j \in b : \A k \in b : k <= j
        IN  IF b = {} THEN base[edits[i].key] # Absence ELSE edits[previous].occ # Absence

Resolved(base, edits) ==
    [k \in MemberKeys |-> IF k \in Touched(edits) THEN Latest(edits, k).occ ELSE base[k]]

-----------------------------------------------------------------------------
(* Publications.                                                           *)

(* _state: a further representation of a known state must agree with an    *)
(* admitted one; when none is available, only a known one restores it.     *)
Agreeing(s, m) == OfState(s) # {} => There(s) # {} /\ \A i \in There(s) : reps[i].members = m

Room == Len(reps) < MaxReps   \* the bound

Publish(rep) ==
    /\ Room
    /\ Agreeing(rep.state, rep.members)
    /\ reps' = Append(reps, rep)
    /\ main' = [main EXCEPT ![rep.state] = Len(reps')]

(* create, create_keyed and from_occurrences: complete membership beside   *)
(* the occurrences it uses.                                                *)
Create(s, m) ==
    /\ Publish(Rep(s, m, Used(m), Absence))
    /\ UNCHANGED <<revs, certs>>

(* A small membership is published inline.                                 *)
Declare(s, m) ==
    /\ Publish(Rep(s, m, Absence, Absence))
    /\ UNCHANGED <<revs, certs>>

(* representation: a state without a bulk representation is given one by   *)
(* the ordinary writer, keeping identity and membership.                   *)
Materialize(i) ==
    LET r == reps[i]
    IN  /\ i \in There(r.state) /\ Inline(i) /\ ~ Readable(r.state)
        /\ Publish(Rep(r.state, r.members, Used(r.members), Absence))
        /\ UNCHANGED <<revs, certs>>

(* union_disjoint of the base's entities with the delta that               *)
(* from_occurrences grouped for the puts.                                  *)
United(base, edits) == base.entities \cup ({edits[i].occ : i \in DOMAIN edits} \ {Absence})

(* compose_revision and revision_representation: the resolved membership   *)
(* beside the united entities.  The publisher certifies the link from the  *)
(* result to the revision.  No complete membership is joined again.        *)
Revise(base, result, edits) ==
    /\ Readable(base) /\ base # result
    /\ LET b == Layers(base)
           n == Len(revs) + 1
       IN  /\ Admissible(b.members, edits)
           /\ Publish(Rep(result, Resolved(b.members, edits), United(b, edits), n))
           /\ revs' = Append(revs, [base |-> base, result |-> result, edits |-> edits,
                                    was |-> b.members, there |-> TRUE])
           /\ certs' = certs \cup {<<Len(reps) + 1, n>>}

(* checkpoint: the same membership with only the values it uses.  It keeps *)
(* the revision, but no certificate names the new representation.          *)
Checkpoint(s) ==
    /\ Readable(s)
    /\ LET b == Layers(s)
       IN  Publish(Rep(s, b.members, Used(b.members), b.revision))
    /\ UNCHANGED <<revs, certs>>

-----------------------------------------------------------------------------
(* Removal and restoration, between sessions.                              *)

Needed(rs) == {rs[i].revision : i \in {j \in DOMAIN rs : rs[j].there}} \ {Absence}

Retire(gone) ==
    /\ reps' = [i \in DOMAIN reps |-> [reps[i] EXCEPT !.there = @ /\ i \notin gone]]
    /\ revs' = [i \in DOMAIN revs |-> [revs[i] EXCEPT !.there = @ /\ i \in Needed(reps')]]
    /\ UNCHANGED <<main, certs>>

(* A representation that no link of its state needs, or a whole state with *)
(* all of them; a revision goes when nothing available names it.           *)
RemoveRepresentation(i) == reps[i].there /\ main[reps[i].state] # i /\ Retire({i})
RemoveState(s) == There(s) # {} /\ Retire(There(s))

(* A removed representation is published again: it was admitted before.    *)
Restore(i) ==
    LET r == reps[i]
    IN  /\ ~ r.there
        /\ reps' = [reps EXCEPT ![i].there = TRUE]
        /\ revs' = [j \in DOMAIN revs |-> [revs[j] EXCEPT !.there = @ \/ j = r.revision]]
        /\ main' = [main EXCEPT ![r.state] = i]
        /\ UNCHANGED certs

(* States are numbered in the order they are first named.                  *)
Named == {s \in StateIds : \A t \in 1..(s - 1) : OfState(t) # {}}

StatesInit ==
    /\ reps = <<>> /\ revs = <<>> /\ certs = {}
    /\ main = [s \in StateIds |-> Absence]

StatesNext ==
    \/ Room /\ \E s \in Named, m \in Membership : Declare(s, m) \/ Create(s, m)
    \/ \E i \in DOMAIN reps : Materialize(i) \/ RemoveRepresentation(i) \/ Restore(i)
    \/ Room /\ \E base \in StateIds, result \in Named, edits \in Edits : Revise(base, result, edits)
    \/ \E s \in StateIds : Checkpoint(s) \/ RemoveState(s)

StatesSpec == StatesInit /\ [][StatesNext]_svars

-----------------------------------------------------------------------------
(* Differences.                                                            *)

(* changed_keys, at one state: revisions certified by a link whose         *)
(* representation and revision are both available.                         *)
Certified(s) == {c[2] : c \in {x \in certs : reps[x[1]].state = s /\ reps[x[1]].there
                                               /\ revs[x[2]].there}}

(* The walk from a state to a base, one certificate per state, given which *)
(* certificate each state's links yield first.                             *)
Walk(pick, new, old) ==
    LET step[n \in 0..MaxStates] ==
            IF n = 0 THEN <<new>>
            ELSE LET w == step[n - 1]
                     s == Last(w)
                 IN  IF s = old \/ Len(w) < n \/ pick[s] = Absence THEN w
                     ELSE Append(w, revs[pick[s]].base)
    IN  step[MaxStates]

(* Variant: only the last revision's keys are collected.                   *)
ChangedKeysLast(pick, new, old) ==
    LET w == Walk(pick, new, old)
    IN  IF Last(w) # old THEN MemberKeys
        ELSE IF new = old THEN {} ELSE Touched(revs[pick[new]].edits)

(* The keys of all edits on the way; without a complete history, all keys. *)
(* A cycle refuses, which leaves the walk short of its base as well.       *)
ChangedKeys(pick, new, old) ==
    LET w == Walk(pick, new, old)
    IN  IF Last(w) # old THEN MemberKeys
        ELSE UNION {Touched(revs[pick[w[i]]].edits) : i \in 1..(Len(w) - 1)}

(* _differing: both memberships narrowed to the changed keys.              *)
Differing(pick, new, old) ==
    {k \in ChangedKeys(pick, new, old) : Layers(new).members[k] # Layers(old).members[k]}

(* compare: the outer join of both memberships.                            *)
Difference(new, old) == {k \in MemberKeys : Layers(new).members[k] # Layers(old).members[k]}

Picks ==
    LET from(s) == IF Certified(s) = {} THEN {Absence} ELSE Certified(s)
    IN  {p \in [StateIds -> UNION {from(s) : s \in StateIds}] : \A s \in StateIds : p[s] \in from(s)}

-----------------------------------------------------------------------------
(* The changes read from certified history are the changes there are:      *)
(* edits that cancel each other, branches, repacked and removed            *)
(* representations and restored ones never hide or invent one.             *)
ChangesExact ==
    \A new, old \in {s \in StateIds : Readable(s)}, pick \in Picks :
        Differing(pick, new, old) = Difference(new, old)

(* What the edits mean, one after the other.                               *)
Applied(base, edits) ==
    LET after[i \in 0..Len(edits)] ==
            IF i = 0 THEN base ELSE [after[i - 1] EXCEPT ![edits[i].key] = edits[i].occ]
    IN  after[Len(edits)]

(* A state means one membership whatever happened to its representations,  *)
(* each bulk one holds every occurrence it addresses, the link of an       *)
(* available state names an available one, a revision's result is its base *)
(* with the edits applied in order, and changes are read exactly.          *)
StatesExact ==
    /\ \A i \in DOMAIN reps : Inline(i) \/ Used(reps[i].members) \subseteq reps[i].entities
    /\ \A i, j \in DOMAIN reps : reps[i].state = reps[j].state => reps[i].members = reps[j].members
    /\ \A c \in certs : reps[c[1]].members = Applied(revs[c[2]].was, revs[c[2]].edits)
    /\ \A s \in StateIds : There(s) # {} => main[s] \in There(s)
    /\ ChangesExact
=============================================================================
