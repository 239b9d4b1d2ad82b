------------------------------ MODULE Selections ------------------------------
(***************************************************************************)
(* Selected members of keyed states (adapters/storage/core_selections.py,  *)
(* selection.py, domain/core_encoding.py).                                 *)
(*                                                                         *)
(* A definition says which members count, what of them is compared and in  *)
(* which order; its value for a state is one row per member, and evidence  *)
(* over the rows.  For a state whose ancestor already has one, only the    *)
(* members whose address differs are evaluated, against the ancestor's     *)
(* retained rows, and a session keeps such a plan for later calls.         *)
(***************************************************************************)
EXTENDS Naturals, Sequences, FiniteSets, Functions, SequencesExt

CONSTANTS
    SelKeys,       \* member keys, natural numbers
    SelOccs,       \* occurrences, natural numbers
    SelField(_),   \* occurrence -> the value that the selector's fields have in it
    Definitions,   \* records: scope, material, identity, order
    Generations,   \* length of the history of states
    Beginnings,    \* memberships of the first state
    PlanLimit,     \* plans that a session keeps
    Nil

\* A row of a selection: the member's occurrence, what is compared of it, and its sort key.
SelFields == {SelField(o) : o \in SelOccs}
SelRows == [occ : SelOccs \cup {Nil}, code : Seq(SelFields) \X Seq(SelKeys) \X Seq(SelOccs), sort : SelFields \cup {0}]

\* A scope names member keys; Nil is no occurrence, no row, no set of keys and no set of changes.
ASSUME SelectionAssumption ==
    /\ IsFiniteSet(SelKeys) /\ Generations \in Nat /\ PlanLimit \in Nat \ {0}
    /\ \A d \in Definitions : d.scope = Nil \/ d.scope \subseteq SelKeys
    /\ Nil \notin SelOccs /\ Nil \notin SelRows
    /\ \A D \in SUBSET SelKeys : Nil # D /\ Nil \notin [D -> SelRows \cup {Nil}]

VARIABLES
    mem,       \* state -> its membership; state n + 1 revises state n
    edited,    \* state -> keys of its certified revision's edits, or Nil
    defn,      \* the definition
    kept,      \* state -> its retained selection, or Nil
    plans      \* the session's plans, oldest first

evars == <<mem, edited, defn, kept, plans>>

Scoped == defn.scope # Nil
Selectable == IF Scoped THEN defn.scope ELSE SelKeys

(* member_bytes: presence and value, with the key and the occurrence only  *)
(* where the definition makes them material.                               *)
MemberBytes(key, occ) ==
    <<IF occ = Nil THEN <<>> ELSE <<SelField(occ)>>,
      IF defn.material THEN <<key>> ELSE <<>>,
      IF defn.identity /\ occ # Nil THEN <<occ>> ELSE <<>> >>

SortKey(occ) == IF defn.order = Nil \/ occ = Nil THEN 0 ELSE SelField(occ)
SelRow(key, occ) == [occ |-> occ, code |-> MemberBytes(key, occ), sort |-> SortKey(occ)]

(* _computed_rows over the whole state: named members that are missing     *)
(* have rows, too.                                                         *)
FullRows(m) == [k \in {x \in Selectable : Scoped \/ m[x] # Nil} |-> SelRow(k, m[k])]

(* _ordering: by the sort key in its direction, then by member key.        *)
Ordering(order, sorts, k, l) ==
    IF sorts[k] = sorts[l] THEN k < l
    ELSE IF order = "descending" THEN sorts[k] > sorts[l] ELSE sorts[k] < sorts[l]

(* What is compared of each row, as a multiset and in order.               *)
Codes(rows) == [k \in DOMAIN rows |-> rows[k].code]
Sorts(rows) == [k \in DOMAIN rows |-> rows[k].sort]
Counted(codes) == [c \in Range(codes) |-> Cardinality({k \in DOMAIN codes : codes[k] = c})]
Listed(order, codes, sorts) ==
    LET keys == SetToSortSeq(DOMAIN sorts, LAMBDA k, l : Ordering(order, sorts, k, l))
    IN  [i \in DOMAIN keys |-> codes[keys[i]]]

(* member_stream_evidence: of the multiset of rows, or of their sequence.  *)
Evidence(rows) ==
    IF defn.order = Nil THEN Counted(Codes(rows)) ELSE Listed(defn.order, Codes(rows), Sorts(rows))

-----------------------------------------------------------------------------
(* Plans: a retained base and the changes since.                           *)

Plan(s, base, changes) ==
    [state |-> s, base |-> base, rows |-> kept[base].rows, evidence |-> kept[base].evidence, changes |-> changes]

Retained(s) == kept[s] # Nil /\ kept[s].there
Cached(s) == {i \in DOMAIN plans : plans[i].state = s /\ Retained(plans[i].base)}

(* _certified: the session's plan of the state, or its retained selection. *)
PlanCertified(s) == Cached(s) # {} \/ Retained(s)
CertifiedPlan(s) == IF Cached(s) # {} THEN plans[CHOOSE i \in Cached(s) : TRUE] ELSE Plan(s, s, Nil)

(* _members: the nearest certified state among the ancestors.              *)
Ancestors(s) == {a \in 1..s : PlanCertified(a)}
Nearest(s) == CHOOSE a \in Ancestors(s) : \A b \in Ancestors(s) : b <= a

(* states.changed_keys: edited keys between two states, when each revision *)
(* on the way is certified.                                                *)
EditedKeys(s, base) ==
    IF \E t \in (base + 1)..s : edited[t] = Nil THEN SelKeys ELSE UNION {edited[t] : t \in (base + 1)..s}

(* Addresses that differ from the base's retained rows.                    *)
Addresses(s, plan, since) ==
    {k \in Selectable \cap EditedKeys(s, since) :
        (IF k \in DOMAIN plan.rows THEN plan.rows[k].occ ELSE Nil) # mem[s][k]}

Changes(s, keys) == [k \in keys |-> IF mem[s][k] = Nil /\ ~ Scoped THEN Nil ELSE SelRow(k, mem[s][k])]

(* Variant: differences are taken from the nearest state, which need not   *)
(* be the one whose rows the plan holds.                                   *)
MembersNearest(s) ==
    LET plan == CertifiedPlan(Nearest(s))
    IN  IF Nearest(s) = s THEN plan
        ELSE Plan(s, plan.base, Changes(s, Addresses(s, plan, Nearest(s))))

SelMembers(s) ==
    LET plan == CertifiedPlan(Nearest(s))
    IN  IF Nearest(s) = s THEN plan
        ELSE Plan(s, plan.base, Changes(s, Addresses(s, plan, plan.base)))

(* _member_relation *)
Merged(plan) ==
    IF plan.changes = Nil THEN plan.rows
    ELSE LET put == {k \in DOMAIN plan.changes : plan.changes[k] # Nil}
         IN  [k \in (DOMAIN plan.rows \ DOMAIN plan.changes) \cup put |->
                IF k \in put THEN plan.changes[k] ELSE plan.rows[k]]

(* _plan_evidence: the base's evidence stands when the changed rows cancel *)
(* out, as a multiset, or row for row when order matters.                  *)
Cancels(plan) ==
    LET old == [k \in DOMAIN plan.changes \cap DOMAIN plan.rows |-> plan.rows[k]]
        new == [k \in {x \in DOMAIN plan.changes : plan.changes[x] # Nil} |-> plan.changes[k]]
    IN  IF defn.order = Nil THEN Counted(Codes(old)) = Counted(Codes(new))
        ELSE Codes(old) = Codes(new) /\ Sorts(old) = Sorts(new)

PlanEvidence(plan) ==
    IF plan.changes = Nil \/ Cancels(plan) THEN plan.evidence ELSE Evidence(Merged(plan))

(* _remember: one plan per state, the oldest go.                           *)
Remembered(ps, plan) ==
    LET same == {i \in DOMAIN ps : ps[i].state = plan.state}
        others == IF same = {} THEN ps ELSE RemoveAt(ps, CHOOSE i \in same : TRUE)
        room == IF Len(others) < PlanLimit THEN others
                ELSE SubSeq(others, Len(others) - PlanLimit + 2, Len(others))
    IN  Append(room, plan)

(* What _members remembers: the plan of a retained selection it came upon, *)
(* and the one it made over it.                                            *)
AfterCertified(s) == IF Cached(Nearest(s)) # {} THEN plans ELSE Remembered(plans, CertifiedPlan(Nearest(s)))
AfterMembers(s) == IF Nearest(s) = s THEN AfterCertified(s) ELSE Remembered(AfterCertified(s), SelMembers(s))

-----------------------------------------------------------------------------
(* binding_evidence of a state dependency, within a session.               *)
Bind(s) ==
    /\ Ancestors(s) # {}
    /\ plans' = AfterMembers(s)
    /\ UNCHANGED <<mem, edited, defn, kept>>

(* _write_members: all rows of the state, or the changes applied to those  *)
(* of a nearer selection, beside their evidence.                           *)
SelWritten(s) ==
    LET plan == SelMembers(s)
    IN  IF Ancestors(s) = {}
        THEN [rows |-> FullRows(mem[s]), evidence |-> Evidence(FullRows(mem[s])), there |-> TRUE]
        ELSE [rows |-> Merged(plan), evidence |-> PlanEvidence(plan), there |-> TRUE]

(* retain: what is written is certified; the plan that is kept afterwards  *)
(* is its own.                                                             *)
Retain(s) ==
    /\ ~ Retained(s)
    /\ LET made == SelWritten(s)
           known == IF Ancestors(s) = {} THEN plans ELSE AfterMembers(s)
       IN  /\ kept' = [kept EXCEPT ![s] = made]
           /\ plans' = Remembered(known, [state |-> s, base |-> s, rows |-> made.rows, evidence |-> made.evidence,
                                          changes |-> Nil])
    /\ UNCHANGED <<mem, edited, defn>>

(* The session ends; removal runs between sessions.                        *)
CloseSession ==
    /\ plans # <<>>
    /\ plans' = <<>>
    /\ UNCHANGED <<mem, edited, defn, kept>>

RemoveSelected(s) ==
    /\ plans = <<>> /\ Retained(s)
    /\ kept' = [kept EXCEPT ![s].there = FALSE]
    /\ UNCHANGED <<mem, edited, defn, plans>>

(* Each state sets or removes one member of the one before; its revision   *)
(* is certified, or it was published as a new state.                       *)
Sel == 1..Generations
SelInit ==
    /\ mem \in [Sel -> [SelKeys -> SelOccs \cup {Nil}]] /\ mem[1] \in Beginnings
    /\ \A s \in Sel \ {1} : \E k \in SelKeys, o \in SelOccs \cup {Nil} : mem[s] = [mem[s - 1] EXCEPT ![k] = o]
    /\ edited \in {[s \in Sel |-> IF s = 1 THEN Nil ELSE {k \in SelKeys : mem[s][k] # mem[s - 1][k]}],
                   [s \in Sel |-> Nil]}
    /\ defn \in Definitions
    /\ kept = [s \in Sel |-> Nil]
    /\ plans = <<>>

SelNext ==
    \/ \E s \in Sel : Bind(s) \/ Retain(s) \/ RemoveSelected(s)
    \/ CloseSession

SelSpec == SelInit /\ [][SelNext]_evars

-----------------------------------------------------------------------------
(* What a selection retains, and the evidence a session answers with, is   *)
(* what evaluating the definition over the whole state gives, whatever     *)
(* retained ancestor or kept plan it was derived from.                     *)
SelectionsExact ==
    /\ \A s \in Sel : kept[s] # Nil =>
            kept[s].rows = FullRows(mem[s]) /\ kept[s].evidence = Evidence(FullRows(mem[s]))
    /\ \A i \in DOMAIN plans : PlanEvidence(plans[i]) = Evidence(FullRows(mem[plans[i].state]))
=============================================================================
