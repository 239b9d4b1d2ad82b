------------------------------ MODULE Generation ------------------------------
(***************************************************************************)
(* Table-shaped states: admission of a producer's generation               *)
(* (CoreWorkspace.admit_generation, application/generation_admission.py)   *)
(* and derivation of a table from caller rows (table_derivation.py), with  *)
(* the layers both write (storage/core_tables.py, table_occurrences.py)    *)
(* and the dataset pointer both advance (table_units.py, select_current).  *)
(*                                                                         *)
(* Callers run concurrently and may be killed at any point; a retry is one *)
(* more call.  The state of a generation is named by its pin, that of a    *)
(* derivation by its batch, so racing calls meet at the same name.  A call *)
(* publishes in one transaction and advances the dataset in a later one.   *)
(***************************************************************************)
EXTENDS GenerationSource, Functions

CONSTANTS
    Callers,
    GArtifact,    \* pin -> artifact
    GRequests,    \* batch -> the requests callers make under it
    GDatasets,
    GTargets,     \* pin -> the datasets callers admit it for; Blank is none
    GMaxCalls,    \* bound on calls begun
    GOffers       \* artifacts judged on their own

VARIABLES
    states,       \* published table-shaped states by name
    heads,        \* dataset -> its current state, or Blank
    updates,      \* applied current updates: <<dataset, state, base>>
    offered,      \* an artifact judged on its own, outside any call, or Blank
    gcall,        \* caller -> its call
    gcalls        \* calls begun

gvars == <<states, heads, updates, offered, gcall, gcalls>>

ASSUME ArtifactsAssumption ==
    (\A p \in DOMAIN GArtifact : Wellformed(GArtifact[p])) /\ \A a \in GOffers : Wellformed(a)

Pins == DOMAIN GArtifact
SelectablePins == {p \in Pins : Selectable(GArtifact[p])}
VerifiedPins == {p \in Pins : Verified(GArtifact[p])}
TrustworthyPins == {p \in Pins : Trustworthy(GArtifact[p])}

(* The rows of the table to admit, over all its members.                   *)
KeysApart(a) ==
    \A p, q \in Places(a, GTable) : RecordAt(a, p).key = RecordAt(a, q).key => p = q

TableOf(a) ==
    [k \in {RecordAt(a, p).key : p \in Places(a, GTable)} |->
        LET r == RecordAt(a, CHOOSE p \in Places(a, GTable) : RecordAt(a, p).key = k) IN <<r.val, r.part>>]

PinTable == [p \in VerifiedPins |-> TableOf(GArtifact[p])]

GBatches == DOMAIN GRequests

(* States are named apart: by a pin, or by a batch under its own prefix.   *)
GNames == Pins \cup GBatches

ASSUME NamesAssumption ==
    /\ Pins \cap GBatches = {}
    /\ Blank \notin GNames \cup GDatasets \cup {"done", "retry"}

ASSUME CallsAssumption ==
    /\ \A p \in Pins : GTargets[p] \subseteq GDatasets \cup {Blank}
    /\ \A b \in GBatches : \A q \in GRequests[b] :
         /\ q.dataset \in GDatasets \cup {Blank} /\ q.base \in GNames \cup {Blank}
         /\ q.rows = [k \in DOMAIN q.rows |-> q.rows[k]] /\ IsFiniteSet(DOMAIN q.rows)

Published(s) == s \in DOMAIN states

Resting == [pc |-> "idle", id |-> 0, name |-> Blank, dataset |-> Blank, base |-> Blank,
            request |-> Blank, outcome |-> Blank]
InSession == {"layers", "derive", "reuse"}
In(c, pc) == gcall[c].pc = pc
Steps(c, call) == gcall' = [gcall EXCEPT ![c] = call]
To(c, pc) == Steps(c, [gcall[c] EXCEPT !.pc = pc])
(* What is remembered of a call that answered; a refused or killed one     *)
(* leaves nothing.                                                         *)
Ended(call, outcome) ==
    IF outcome = "refused" THEN Resting
    ELSE [call EXCEPT !.pc = "idle", !.outcome = outcome, !.base = Blank, !.request = Blank]
Ends(c, outcome) == Steps(c, Ended(gcall[c], outcome))
Judged(c, ok, pc) == IF ok THEN To(c, pc) ELSE Ends(c, "refused")

NothingWritten == UNCHANGED <<states, heads, updates, offered>>

-----------------------------------------------------------------------------
(* The layers of a table-shaped state.                                     *)

(* f, and g where f has nothing.                                           *)
Over(f, g) == [x \in DOMAIN f \cup DOMAIN g |-> IF x \in DOMAIN f THEN f[x] ELSE g[x]]

(* table_occurrence_id: the key and the digest of the row under the        *)
(* identity's columns.                                                     *)
Occurrence(k, val, columns) == <<k, val, columns>>

(* mint_identities                                                         *)
Mint(table, columns) == [k \in DOMAIN table |-> Occurrence(k, table[k], columns)]

(* append_occurrences: what the index lacks is generated by this state,    *)
(* what it holds is adopted and keeps its first state.                     *)
AppendOccurrences(index, minted, s) ==
    Over(index, [o \in Range(minted) |-> s])

(* Variant: changed rows are taken for carried ones.                       *)
FreshKeysAdded(base, table) == DOMAIN table \ DOMAIN base.table

(* One all-column join finds the added and the changed rows.               *)
FreshKeys(base, table) ==
    {k \in DOMAIN table : k \notin DOMAIN base.table \/ base.table[k] # table[k]}

(* _revise_membership: the base's members without the keys gone, under the *)
(* fresh ones.                                                             *)
Revise(membership, fresh, gone) ==
    Over(fresh, Restrict(membership, DOMAIN membership \ gone))

Counted(added, changed, removed, carried, index, old) ==
    [added |-> added, changed |-> changed, removed |-> removed, carried |-> carried,
     generated |-> Cardinality(DOMAIN index) - Cardinality(old)]

Layers(table, columns, membership, index, counts) ==
    [table |-> table, columns |-> columns, membership |-> membership, index |-> index, counts |-> counts]

NoIndex == [o \in {} |-> Blank]

(* admit_layers, without a base.                                           *)
FirstLayers(table, columns, s) ==
    LET minted == Mint(table, columns)
        index == AppendOccurrences(NoIndex, minted, s)
    IN  Layers(table, columns, minted, index,
               Counted(Cardinality(DOMAIN table), 0, 0, 0, index, {}))

(* _apply_delta: the counts come from the minted rows and the row totals.  *)
DeltaLayers(base, table, columns, s) ==
    LET fresh == Mint(Restrict(table, FreshKeys(base, table)), columns)
        gone == DOMAIN base.membership \ DOMAIN table
        membership == Revise(base.membership, fresh, gone)
        index == AppendOccurrences(base.index, fresh, s)
        rows == Cardinality(DOMAIN table)
        minted == Cardinality(DOMAIN fresh)
        changed == Cardinality(DOMAIN fresh \cap DOMAIN base.membership)
        removed == (Cardinality(DOMAIN base.membership) + minted - changed) - rows
    IN  Layers(table, columns, membership, index,
               Counted(minted - changed, changed, removed, rows - minted, index, DOMAIN base.index))

(* Other columns re-mint every row against the base's index; the counts    *)
(* compare the memberships.                                                *)
RemintLayers(base, table, columns, s) ==
    LET minted == Mint(table, columns)
        index == AppendOccurrences(base.index, minted, s)
        old == base.membership
        added == Cardinality(DOMAIN minted \ DOMAIN old)
        changed == Cardinality({k \in DOMAIN minted \cap DOMAIN old : minted[k] # old[k]})
    IN  Layers(table, columns, minted, index,
               Counted(added, changed, Cardinality(DOMAIN old \ DOMAIN minted),
                       (Cardinality(DOMAIN table) - added) - changed, index, DOMAIN base.index))

(* With the columns of the base a delta, with others every row anew.       *)
AdmittedLayers(base, table, columns, s) ==
    IF base.columns = columns THEN DeltaLayers(base, table, columns, s)
    ELSE RemintLayers(base, table, columns, s)

(* _apply_derivation: a derived key is <<source member, segment>>.  The    *)
(* rows replace every row of the source members they name, and removals    *)
(* drop theirs; only rows whose occurrence changed are written.            *)
MembersNamed(q) == {k[1] : k \in DOMAIN q.rows} \cup q.removals

DerivedLayers(base, q, s) ==
    LET minted == Mint(q.rows, q.columns)
        old == {k \in DOMAIN base.table : k[1] \in MembersNamed(q)}
        changed == {k \in DOMAIN minted : k \notin old \/ base.membership[k] # minted[k]}
        gone == old \ DOMAIN minted
        fresh == Restrict(minted, changed)
        index == AppendOccurrences(base.index, fresh, s)
    IN  Layers(Revise(base.table, Restrict(q.rows, changed), gone), q.columns,
               Revise(base.membership, fresh, gone), index,
               Counted(Cardinality(changed \ old), Cardinality(changed \cap old), Cardinality(gone),
                       Cardinality(DOMAIN minted \ changed), index, DOMAIN base.index))

Unit(layers, c, spelling, kind) ==
    [table |-> layers.table, columns |-> layers.columns, membership |-> layers.membership,
     index |-> layers.index, counts |-> layers.counts, spelling |-> spelling, kind |-> kind,
     base |-> gcall[c].base, dataset |-> gcall[c].dataset, request |-> gcall[c].request,
     by |-> gcall[c].id, there |-> TRUE]

Publish(s, unit) ==
    states' = [t \in DOMAIN states \cup {s} |-> IF t = s THEN unit ELSE states[t]]

-----------------------------------------------------------------------------
(* Admission.                                                              *)

(* resolve_generation: the mutable pointer is read once, whatever it names *)
(* then; the prefix and the pin it gave are used from there on, wherever   *)
(* it points meanwhile.                                                    *)
Resolve(c, p, d) ==
    /\ In(c, "idle") /\ gcalls < GMaxCalls
    /\ gcalls' = gcalls + 1
    /\ Steps(c, [Resting EXCEPT !.pc = "select", !.id = gcalls + 1, !.name = p, !.dataset = d])
    /\ NothingWritten

(* retained_generation: an admission this workspace completed is reused    *)
(* when it is still there and the installed validator made its report; the *)
(* report's base is what the dataset must be at.  The request's evidence   *)
(* is the pinned metadata, which is immutable.                             *)
SelectRetained(c, installed) ==
    LET s == gcall[c].name IN
    /\ In(c, "select")
    /\ IF s \notin SelectablePins THEN Ends(c, "refused")
       ELSE IF ~ Published(s) THEN To(c, "stage")
       ELSE IF states[s].there /\ installed THEN Steps(c, [gcall[c] EXCEPT !.pc = "reuse", !.base = states[s].base])
       ELSE Ends(c, "refused")
    /\ UNCHANGED gcalls /\ NothingWritten

(* stage_generation: every member is copied and hashed, then verified; the *)
(* bytes served may no longer be the ones the pin names.                   *)
Stage(c, intact) ==
    /\ In(c, "stage")
    /\ Judged(c, intact /\ gcall[c].name \in VerifiedPins, "admit")
    /\ UNCHANGED gcalls /\ NothingWritten

(* The session opens: a state that appeared meanwhile asks for a retry.    *)
(* Otherwise the dataset's current state becomes the base.                 *)
OpenAdmission(c) ==
    LET s == gcall[c].name
        d == gcall[c].dataset IN
    /\ In(c, "admit")
    /\ IF Published(s) THEN Ends(c, "retry")
       ELSE Steps(c, [gcall[c] EXCEPT !.pc = "layers", !.base = IF d = Blank THEN Blank ELSE heads[d]])
    /\ UNCHANGED gcalls /\ NothingWritten

(* admit_table's checks of the base, and a key that repeats.               *)
Extends(a, base) ==
    /\ KeysApart(a)
    /\ base # Blank => states[base].kind = "admitted" /\ states[base].spelling = KeyRule(a)

(* The membership holds exactly the table's rows, by number.               *)
Agree(layers) == Cardinality(DOMAIN layers.membership) = Cardinality(DOMAIN layers.table)

LayersFor(s, base) ==
    LET columns == GArtifact[s].tables[GTable].columns IN
    IF base = Blank THEN FirstLayers(PinTable[s], columns, s)
    ELSE AdmittedLayers(states[base], PinTable[s], columns, s)

(* The unit is published.  A collision with a competitor fails, as may the *)
(* check of minted identities; a refusal before publishing stands.         *)
PublishAdmission(c) ==
    LET s == gcall[c].name
        base == gcall[c].base
        a == GArtifact[s] IN
    /\ In(c, "layers")
    /\ IF ~ (Extends(a, base) /\ Agree(LayersFor(s, base))) THEN Ends(c, "refused") /\ UNCHANGED states
       ELSE IF Published(s) THEN To(c, "failed") /\ UNCHANGED states
       ELSE /\ Publish(s, Unit(LayersFor(s, base), c, KeyRule(a), "admitted"))
            /\ To(c, "advance")
    /\ UNCHANGED <<heads, updates, offered, gcalls>>

FailPublish(c) ==
    /\ In(c, "layers") /\ Extends(GArtifact[gcall[c].name], gcall[c].base)
    /\ To(c, "failed")
    /\ UNCHANGED gcalls /\ NothingWritten

(* Only a failed publish is taken for a collision, and only when the state *)
(* exists by then.                                                         *)
AskAgain(c) ==
    /\ In(c, "failed")
    /\ Ends(c, IF Published(gcall[c].name) THEN "retry" ELSE "refused")
    /\ UNCHANGED gcalls /\ NothingWritten

-----------------------------------------------------------------------------
(* Derivation.                                                             *)

(* derive_table takes the guard of the batch's request for its session:    *)
(* one call of a batch at a time.                                          *)
Derivable(q) ==
    /\ \A s \in q.inputs \cup ({q.base} \ {Blank}) : Published(s) /\ states[s].there
    /\ DOMAIN q.rows # {} \/ q.removals # {}
    /\ q.base = Blank => q.removals = {}
    /\ \A k \in DOMAIN q.rows : k[1] \notin q.removals
    /\ q.base # Blank => states[q.base].kind = "derived" /\ states[q.base].columns = q.columns

(* What the request of a batch binds: not the dataset, which a retry may   *)
(* change or give for the first time.                                      *)
Bound(q) ==
    [inputs |-> q.inputs, columns |-> q.columns, base |-> q.base, rows |-> q.rows, removals |-> q.removals]

(* A batch already published is returned when the request is the same and  *)
(* its state is there; a new one is checked against the dataset first.     *)
Judgement(b, q) ==
    IF Published(b) THEN IF states[b].request = Bound(q) /\ states[b].there THEN "advance" ELSE "refused"
    ELSE IF ~ Derivable(q) THEN "refused"
    ELSE IF q.dataset # Blank /\ heads[q.dataset] # q.base THEN "stale" ELSE "derive"

Derive(c, b, q) ==
    LET judged == Judgement(b, q)
        call == [Resting EXCEPT !.pc = judged, !.id = gcalls + 1, !.name = b, !.dataset = q.dataset,
                                !.base = q.base, !.request = Bound(q)] IN
    /\ In(c, "idle") /\ gcalls < GMaxCalls
    /\ \A e \in Callers : ~ (In(e, "derive") /\ gcall[e].name = b)
    /\ gcalls' = gcalls + 1
    /\ Steps(c, IF judged \in {"advance", "derive"} THEN call ELSE Ended(call, judged))
    /\ NothingWritten

PublishDerivation(c) ==
    LET b == gcall[c].name
        q == gcall[c].request
        layers == IF q.base = Blank THEN FirstLayers(q.rows, q.columns, b)
                  ELSE DerivedLayers(states[q.base], q, b) IN
    /\ In(c, "derive")
    /\ IF Agree(layers) THEN Publish(b, Unit(layers, c, Blank, "derived")) /\ To(c, "advance")
       ELSE Ends(c, "refused") /\ UNCHANGED states
    /\ UNCHANGED <<heads, updates, offered, gcalls>>

-----------------------------------------------------------------------------
(* The dataset's pointer.                                                  *)

(* Variant: the pointer moves whatever it names.                           *)
MayMoveAlways(d, base) == TRUE

(* select_current compares with the base the call was made over.           *)
MayMove(d, base) == heads[d] = base

(* advance: a dataset already at the state, and an update applied before,  *)
(* are left alone.                                                         *)
Advance(c) ==
    LET s == gcall[c].name
        d == gcall[c].dataset
        u == <<d, s, gcall[c].base>> IN
    /\ In(c, "advance") \/ In(c, "reuse")
    /\ IF d = Blank \/ (d # Blank /\ heads[d] = s) \/ u \in updates
       THEN Ends(c, "done") /\ UNCHANGED <<heads, updates>>
       ELSE IF ~ MayMove(d, gcall[c].base) THEN Ends(c, "stale") /\ UNCHANGED <<heads, updates>>
       ELSE IF ~ states[s].there THEN Ends(c, "refused") /\ UNCHANGED <<heads, updates>>
       ELSE /\ heads' = [heads EXCEPT ![d] = s]
            /\ updates' = updates \cup {u}
            /\ Ends(c, "done")
    /\ UNCHANGED <<states, offered, gcalls>>

-----------------------------------------------------------------------------
(* The process dies, and with it its session and guard.                    *)
Killed(c) ==
    /\ ~ In(c, "idle") /\ Ends(c, "refused")
    /\ UNCHANGED gcalls /\ NothingWritten

(* Maintenance removes a state no dataset names, while no session is open. *)
RemoveState(s) ==
    /\ Published(s) /\ states[s].there
    /\ \A d \in GDatasets : heads[d] # s
    /\ \A c \in Callers : gcall[c].pc \notin InSession
    /\ states' = [states EXCEPT ![s].there = FALSE]
    /\ UNCHANGED <<heads, updates, offered, gcall, gcalls>>

GenerationInit ==
    /\ offered \in GOffers \cup {Blank}
    /\ states = [s \in {} |-> Blank]
    /\ heads = [d \in GDatasets |-> Blank]
    /\ updates = {} /\ gcall = [c \in Callers |-> Resting] /\ gcalls = 0

GenerationNext ==
    \/ \E c \in Callers :
          \/ \E p \in Pins : \E d \in GTargets[p] : Resolve(c, p, d)
          \/ \E b \in GBatches : \E q \in GRequests[b] : Derive(c, b, q)
          \/ \E ok \in BOOLEAN : SelectRetained(c, ok) \/ Stage(c, ok)
          \/ OpenAdmission(c) \/ PublishAdmission(c)
          \/ FailPublish(c) \/ AskAgain(c) \/ PublishDerivation(c) \/ Advance(c) \/ Killed(c)
    \/ \E s \in DOMAIN states : RemoveState(s)

GenerationSpec == GenerationInit /\ [][GenerationNext]_gvars

-----------------------------------------------------------------------------
(* The table a state stands for, from what its call was given.             *)
Meant(s) ==
    LET u == states[s] IN
    IF u.kind = "admitted" THEN PinTable[s]
    ELSE IF u.base = Blank THEN u.request.rows
    ELSE Over(u.request.rows,
              Restrict(states[u.base].table,
                       {k \in DOMAIN states[u.base].table : k[1] \notin MembersNamed(u.request)}))

Inherited(s) == IF states[s].base = Blank THEN NoIndex ELSE states[states[s].base].index

(* Every published table state, however many generations and derivations   *)
(* it was built over, holds exactly the rows its artifact or request       *)
(* means, each at the occurrence of that row; its index holds every one of *)
(* them and each occurrence's first state; its report counts add up; and   *)
(* the artifact it was admitted from, like any that passes the checks, is  *)
(* complete, agrees with the publication and matches its receipts row for  *)
(* row.                                                                    *)
GenerationExact ==
    /\ offered # Blank /\ Selectable(offered) /\ Verified(offered) => Trustworthy(offered)
    /\ \A s \in DOMAIN states :
        LET u == states[s]
            old == Inherited(s)
            rows == Meant(s)
            was == IF u.base = Blank THEN NoIndex ELSE states[u.base].membership
        IN  /\ u.table = rows
            /\ u.membership = Mint(rows, u.columns)
            /\ DOMAIN u.index = DOMAIN old \cup Range(u.membership)
            /\ \A o \in DOMAIN u.index : u.index[o] = IF o \in DOMAIN old THEN old[o] ELSE s
            /\ u.counts.added = Cardinality(DOMAIN rows \ DOMAIN was)
            /\ u.counts.removed = Cardinality(DOMAIN was \ DOMAIN rows)
            /\ u.counts.changed = Cardinality({k \in DOMAIN rows \cap DOMAIN was : u.membership[k] # was[k]})
            /\ u.counts.generated = Cardinality(DOMAIN u.index \ DOMAIN old)
            /\ u.kind = "admitted" =>
                  s \in TrustworthyPins /\ Cardinality(DOMAIN rows) = GArtifact[s].tables[GTable].rows

(* No update of a dataset is lost: the updates applied to it form one      *)
(* chain from nothing to its current state, each over the state before it, *)
(* whatever raced, was killed between publishing and advancing, or was     *)
(* retried.  A call that returns its state has had its update applied or   *)
(* found the dataset there, and one told to retry was overtaken by         *)
(* another call's publication.                                             *)
HeadsChain ==
    /\ \A u, v \in updates : u[1] = v[1] /\ (u[2] = v[2] \/ u[3] = v[3]) => u = v
    /\ \A d \in GDatasets :
          LET mine == {u \in updates : u[1] = d} IN
          /\ {heads[d]} = IF mine = {} THEN {Blank} ELSE {u[2] : u \in mine} \ {u[3] : u \in mine}
          /\ heads[d] # Blank => Published(heads[d]) /\ states[heads[d]].there
    /\ \A c \in Callers :
          LET e == gcall[c] IN
          /\ e.outcome = "done" /\ e.dataset # Blank => \E u \in updates : u[1] = e.dataset /\ u[2] = e.name
          /\ e.outcome = "retry" => Published(e.name) /\ states[e.name].by # e.id
=============================================================================
