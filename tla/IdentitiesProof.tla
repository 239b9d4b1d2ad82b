--------------------------- MODULE IdentitiesProof ---------------------------
(***************************************************************************)
(* Identities, for every set of sessions, identities, layers and members,  *)
(* and any number of attempts: why a check made apart from the commit is   *)
(* as good as one made in it.                                              *)
(***************************************************************************)
EXTENDS Identities, FiniteSetTheorems, TLAPS

Claims == {Occurrence(d) : d \in Digests} \cup {StateRow}

\* What a unit publishes has the form its operation gives it.
Formed(op) ==
    /\ op.what \in {"row", "bulk", "pin"}
    /\ op.id \in Ids
    /\ op.what = "row" => op.new \in Claims
    /\ op.what = "bulk" => op.bulk \in Bulks /\ op.id = StateOf[op.bulk] /\ op.new = StateRow
    /\ op.what = "pin" => op.new \in Claims \cup {None}

\* Marks that a session knows are not later than the newest, and an attempt sees the
\* mark it started from while it stands.
Dated(t) ==
    /\ t.mark <= mark
    /\ t.seen # None => t.seen <= mark
    /\ t.pc \in {"rows", "locate", "search", "commit"} =>
         t.seen # None /\ (t.mark = mark => t.seen = mark)

\* No layer has a copy of the identity that the claim contradicts.
Agrees(i, r) ==
    \A c \in Available : \A m \in Members[c] : m[1] = i => r.kind = "entity" /\ r.digest = m[2]

\* What an attempt has checked: for as long as its mark stands, or, where it searched
\* nothing, for good, because an identity that has a row keeps it.
Checked(t) ==
    /\ t.pc \in {"view", "rows", "locate", "search", "commit"} => Formed(t.op)
    /\ t.pc \in {"locate", "search"} => t.search = {t.op.id}
    /\ t.pc = "commit" => t.search \in {{}, {t.op.id}}
    /\ t.pc \in {"locate", "search", "commit"} /\ t.op.what = "bulk" /\ t.mark = mark =>
         LedgerCopies(t.op.bulk)
    /\ t.pc = "commit" /\ t.search = {} => row[t.op.id] # None
    /\ t.pc = "commit" /\ t.search # {} =>
         t.op.new # None /\ (t.mark = mark => Agrees(t.op.id, t.op.new))

\* What a session remembers is what is there, unless layers came since its last look;
\* before its first look it remembers nothing.
Coherent(t) ==
    /\ t.view # None => t.view = Available
    /\ \A i \in t.misses : Held(Copies(Available), i) = {}
    /\ \A h \in t.hits : Held(Copies(Available), h[1]) = {h[2]}

Remembers(t) ==
    /\ t.seen = None => t.view = None /\ t.misses = {} /\ t.hits = {}
    /\ t.seen # None /\ (\A m \in layered : m <= t.seen) => Coherent(t)

Sound(t) == Dated(t) /\ Checked(t) /\ Remembers(t)

SessionsSound == \A s \in Sessions : session[s] # None => Sound(session[s])

\* The inductive invariant.
IInv == TypeOK /\ RowsAgree /\ SessionsSound

-----------------------------------------------------------------------------
(* Copies, and steps of one session                                         *)

\* What a unit may claim is a row.
LEMMA ClaimsAreRows == Claims \subseteq Rows /\ \A r \in Claims : r # None
<1>1. ASSUME NEW d \in Digests, NEW b \in BOOLEAN
      PROVE  [kind |-> "entity", digest |-> d, there |-> b] \in Rows
  BY DEF Rows
<1>2. \A d \in Digests : Occurrence(d) \in Rows
  BY <1>1 DEF Occurrence
<1>3. StateRow \in Rows
  <2>1. ASSUME NEW b \in BOOLEAN PROVE [kind |-> "state", digest |-> None, there |-> b] \in Rows
    BY DEF Rows
  <2> QED
    BY <2>1 DEF StateRow
<1> QED
  BY <1>2, <1>3, RowAssumption DEF Claims

\* The digests under which the given layers hold an identity.
LEMMA HeldDigests ==
    ASSUME NEW cs \in SUBSET Bulks, NEW i
    PROVE  Held(Copies(cs), i) = {d \in Digests : \E c \in cs : <<i, d>> \in Members[c]}
<1>1. \A c \in cs : Members[c] \subseteq Ids \X Digests
  BY IdentityAssumption
<1>2. \A m \in Copies(cs) : m = <<m[1], m[2]>> /\ m[2] \in Digests /\ \E c \in cs : m \in Members[c]
  BY <1>1 DEF Copies
<1>3. ASSUME NEW d \in Held(Copies(cs), i)
      PROVE  d \in Digests /\ \E c \in cs : <<i, d>> \in Members[c]
  <2>1. PICK m \in Copies(cs) : m[1] = i /\ m[2] = d
    BY DEF Held
  <2> QED
    BY <1>2, <2>1
<1>4. ASSUME NEW d \in Digests, NEW c \in cs, <<i, d>> \in Members[c]
      PROVE  d \in Held(Copies(cs), i)
  <2>1. <<i, d>> \in Copies(cs)
    BY <1>4 DEF Copies
  <2>2. <<i, d>>[1] = i /\ <<i, d>>[2] = d
    OBVIOUS
  <2> QED
    BY <2>1, <2>2 DEF Held
<1> QED
  BY <1>3, <1>4

\* The copies of an identity allow a claim that has the digest of all of them.
LEMMA HeldAgrees ==
    ASSUME NEW i, NEW r,
           \/ Held(Copies(Available), i) = {}
           \/ r.kind = "entity" /\ Held(Copies(Available), i) = {r.digest}
    PROVE  Agrees(i, r)
<1> SUFFICES ASSUME NEW c \in Available, NEW m \in Members[c], m[1] = i
             PROVE  r.kind = "entity" /\ r.digest = m[2]
  BY DEF Agrees
<1>1. m[2] \in Held(Copies(Available), i)
  BY DEF Held, Copies
<1> QED
  BY <1>1

\* While the ledger stands, so does what a session may rely on.
LEMMA SoundSame ==
    ASSUME NEW t, Sound(t), UNCHANGED ledger
    PROVE  Sound(t)'
BY DEF Sound, Dated, Checked, Remembers, Coherent, Agrees, LedgerCopies, Available, ledger

\* A step of a session that leaves the ledger alone.
LEMMA SessionStep ==
    ASSUME IInv, NEW s \in Sessions, NEW v \in SessionType \cup {None},
           Set(s, v), UNCHANGED ledger, units' \in 0 .. MaxUnits,
           v # None => Sound(v)
    PROVE  IInv'
<1>1. /\ session \in [Sessions -> SessionType \cup {None}]
      /\ session' \in [Sessions -> SessionType \cup {None}]
      /\ session'[s] = v
      /\ \A u \in Sessions : u # s => session'[u] = session[u]
  BY DEF IInv, TypeOK, Set
<1>2. TypeOK'
  BY <1>1 DEF IInv, TypeOK, ledger
<1>3. RowsAgree'
  BY DEF IInv, RowsAgree, Available, ledger
<1>4. SessionsSound'
  <2> SUFFICES ASSUME NEW u \in Sessions, session'[u] # None PROVE Sound(session[u])'
    BY DEF SessionsSound
  <2> PICK t : t = session'[u]
    OBVIOUS
  <2>1. Sound(t)
    BY <1>1 DEF IInv, SessionsSound
  <2> QED
    BY <2>1, SoundSame
<1> QED
  BY <1>2, <1>3, <1>4 DEF IInv

\* A session that gives its unit up keeps what it knows of the layers.
LEMMA RestSound ==
    ASSUME NEW t \in SessionType, Dated(t), Remembers(t)
    PROVE  LET v == [t EXCEPT !.pc = "idle", !.op = NoOp, !.search = {}]
           IN  v \in SessionType /\ Sound(v)
<1> PICK v : v = [t EXCEPT !.pc = "idle", !.op = NoOp, !.search = {}]
  OBVIOUS
<1>1. /\ v.pc = "idle" /\ v.seen = t.seen /\ v.mark = t.mark
      /\ v.view = t.view /\ v.hits = t.hits /\ v.misses = t.misses
  BY DEF SessionType
<1>2. v \in SessionType
  BY DEF SessionType, NoOp
<1>3. Dated(v) /\ Checked(v) /\ Remembers(v)
  BY <1>1 DEF Dated, Checked, Remembers, Coherent
<1> QED
  BY <1>2, <1>3 DEF Sound

\* Refusing a unit preserves the invariant.
LEMMA RefuseInv ==
    ASSUME IInv, NEW s \in Sessions, session[s] # None, Refuse(s), UNCHANGED <<ledger, units>>
    PROVE  IInv'
<1>1. PICK t \in SessionType : t = session[s]
  BY DEF IInv, TypeOK
<1>2. Dated(t) /\ Remembers(t)
  BY <1>1 DEF IInv, SessionsSound, Sound
<1>3. PICK v : v = [t EXCEPT !.pc = "idle", !.op = NoOp, !.search = {}]
  OBVIOUS
<1>4. v \in SessionType /\ Sound(v)
  BY <1>2, <1>3, RestSound
<1>5. Set(s, v) /\ units' \in 0 .. MaxUnits
  BY <1>1, <1>3 DEF Refuse, IInv, TypeOK
<1> QED
  BY <1>4, <1>5, SessionStep

\* After a look at the mark a session remembers nothing that is not there.
LEMMA ViewedSound ==
    ASSUME TypeOK, NEW t \in SessionType, Dated(t), Remembers(t)
    PROVE  \E v \in SessionType :
             /\ v = Viewed(t)
             /\ v.seen = mark /\ v.mark = t.mark /\ v.pc = t.pc /\ v.op = t.op
             /\ v.attempt = t.attempt /\ v.search = t.search
             /\ Coherent(v)
<1> PICK v : v = Viewed(t)
  OBVIOUS
<1>1. mark \in Nat /\ layered \subseteq 1 .. mark
  BY DEF TypeOK
<1>2. CASE t.seen # None /\ \E m \in layered : m > t.seen
  <2>1. v = [t EXCEPT !.seen = mark, !.view = None, !.hits = {}, !.misses = {}]
    BY <1>2 DEF Viewed
  <2>2. /\ v \in SessionType
        /\ v.seen = mark /\ v.mark = t.mark /\ v.pc = t.pc /\ v.op = t.op
        /\ v.attempt = t.attempt /\ v.search = t.search
        /\ v.view = None /\ v.hits = {} /\ v.misses = {}
    BY <1>1, <2>1 DEF SessionType
  <2> QED
    BY <2>2 DEF Coherent
<1>3. CASE ~(t.seen # None /\ \E m \in layered : m > t.seen)
  <2>1. v = [t EXCEPT !.seen = mark]
    BY <1>3 DEF Viewed
  <2>2. /\ v \in SessionType
        /\ v.seen = mark /\ v.mark = t.mark /\ v.pc = t.pc /\ v.op = t.op
        /\ v.attempt = t.attempt /\ v.search = t.search
        /\ v.view = t.view /\ v.hits = t.hits /\ v.misses = t.misses
    BY <1>1, <2>1 DEF SessionType
  <2>3. Coherent(t)
    <3>1. CASE t.seen = None
      BY <3>1 DEF Remembers, Coherent
    <3>2. CASE t.seen # None
      <4>1. t.seen \in Nat
        BY <3>2 DEF SessionType
      <4>2. \A m \in layered : m <= t.seen
        BY <1>1, <1>3, <3>2, <4>1
      <4> QED
        BY <3>2, <4>2 DEF Remembers
    <3> QED
      BY <3>1, <3>2
  <2> QED
    BY <2>2, <2>3 DEF Coherent
<1> QED
  BY <1>2, <1>3

-----------------------------------------------------------------------------
(* Actions of a session before its commit                                   *)

\* A session opens and closes without a claim on anything.
LEMMA OpenCloseInv ==
    ASSUME IInv, NEW s \in Sessions, Open(s) \/ Close(s)
    PROVE  IInv'
<1>1. units' \in 0 .. MaxUnits /\ UNCHANGED ledger
  BY DEF Open, Close, IInv, TypeOK
<1>2. CASE Close(s)
  <2>1. Set(s, None)
    BY <1>2 DEF Close
  <2> QED
    BY <1>1, <2>1, SessionStep
<1>3. CASE Open(s)
  <2>1. PICK v : v = Fresh
    OBVIOUS
  <2>2. /\ v.pc = "idle" /\ v.seen = None /\ v.mark = 0
        /\ v.view = None /\ v.hits = {} /\ v.misses = {}
    BY <2>1 DEF Fresh
  <2>3. v \in SessionType
    BY <2>1, IdentityAssumption DEF Fresh, SessionType, NoOp
  <2>4. Sound(v)
    BY <2>2 DEF IInv, TypeOK, Sound, Dated, Checked, Remembers
  <2>5. Set(s, v)
    BY <1>3, <2>1 DEF Open
  <2> QED
    BY <1>1, <2>3, <2>4, <2>5, SessionStep
<1> QED
  BY <1>2, <1>3

\* A unit begins with the claim of its operation.
LEMMA BeginInv ==
    ASSUME IInv, NEW s \in Sessions, NEW op \in Ops, Begin(s, op)
    PROVE  IInv'
<1>1. PICK t \in SessionType : t = session[s]
  BY DEF IInv, TypeOK, Begin
<1>2. Dated(t) /\ Remembers(t)
  BY <1>1 DEF IInv, SessionsSound, Sound, Begin
<1>3. PICK v : v = [t EXCEPT !.pc = "view", !.op = op, !.attempt = 0]
  OBVIOUS
<1>4. Formed(op)
  BY IdentityAssumption DEF Ops, Formed, Claims
<1>5. op \in [what : {"none", "row", "bulk", "pin"}, id : Ids \cup {None},
              new : Rows \cup {None}, bulk : Bulks \cup {None}]
  <2>1. (\A d \in Digests : Occurrence(d) \in Rows) /\ StateRow \in Rows
    BY ClaimsAreRows DEF Claims
  <2>2. \A c \in Bulks : StateOf[c] \in Ids
    BY IdentityAssumption
  <2>3. /\ op.what \in {"row", "bulk", "pin"} /\ op.id \in Ids
        /\ op.new \in Rows \cup {None} /\ op.bulk \in Bulks \cup {None}
        /\ op = [what |-> op.what, id |-> op.id, new |-> op.new, bulk |-> op.bulk]
    BY <2>1, <2>2 DEF Ops
  <2> QED
    BY <2>3
<1>6. /\ v \in SessionType
      /\ v.pc = "view" /\ v.op = op /\ v.seen = t.seen /\ v.mark = t.mark
      /\ v.view = t.view /\ v.hits = t.hits /\ v.misses = t.misses
  <2>1. 0 \in 0 .. Attempts - 1
    BY IdentityAssumption
  <2> QED
    BY <1>3, <1>5, <2>1 DEF SessionType
<1>7. Sound(v)
  BY <1>2, <1>4, <1>6 DEF Sound, Dated, Checked, Remembers, Coherent
<1>8. Set(s, v) /\ units' \in 0 .. MaxUnits /\ UNCHANGED ledger
  BY <1>1, <1>3, IdentityAssumption DEF Begin, IInv, TypeOK
<1> QED
  BY <1>6, <1>7, <1>8, SessionStep

\* The attempt's mark is the newest when the attempt starts.
LEMMA ViewInv ==
    ASSUME IInv, NEW s \in Sessions, View(s)
    PROVE  IInv'
<1>1. PICK t \in SessionType : t = session[s] /\ t.pc = "view"
  BY DEF IInv, TypeOK, View
<1>2. Dated(t) /\ Remembers(t) /\ Checked(t)
  BY <1>1 DEF IInv, SessionsSound, Sound, View
<1>3. PICK u \in SessionType :
        /\ u = Viewed(t)
        /\ u.seen = mark /\ u.op = t.op
        /\ Coherent(u)
  BY <1>2, ViewedSound DEF IInv
<1>4. PICK v : v = [u EXCEPT !.pc = "rows", !.mark = mark]
  OBVIOUS
<1>5. mark \in Nat /\ mark # None
  BY IdentityAssumption DEF IInv, TypeOK
<1>6. /\ v \in SessionType
      /\ v.pc = "rows" /\ v.op = t.op /\ v.seen = mark /\ v.mark = mark
      /\ v.view = u.view /\ v.hits = u.hits /\ v.misses = u.misses
  BY <1>3, <1>4, <1>5 DEF SessionType
<1>7. Sound(v)
  BY <1>1, <1>2, <1>3, <1>5, <1>6 DEF Sound, Dated, Checked, Remembers, Coherent
<1>8. Set(s, v) /\ units' \in 0 .. MaxUnits /\ UNCHANGED ledger
  BY <1>1, <1>3, <1>4 DEF View, IInv, TypeOK
<1> QED
  BY <1>6, <1>7, <1>8, SessionStep

\* What the rows say of the members is good while the mark stands.
LEMMA CheckRowsInv ==
    ASSUME IInv, NEW s \in Sessions, CheckRows(s)
    PROVE  IInv'
<1>1. PICK t \in SessionType : t = session[s] /\ t.pc = "rows" /\ session[s] # None
  BY DEF IInv, TypeOK, CheckRows
<1>2. Dated(t) /\ Remembers(t) /\ Checked(t)
  BY <1>1 DEF IInv, SessionsSound, Sound
<1>3. UNCHANGED <<ledger, units>>
  BY DEF CheckRows
<1>4. CASE Refuse(s)
  BY <1>1, <1>3, <1>4, RefuseInv
<1>5. CASE ~Refuse(s)
  <2>1. /\ t.op.what = "bulk" => LedgerCopies(t.op.bulk)
        /\ \/ Set(s, [t EXCEPT !.pc = "locate", !.search = {t.op.id}])
           \/ Set(s, [t EXCEPT !.pc = "commit", !.search = {}]) /\ row[t.op.id] # None
    BY <1>1, <1>5 DEF CheckRows
  <2>3. t.op.id \in Ids /\ Formed(t.op)
    BY <1>1, <1>2 DEF Checked, Formed
  <2>4. ASSUME NEW u, \/ u = [t EXCEPT !.pc = "locate", !.search = {t.op.id}]
                      \/ u = [t EXCEPT !.pc = "commit", !.search = {}] /\ row[t.op.id] # None
        PROVE  u \in SessionType /\ Sound(u)
    <3>1. /\ u \in SessionType
          /\ u.op = t.op /\ u.seen = t.seen /\ u.mark = t.mark
          /\ u.view = t.view /\ u.hits = t.hits /\ u.misses = t.misses
          /\ \/ u.pc = "locate" /\ u.search = {t.op.id}
             \/ u.pc = "commit" /\ u.search = {} /\ row[t.op.id] # None
      <4>1. CASE u = [t EXCEPT !.pc = "locate", !.search = {t.op.id}]
        BY <2>3, <4>1 DEF SessionType
      <4>2. CASE u = [t EXCEPT !.pc = "commit", !.search = {}] /\ row[t.op.id] # None
        BY <4>2 DEF SessionType
      <4> QED
        BY <2>4, <4>1, <4>2
    <3>2. Dated(u) /\ Remembers(u)
      BY <1>1, <1>2, <3>1 DEF Dated, Remembers, Coherent
    <3>3. Checked(u)
      BY <2>1, <2>3, <3>1 DEF Checked
    <3> QED
      BY <3>1, <3>2, <3>3 DEF Sound
  <2>5. units' \in 0 .. MaxUnits
    BY <1>3 DEF IInv, TypeOK
  <2> QED
    BY <1>3, <2>1, <2>4, <2>5, SessionStep
<1> QED
  BY <1>4, <1>5

\* A session that looks at the mark again goes on from what is there.
LEMMA LocateInv ==
    ASSUME IInv, NEW s \in Sessions, Locate(s)
    PROVE  IInv'
<1>1. PICK t \in SessionType : t = session[s] /\ t.pc = "locate"
  BY DEF IInv, TypeOK, Locate
<1>2. Dated(t) /\ Remembers(t) /\ Checked(t)
  BY <1>1 DEF IInv, SessionsSound, Sound, Locate
<1>3. PICK u \in SessionType :
        /\ u = Viewed(t)
        /\ u.seen = mark /\ u.mark = t.mark /\ u.op = t.op /\ u.search = t.search
        /\ Coherent(u)
  BY <1>2, ViewedSound DEF IInv
<1>4. PICK v : v = [u EXCEPT !.pc = "search"]
  OBVIOUS
<1>5. mark \in Nat /\ mark # None
  BY IdentityAssumption DEF IInv, TypeOK
<1>6. /\ v \in SessionType
      /\ v.pc = "search" /\ v.op = t.op /\ v.seen = mark /\ v.mark = t.mark /\ v.search = t.search
      /\ v.view = u.view /\ v.hits = u.hits /\ v.misses = u.misses
  BY <1>3, <1>4 DEF SessionType
<1>7. Sound(v)
  BY <1>1, <1>2, <1>3, <1>5, <1>6 DEF Sound, Dated, Checked, Remembers, Coherent
<1>8. Set(s, v) /\ units' \in 0 .. MaxUnits /\ UNCHANGED ledger
  BY <1>1, <1>3, <1>4 DEF Locate, IInv, TypeOK
<1> QED
  BY <1>6, <1>7, <1>8, SessionStep

\* A finite set that has not two members has one value.
LEMMA AtMostOneDigest ==
    ASSUME NEW S \in SUBSET Digests, ~(Cardinality(S) > 1), NEW x \in S, NEW y \in S
    PROVE  x = y
<1> SUFFICES ASSUME x # y PROVE FALSE
  OBVIOUS
<1>1. IsFiniteSet(S)
  BY IdentityAssumption, FS_Subset
<1>2. Cardinality({x}) = 1 /\ IsFiniteSet({x})
  BY FS_Singleton
<1>3. Cardinality({x} \cup {y}) = 2 /\ IsFiniteSet({x} \cup {y})
  <2>1. y \notin {x}
    OBVIOUS
  <2>2. /\ IsFiniteSet({x} \cup {y})
        /\ Cardinality({x} \cup {y}) = IF y \in {x} THEN Cardinality({x}) ELSE Cardinality({x}) + 1
    BY <1>2, FS_AddElement
  <2> QED
    BY <1>2, <2>1, <2>2
<1>4. {x} \cup {y} \subseteq S
  OBVIOUS
<1>5. Cardinality({x} \cup {y}) <= Cardinality(S) /\ Cardinality(S) \in Nat
  BY <1>1, <1>4, FS_Subset, FS_CardinalityType
<1> QED
  BY <1>3, <1>5

\* What the session knows or lists of an identity is what the layers have, if what it
\* remembers is there.
LEMMA SearchFinds ==
    ASSUME NEW t \in SessionType, Coherent(t), NEW i,
           Held(t.hits, i) # {} \/ i \in t.misses
    PROVE  Held(t.hits, i) = Held(Copies(Available), i)
<1>1. CASE Held(t.hits, i) # {}
  <2>1. PICK h \in t.hits : h[1] = i
    BY <1>1 DEF Held
  <2>2. Held(Copies(Available), i) = {h[2]}
    BY <2>1 DEF Coherent
  <2>3. \A g \in t.hits : g[1] = i => {g[2]} = {h[2]}
    BY <2>2 DEF Coherent
  <2>4. Held(t.hits, i) = {h[2]}
    BY <2>1, <2>3 DEF Held
  <2> QED
    BY <2>2, <2>4
<1>2. CASE Held(t.hits, i) = {}
  BY <1>2 DEF Coherent
<1> QED
  BY <1>1, <1>2

\* A search finds what the layers have: what it remembers and what it commits to stands
\* while the mark does.
LEMMA SearchInv ==
    ASSUME IInv, NEW s \in Sessions, Search(s)
    PROVE  IInv'
<1>1. PICK t \in SessionType : t = session[s] /\ t.pc = "search" /\ session[s] # None
  BY DEF IInv, TypeOK, Search
<1>2. Dated(t) /\ Remembers(t) /\ Checked(t)
  BY <1>1 DEF IInv, SessionsSound, Sound
<1> DEFINE i == t.op.id
           known == Held(t.hits, i) # {} \/ i \in t.misses
           view == IF known \/ t.view # None THEN t.view ELSE Available
           held == IF known THEN Held(t.hits, i) ELSE Held(Copies(view), i)
           chosen == CHOOSE d \in held : TRUE
           next == [t EXCEPT !.view = view,
                             !.misses = IF held = {} THEN @ \cup {i} ELSE @,
                             !.hits = IF t.op.what = "pin" THEN @ \cup {<<i, d>> : d \in held} ELSE @]
           tview == [t EXCEPT !.view = view]
           r == IF t.op.what = "pin" THEN Occurrence(chosen) ELSE t.op.new
<1>3. i \in Ids
  BY <1>1, <1>2 DEF Checked, Formed
<1>4. \/ /\ Cardinality(held) > 1
          /\ Set(s, [tview EXCEPT !.pc = "idle", !.op = NoOp, !.search = {}])
       \/ /\ ~(Cardinality(held) > 1)
          /\ Set(s, [next EXCEPT !.pc = "idle", !.op = NoOp, !.search = {}])
       \/ /\ ~(Cardinality(held) > 1)
          /\ t.op.what # "pin" => held = {} \/ held = {t.op.new.digest}
          /\ t.op.what = "pin" => held # {}
          /\ Set(s, [next EXCEPT !.pc = "commit",
                                 !.op.new = IF t.op.what = "pin" THEN Occurrence(chosen) ELSE @])
  <2>1. LET collides == t.op.what # "pin" /\ held # {} /\ held # {t.op.new.digest} IN
        IF \/ Cardinality(held) > 1
           \/ collides
           \/ t.op.what = "pin" /\ held = {}
           \/ t.op.what = "pin" /\ row[i] # None /\ held # {row[i].digest}
        THEN Set(s, [(IF Cardinality(held) > 1 THEN tview ELSE next)
                     EXCEPT !.pc = "idle", !.op = NoOp, !.search = {}])
        ELSE Set(s, [next EXCEPT !.pc = "commit",
                                 !.op.new = IF t.op.what = "pin" THEN Occurrence(chosen) ELSE @])
    <3>1. Found(s, t)
      BY <1>1 DEF Search
    <3> QED
      BY <3>1 DEF Found
  <2> HIDE DEF i, known, view, held, chosen, next, tview, r
  <2> QED
    BY <2>1
<1>5. known <=> (Held(t.hits, i) # {} \/ i \in t.misses)
  OBVIOUS
<1>6. view = IF known \/ t.view # None THEN t.view ELSE Available
  OBVIOUS
<1>7. held = IF known THEN Held(t.hits, i) ELSE Held(Copies(view), i)
  OBVIOUS
<1>8. tview = [t EXCEPT !.view = view]
  OBVIOUS
<1>9. next = [t EXCEPT !.view = view,
                       !.misses = IF held = {} THEN t.misses \cup {i} ELSE t.misses,
                       !.hits = IF t.op.what = "pin" THEN t.hits \cup {<<i, d>> : d \in held}
                                ELSE t.hits]
  OBVIOUS
<1>10. i = t.op.id
  OBVIOUS
<1>11. chosen = CHOOSE d \in held : TRUE
  OBVIOUS
<1>12. held # {} => chosen \in held
  BY <1>11
<1>13. r = IF t.op.what = "pin" THEN Occurrence(chosen) ELSE t.op.new
  OBVIOUS
<1> HIDE DEF i, known, view, held, chosen, next, tview, r
<1>14. /\ view \in (SUBSET Bulks) \cup {None}
       /\ ~known => view \in SUBSET Bulks
  BY <1>6 DEF SessionType, Available
<1>15. held \in SUBSET Digests
  <2>1. CASE known
    BY <1>7, <2>1 DEF SessionType, Held
  <2>2. CASE ~known
    BY <1>7, <1>14, <2>2, HeldDigests
  <2> QED
    BY <2>1, <2>2
<1>16. mark \in Nat /\ layered \subseteq 1 .. mark
  BY DEF IInv, TypeOK
<1>17. t.mark = mark => Coherent(t)
  BY <1>1, <1>2, <1>16 DEF Dated, Remembers
<1>18. Coherent(t) => (view # None => view = Available)
  BY <1>6 DEF Coherent
<1>19. Coherent(t) => held = Held(Copies(Available), i)
  <2> SUFFICES ASSUME Coherent(t) PROVE held = Held(Copies(Available), i)
    OBVIOUS
  <2>1. CASE known
    BY <1>5, <1>7, <2>1, SearchFinds
  <2>2. CASE ~known
    <3>1. view = Available
      BY <1>6, <2>2 DEF Coherent
    <3> QED
      BY <1>7, <2>2, <3>1
  <2> QED
    BY <2>1, <2>2
<1>20. /\ tview \in SessionType
       /\ tview.seen = t.seen /\ tview.mark = t.mark /\ tview.pc = t.pc
       /\ tview.view = view /\ tview.misses = t.misses /\ tview.hits = t.hits
  BY <1>8, <1>14 DEF SessionType
<1>21. Dated(tview) /\ Remembers(tview)
  BY <1>1, <1>2, <1>18, <1>20 DEF Dated, Remembers, Coherent
<1>22. /\ next \in SessionType
       /\ next.seen = t.seen /\ next.mark = t.mark /\ next.pc = t.pc
       /\ next.op = t.op /\ next.search = t.search
       /\ next.view = view
       /\ next.misses = (IF held = {} THEN t.misses \cup {i} ELSE t.misses)
       /\ next.hits = (IF t.op.what = "pin" THEN t.hits \cup {<<i, d>> : d \in held} ELSE t.hits)
  <2>1. (IF held = {} THEN t.misses \cup {i} ELSE t.misses) \in SUBSET Ids
    <3>1. t.misses \in SUBSET Ids
      BY DEF SessionType
    <3> QED
      BY <1>3, <3>1
  <2>2. (IF t.op.what = "pin" THEN t.hits \cup {<<i, d>> : d \in held} ELSE t.hits)
          \in SUBSET (Ids \X Digests)
    <3>1. \A d \in held : <<i, d>> \in Ids \X Digests
      BY <1>3, <1>15
    <3>2. t.hits \in SUBSET (Ids \X Digests)
      BY DEF SessionType
    <3> QED
      BY <3>1, <3>2
  <2> QED
    BY <1>9, <1>14, <2>1, <2>2 DEF SessionType
<1>23. ~(Cardinality(held) > 1) => Dated(next) /\ Remembers(next)
  <2> SUFFICES ASSUME ~(Cardinality(held) > 1) PROVE Dated(next) /\ Remembers(next)
    OBVIOUS
  <2>1. Dated(next)
    BY <1>1, <1>2, <1>22 DEF Dated
  <2>2. ASSUME Coherent(t) PROVE Coherent(next)
    <3>1. next.view # None => next.view = Available
      BY <1>18, <1>22, <2>2
    <3>2. \A j \in next.misses : Held(Copies(Available), j) = {}
      BY <1>19, <1>22, <2>2 DEF Coherent
    <3>3. ASSUME NEW h \in next.hits PROVE Held(Copies(Available), h[1]) = {h[2]}
      <4>1. CASE h \in t.hits
        BY <2>2, <4>1 DEF Coherent
      <4>2. CASE h \notin t.hits
        <5>1. PICK d \in held : h = <<i, d>>
          BY <1>22, <3>3, <4>2
        <5>2. held = {d}
          BY <1>15, AtMostOneDigest
        <5> QED
          BY <1>19, <2>2, <5>1, <5>2
      <4> QED
        BY <4>1, <4>2
    <3> QED
      BY <3>1, <3>2, <3>3 DEF Coherent
  <2>3. t.seen # None
    BY <1>1, <1>2 DEF Dated
  <2>4. Remembers(next)
    BY <1>2, <1>22, <2>2, <2>3 DEF Remembers
  <2> QED
    BY <2>1, <2>4
<1>24. UNCHANGED ledger /\ units' \in 0 .. MaxUnits
  BY DEF Search, IInv, TypeOK
<1>25. ASSUME NEW u \in SessionType, Dated(u), Remembers(u),
              Set(s, [u EXCEPT !.pc = "idle", !.op = NoOp, !.search = {}])
       PROVE  IInv'
  <2>1. PICK v : v = [u EXCEPT !.pc = "idle", !.op = NoOp, !.search = {}]
    OBVIOUS
  <2>2. v \in SessionType /\ Sound(v)
    BY <1>25, <2>1, RestSound
  <2> QED
    BY <1>24, <1>25, <2>1, <2>2, SessionStep
<1>26. CASE Set(s, [tview EXCEPT !.pc = "idle", !.op = NoOp, !.search = {}])
  BY <1>20, <1>21, <1>26, <1>25
<1>27. CASE /\ ~(Cardinality(held) > 1)
            /\ Set(s, [next EXCEPT !.pc = "idle", !.op = NoOp, !.search = {}])
  BY <1>22, <1>23, <1>27, <1>25
<1>28. CASE /\ ~(Cardinality(held) > 1)
            /\ t.op.what # "pin" => held = {} \/ held = {t.op.new.digest}
            /\ t.op.what = "pin" => held # {}
            /\ Set(s, [next EXCEPT !.pc = "commit",
                                   !.op.new = IF t.op.what = "pin" THEN Occurrence(chosen) ELSE @])
  <2>1. Formed(t.op)
    BY <1>1, <1>2 DEF Checked
  <2>3. PICK v : v = [next EXCEPT !.pc = "commit", !.op.new = r]
    OBVIOUS
  <2>4. r \in Claims
    BY <1>15, <1>28, <1>12, <1>13, <2>1 DEF Formed, Claims
  <2>6. r # None /\ r \in Rows
    BY <2>4, ClaimsAreRows
  <2>7. /\ v \in SessionType
        /\ v.pc = "commit" /\ v.seen = t.seen /\ v.mark = t.mark /\ v.search = t.search
        /\ v.view = next.view /\ v.misses = next.misses /\ v.hits = next.hits
        /\ v.op.what = t.op.what /\ v.op.id = i /\ v.op.bulk = t.op.bulk /\ v.op.new = r
    <3>1. PICK op : op = [t.op EXCEPT !.new = r]
      OBVIOUS
    <3>2. /\ op \in [what : {"none", "row", "bulk", "pin"}, id : Ids \cup {None},
                     new : Rows \cup {None}, bulk : Bulks \cup {None}]
          /\ op.what = t.op.what /\ op.id = i /\ op.bulk = t.op.bulk /\ op.new = r
      BY <1>10, <2>6, <3>1 DEF SessionType
    <3>3. v = [next EXCEPT !.pc = "commit", !.op = op]
      BY <1>22, <2>3, <3>1 DEF SessionType
    <3> QED
      BY <1>22, <3>2, <3>3 DEF SessionType
  <2>8. Dated(v) /\ Remembers(v)
    BY <1>1, <1>2, <1>22, <1>23, <1>28, <2>7 DEF Dated, Remembers, Coherent
  <2>9. Formed(v.op)
    BY <1>3, <1>10, <1>13, <2>1, <2>4, <2>7 DEF Formed
  <2>10. t.mark = mark => Agrees(i, r)
    <3> SUFFICES ASSUME t.mark = mark PROVE Agrees(i, r)
      OBVIOUS
    <3>1. held = Held(Copies(Available), i)
      BY <1>17, <1>19
    <3>2. CASE held = {}
      BY <3>1, <3>2, HeldAgrees
    <3>3. CASE held # {}
      <4>1. held = {r.digest}
        <5>1. CASE t.op.what = "pin"
          <6>1. r.digest \in held
            BY <1>12, <1>13, <3>3, <5>1 DEF Occurrence
          <6> QED
            BY <1>15, <1>28, <6>1, AtMostOneDigest
        <5>2. CASE t.op.what # "pin"
          BY <1>28, <1>13, <3>3, <5>2
        <5> QED
          BY <5>1, <5>2
      <4>2. r.digest \in Digests
        BY <1>15, <4>1
      <4>3. r.kind = "entity"
        BY <2>4, <4>2, IdentityAssumption DEF Claims, Occurrence, StateRow
      <4> QED
        BY <3>1, <4>1, <4>3, HeldAgrees
    <3> QED
      BY <3>2, <3>3
  <2>11. Checked(v)
    BY <1>1, <1>2, <1>10, <2>6, <2>7, <2>9, <2>10 DEF Checked
  <2>12. Set(s, v)
    <3>1. v = [next EXCEPT !.pc = "commit",
                           !.op.new = IF t.op.what = "pin" THEN Occurrence(chosen) ELSE @]
      BY <1>22, <1>13, <2>3
    <3> QED
      BY <1>28, <3>1
  <2> QED
    BY <1>24, <2>7, <2>8, <2>11, <2>12, SessionStep DEF Sound
<1> QED
  BY <1>4, <1>26, <1>28, <1>27

\* An attempt whose mark has moved starts over or gives up.
LEMMA ChangedInv ==
    ASSUME IInv, NEW s \in Sessions, Changed(s)
    PROVE  IInv'
<1>1. PICK t \in SessionType : t = session[s] /\ t.pc = "commit" /\ session[s] # None
  BY DEF IInv, TypeOK, Changed
<1>2. Dated(t) /\ Remembers(t) /\ Checked(t)
  BY <1>1 DEF IInv, SessionsSound, Sound
<1>3. UNCHANGED <<ledger, units>>
  BY DEF Changed
<1>4. CASE Refuse(s)
  BY <1>1, <1>3, <1>4, RefuseInv
<1>5. CASE ~Refuse(s)
  <2>1. PICK v : v = [t EXCEPT !.pc = "view", !.attempt = t.attempt + 1, !.search = {}]
    OBVIOUS
  <2>2. t.attempt + 1 # Attempts /\ Set(s, v)
    BY <1>1, <1>5, <2>1 DEF Changed
  <2>3. t.attempt + 1 \in 0 .. Attempts - 1
    <3>1. t.attempt \in 0 .. Attempts - 1
      BY DEF SessionType
    <3> QED
      BY <2>2, <3>1, IdentityAssumption
  <2>4. /\ v \in SessionType
        /\ v.pc = "view" /\ v.op = t.op /\ v.seen = t.seen /\ v.mark = t.mark
        /\ v.view = t.view /\ v.hits = t.hits /\ v.misses = t.misses
    BY <2>1, <2>3 DEF SessionType
  <2>5. Sound(v)
    BY <1>1, <1>2, <2>4 DEF Sound, Dated, Checked, Remembers, Coherent
  <2>6. units' \in 0 .. MaxUnits
    BY <1>3 DEF IInv, TypeOK
  <2> QED
    BY <1>3, <2>2, <2>4, <2>5, <2>6, SessionStep
<1> QED
  BY <1>4, <1>5

-----------------------------------------------------------------------------
(* The commit                                                               *)

\* A claim that every row and every copy allows.
Claimed(i, r) ==
    /\ Keeps(i, r) /\ Agrees(i, r)
    /\ row' = [row EXCEPT ![i] = r]
    /\ UNCHANGED layer

\* A layer that every row and every copy allows.
Shelved(c) ==
    /\ LedgerCopies(c)
    /\ Keeps(StateOf[c], StateRow) /\ Agrees(StateOf[c], StateRow)
    /\ row' = [row EXCEPT ![StateOf[c]] = StateRow]
    /\ layer' = [layer EXCEPT ![c] = "available"]

\* What a commit does to rows and layers: nothing, such a claim, or such a layer.
LEMMA CommitEffect ==
    ASSUME IInv, NEW s \in Sessions, Commit(s)
    PROVE  \/ UNCHANGED <<row, layer>>
           \/ \E i \in Ids, r \in Claims : Claimed(i, r)
           \/ \E c \in Bulks : Shelved(c)
<1>1. PICK t \in SessionType : t = session[s] /\ t.pc = "commit" /\ session[s] # None
  BY DEF IInv, TypeOK, Commit
<1>2. Dated(t) /\ Checked(t)
  BY <1>1 DEF IInv, SessionsSound, Sound
<1>3. PICK i, r : i \in Ids /\ i = t.op.id /\ r = t.op.new
  BY <1>1, <1>2 DEF Checked, Formed
<1>4. /\ Carries(t) => mark = t.mark
      /\ \/ UNCHANGED ledger
         \/ /\ Written(t) => Keeps(i, r)
            /\ row' = IF Written(t) THEN [row EXCEPT ![i] = r] ELSE row
            /\ layer' = IF t.op.what = "bulk" THEN [layer EXCEPT ![t.op.bulk] = "available"] ELSE layer
  BY <1>1, <1>3 DEF Commit
<1>5. CASE UNCHANGED ledger
  BY <1>5 DEF ledger
<1>6. CASE ~UNCHANGED ledger /\ ~Written(t)
  <2>1. t.op.what # "bulk"
    BY <1>1, <1>2, <1>6, ClaimsAreRows DEF Checked, Formed, Written, Claims
  <2> QED
    BY <1>4, <1>6, <2>1
<1>7. CASE ~UNCHANGED ledger /\ Written(t)
  <2>1. Keeps(i, r) /\ row' = [row EXCEPT ![i] = r] /\ r \in Claims
    BY <1>1, <1>2, <1>3, <1>4, <1>7 DEF Checked, Formed, Written, Claims
  <2>2. Agrees(i, r)
    <3>1. CASE t.search # {}
      BY <1>1, <1>2, <1>3, <1>4, <3>1 DEF Carries, Checked
    <3>2. CASE t.search = {}
      <4>1. row[i] # None /\ row[i].kind = r.kind /\ row[i].digest = r.digest
        BY <1>1, <1>2, <1>3, <2>1, <3>2 DEF Checked, Keeps
      <4> QED
        BY <4>1 DEF Agrees, IInv, RowsAgree
    <3> QED
      BY <3>1, <3>2
  <2>3. CASE t.op.what = "bulk"
    <3>1. PICK c \in Bulks : c = t.op.bulk /\ i = StateOf[c] /\ r = StateRow
      BY <1>1, <1>2, <1>3, <2>3 DEF Checked, Formed
    <3>2. LedgerCopies(c)
      BY <1>1, <1>2, <1>4, <2>3, <3>1 DEF Checked, Carries
    <3>3. Shelved(c)
      BY <1>4, <1>7, <2>1, <2>2, <2>3, <3>1, <3>2 DEF Shelved
    <3> QED
      BY <3>3
  <2>4. CASE t.op.what # "bulk"
    BY <1>3, <1>4, <1>7, <2>1, <2>2, <2>4 DEF Claimed
  <2> QED
    BY <2>3, <2>4
<1> QED
  BY <1>5, <1>6, <1>7

\* The layers that can be read after one was added.
LEMMA ShelvedAvailable ==
    ASSUME TypeOK, NEW c \in Bulks, layer' = [layer EXCEPT ![c] = "available"]
    PROVE  Available' = Available \cup {c}
BY DEF TypeOK, Available

\* Rows and layers agree after every commit.
LEMMA CommitAgrees ==
    ASSUME IInv, NEW s \in Sessions, Commit(s)
    PROVE  /\ RowsAgree'
           /\ row' \in [Ids -> Rows \cup {None}]
           /\ \A i \in Ids : row[i] # None =>
                row'[i] # None /\ row'[i].kind = row[i].kind /\ row'[i].digest = row[i].digest
<1>1. /\ row \in [Ids -> Rows \cup {None}]
      /\ \A c \in Bulks : \A m \in Members[c] : m[1] \in Ids
  BY IdentityAssumption DEF IInv, TypeOK
<1>2. CASE UNCHANGED <<row, layer>>
  BY <1>2 DEF IInv, TypeOK, RowsAgree, Available
<1>3. ASSUME NEW i \in Ids, NEW r \in Claims, Claimed(i, r)
      PROVE  /\ RowsAgree'
             /\ row' \in [Ids -> Rows \cup {None}]
             /\ \A j \in Ids : row[j] # None =>
                  row'[j] # None /\ row'[j].kind = row[j].kind /\ row'[j].digest = row[j].digest
  <2>1. r \in Rows /\ r # None
    BY ClaimsAreRows
  <2>2. row'[i] = r /\ \A j \in Ids : j # i => row'[j] = row[j]
    BY <1>1, <1>3 DEF Claimed
  <2>3. Available' = Available
    BY <1>3 DEF Claimed, Available
  <2>4. RowsAgree'
    <3> SUFFICES ASSUME NEW c \in Available, NEW m \in Members[c], row'[m[1]] # None
                 PROVE  row'[m[1]].kind = "entity" /\ row'[m[1]].digest = m[2]
      BY <2>3 DEF RowsAgree
    <3>1. CASE m[1] = i
      BY <1>3, <2>2, <3>1 DEF Claimed, Agrees
    <3>2. CASE m[1] # i
      BY <1>1, <2>2, <3>2 DEF IInv, RowsAgree, Available
    <3> QED
      BY <3>1, <3>2
  <2>5. row' \in [Ids -> Rows \cup {None}]
    BY <1>1, <1>3, <2>1 DEF Claimed
  <2> QED
    BY <1>3, <2>1, <2>2, <2>4, <2>5 DEF Claimed, Keeps
<1>4. ASSUME NEW c \in Bulks, Shelved(c)
      PROVE  /\ RowsAgree'
             /\ row' \in [Ids -> Rows \cup {None}]
             /\ \A j \in Ids : row[j] # None =>
                  row'[j] # None /\ row'[j].kind = row[j].kind /\ row'[j].digest = row[j].digest
  <2>1. StateRow \in Rows /\ StateRow # None /\ StateOf[c] \in Ids
    BY ClaimsAreRows, IdentityAssumption DEF Claims
  <2>2. row'[StateOf[c]] = StateRow /\ \A j \in Ids : j # StateOf[c] => row'[j] = row[j]
    BY <1>1, <1>4, <2>1 DEF Shelved
  <2>3. Available' = Available \cup {c}
    BY <1>4, ShelvedAvailable DEF Shelved, IInv
  <2>4. RowsAgree'
    <3> SUFFICES ASSUME NEW b \in Available \cup {c}, NEW m \in Members[b], row'[m[1]] # None
                 PROVE  row'[m[1]].kind = "entity" /\ row'[m[1]].digest = m[2]
      BY <2>3 DEF RowsAgree
    <3>1. CASE b \in Available /\ m[1] = StateOf[c]
      BY <1>4, <2>2, <3>1 DEF Shelved, Agrees
    <3>2. CASE b \in Available /\ m[1] # StateOf[c]
      BY <1>1, <2>2, <3>2 DEF IInv, RowsAgree, Available
    <3>3. CASE b = c
      BY <1>1, <1>4, <2>2, <3>3 DEF Shelved, LedgerCopies
    <3> QED
      BY <3>1, <3>2, <3>3
  <2>5. row' \in [Ids -> Rows \cup {None}]
    BY <1>1, <1>4, <2>1 DEF Shelved
  <2> QED
    BY <1>4, <2>1, <2>2, <2>4, <2>5 DEF Shelved, Keeps
<1> QED
  BY <1>2, <1>3, <1>4, CommitEffect

\* What a commit does to marks: it takes the next one when it relied on layers or adds
\* one; otherwise layers, marks and the rows' identities stand.
LEMMA CommitMarks ==
    ASSUME IInv, NEW s \in Sessions, Commit(s)
    PROVE  /\ mark' \in Nat /\ layered' \subseteq 1 .. mark'
           /\ layer' \in [Bulks -> {"absent", "available", "removed"}]
           /\ \/ mark' = mark + 1 /\ UNCHANGED <<layer, layered>>
              \/ mark' = mark + 1 /\ layered' = layered \cup {mark + 1}
              \/ /\ UNCHANGED <<mark, layer, layered>>
                 /\ \A i \in Ids : row'[i] # None =>
                      row[i] # None /\ row'[i].kind = row[i].kind /\ row'[i].digest = row[i].digest
<1>1. PICK t \in SessionType : t = session[s] /\ t.pc = "commit" /\ session[s] # None
  BY DEF IInv, TypeOK, Commit
<1>2. Checked(t)
  BY <1>1 DEF IInv, SessionsSound, Sound
<1>3. PICK i \in Ids : i = t.op.id
  BY <1>1, <1>2 DEF Checked, Formed
<1>4. /\ mark \in Nat /\ layered \subseteq 1 .. mark
      /\ layer \in [Bulks -> {"absent", "available", "removed"}]
  BY DEF IInv, TypeOK
<1>5. CASE UNCHANGED ledger
  BY <1>4, <1>5 DEF ledger
<1>6. CASE ~UNCHANGED ledger
  <2>1. /\ Written(t) => Keeps(i, t.op.new)
        /\ row' = IF Written(t) THEN [row EXCEPT ![i] = t.op.new] ELSE row
        /\ layer' = IF t.op.what = "bulk" THEN [layer EXCEPT ![t.op.bulk] = "available"] ELSE layer
        /\ mark' = IF Carries(t) THEN mark + 1 ELSE mark
        /\ layered' = IF t.op.what = "bulk" THEN layered \cup {mark + 1} ELSE layered
    BY <1>1, <1>3, <1>6 DEF Commit
  <2>2. t.op.what = "bulk" => Carries(t) /\ t.op.bulk \in Bulks
    BY <1>1, <1>2 DEF Carries, Checked, Formed
  <2>3. /\ mark' \in Nat /\ layered' \subseteq 1 .. mark'
        /\ layer' \in [Bulks -> {"absent", "available", "removed"}]
    BY <1>4, <2>1, <2>2
  <2>4. CASE Carries(t)
    BY <2>1, <2>3, <2>4
  <2>5. CASE ~Carries(t)
    <3>1. row[i] # None
      BY <1>1, <1>2, <1>3, <2>5 DEF Checked, Carries
    <3>2. row \in [Ids -> Rows \cup {None}]
      BY DEF IInv, TypeOK
    <3>3. \A j \in Ids : row'[j] # None =>
            row[j] # None /\ row'[j].kind = row[j].kind /\ row'[j].digest = row[j].digest
      BY <2>1, <3>1, <3>2 DEF Keeps
    <3> QED
      BY <2>1, <2>2, <2>3, <2>5, <3>3
  <2> QED
    BY <2>4, <2>5
<1> QED
  BY <1>5, <1>6

\* What the other sessions may rely on survives a commit.
LEMMA OthersSound ==
    ASSUME IInv, NEW s \in Sessions, Commit(s), NEW t \in SessionType, Sound(t)
    PROVE  Sound(t)'
<1>1. \A i \in Ids : row[i] # None =>
        row'[i] # None /\ row'[i].kind = row[i].kind /\ row'[i].digest = row[i].digest
  BY CommitAgrees
<1>2. mark \in Nat /\ layered \subseteq 1 .. mark
  BY DEF IInv, TypeOK
<1>3. t.mark \in Nat /\ (t.seen # None => t.seen \in Nat)
  BY DEF SessionType
<1>4. t.mark <= mark /\ (t.seen # None => t.seen <= mark)
  BY DEF Sound, Dated
<1>5. t.pc = "commit" => t.op.id \in Ids
  BY DEF Sound, Checked, Formed
<1>6. CASE mark' = mark + 1 /\ (UNCHANGED <<layer, layered>> \/ layered' = layered \cup {mark + 1})
  <2>1. t.mark # mark' /\ t.seen # mark'
    BY <1>2, <1>3, <1>4, <1>6, IdentityAssumption
  <2>2. Dated(t)'
    BY <1>2, <1>3, <1>4, <1>6, <2>1 DEF Sound, Dated
  <2>3. Checked(t)'
    BY <1>1, <1>5, <2>1 DEF Sound, Checked
  <2>4. Remembers(t)'
    <3>1. CASE UNCHANGED <<layer, layered>>
      BY <3>1 DEF Sound, Remembers, Coherent, Available
    <3>2. CASE layered' = layered \cup {mark + 1}
      BY <1>2, <1>3, <1>4, <3>2 DEF Sound, Remembers
    <3> QED
      BY <1>6, <3>1, <3>2
  <2> QED
    BY <2>2, <2>3, <2>4 DEF Sound
<1>7. CASE /\ UNCHANGED <<mark, layer, layered>>
           /\ \A i \in Ids : row'[i] # None =>
                row[i] # None /\ row'[i].kind = row[i].kind /\ row'[i].digest = row[i].digest
  <2>1. Dated(t)' /\ Remembers(t)'
    BY <1>7 DEF Sound, Dated, Remembers, Coherent, Available
  <2>2. ASSUME NEW c \in Bulks, LedgerCopies(c) PROVE LedgerCopies(c)'
    <3>1. \A m \in Members[c] : m[1] \in Ids
      BY IdentityAssumption
    <3> QED
      BY <1>7, <2>2, <3>1 DEF LedgerCopies
  <2>3. t.pc \in {"locate", "search", "commit"} /\ t.op.what = "bulk" => t.op.bulk \in Bulks
    BY DEF Sound, Checked, Formed
  <2>4. Checked(t)'
    BY <1>1, <1>5, <1>7, <2>2, <2>3 DEF Sound, Checked, Agrees, Available
  <2> QED
    BY <2>1, <2>4 DEF Sound
<1> QED
  BY <1>6, <1>7, CommitMarks

\* After its own commit a session remembers what is there.
LEMMA OwnSound ==
    ASSUME IInv, NEW s \in Sessions, Commit(s),
           NEW t \in SessionType, t = session[s], session[s] # None, ~(Refuse(s) /\ UNCHANGED ledger)
    PROVE  AfterCommit(t) \in SessionType /\ Sound(AfterCommit(t))'
<1>1. t.pc = "commit" /\ Dated(t) /\ Remembers(t) /\ Checked(t)
  BY DEF Commit, IInv, SessionsSound, Sound
<1>2. /\ mark \in Nat /\ layered \subseteq 1 .. mark /\ mark # None /\ mark + 1 # None
      /\ t.mark \in Nat
  BY IdentityAssumption DEF IInv, TypeOK, SessionType
<1>3. PICK bulk \in BOOLEAN : bulk <=> t.op.what = "bulk"
  OBVIOUS
<1>4. PICK carries \in BOOLEAN : carries <=> Carries(t)
  OBVIOUS
<1>5. /\ carries => mark = t.mark
      /\ layer' = IF bulk THEN [layer EXCEPT ![t.op.bulk] = "available"] ELSE layer
      /\ mark' = IF carries THEN mark + 1 ELSE mark
      /\ layered' = IF bulk THEN layered \cup {mark + 1} ELSE layered
  BY <1>3, <1>4 DEF Commit
<1>6. bulk => carries /\ t.op.bulk \in Bulks
  BY <1>1, <1>3, <1>4 DEF Carries, Checked, Formed
<1>7. carries => t.seen = mark
  BY <1>1, <1>5 DEF Dated
<1>8. PICK seen : seen = IF carries THEN mark + 1 ELSE t.seen
  OBVIOUS
<1>9. PICK v : v = AfterCommit(t)
  OBVIOUS
<1>10. /\ v \in SessionType
       /\ v.pc = "idle" /\ v.seen = seen /\ v.mark = t.mark
       /\ v.hits = (IF bulk THEN {} ELSE t.hits)
       /\ v.misses = (IF bulk THEN {} ELSE t.misses)
       /\ v.view = (IF bulk /\ t.view # None THEN t.view \cup {t.op.bulk} ELSE t.view)
  <2>1. v = [t EXCEPT !.pc = "idle", !.op = NoOp, !.search = {}, !.seen = seen,
                 !.hits = IF bulk THEN {} ELSE t.hits,
                 !.misses = IF bulk THEN {} ELSE t.misses,
                 !.view = IF bulk /\ t.view # None THEN t.view \cup {t.op.bulk} ELSE t.view]
    BY <1>3, <1>4, <1>5, <1>7, <1>8, <1>9 DEF AfterCommit
  <2>2. seen \in Nat \cup {None}
    BY <1>2, <1>8 DEF SessionType
  <2>3. (IF bulk /\ t.view # None THEN t.view \cup {t.op.bulk} ELSE t.view) \in (SUBSET Bulks) \cup {None}
    <3>1. t.view \in (SUBSET Bulks) \cup {None}
      BY DEF SessionType
    <3> QED
      BY <1>6, <3>1
  <2>4. NoOp \in [what : {"none", "row", "bulk", "pin"}, id : Ids \cup {None},
                  new : Rows \cup {None}, bulk : Bulks \cup {None}]
    BY DEF NoOp
  <2>5. /\ (IF bulk THEN {} ELSE t.hits) \in SUBSET (Ids \X Digests)
        /\ (IF bulk THEN {} ELSE t.misses) \in SUBSET Ids
    BY DEF SessionType
  <2>6. PICK hits, misses, view : /\ hits = IF bulk THEN {} ELSE t.hits
                                  /\ misses = IF bulk THEN {} ELSE t.misses
                                  /\ view = IF bulk /\ t.view # None THEN t.view \cup {t.op.bulk} ELSE t.view
    OBVIOUS
  <2>7. v = [t EXCEPT !.pc = "idle", !.op = NoOp, !.search = {}, !.seen = seen,
                 !.hits = hits, !.misses = misses, !.view = view]
    BY <2>1, <2>6
  <2>8. /\ hits \in SUBSET (Ids \X Digests) /\ misses \in SUBSET Ids
        /\ view \in (SUBSET Bulks) \cup {None}
    BY <2>3, <2>5, <2>6
  <2>9. /\ v \in SessionType
        /\ v.pc = "idle" /\ v.seen = seen /\ v.mark = t.mark
        /\ v.hits = hits /\ v.misses = misses /\ v.view = view
    BY <2>2, <2>4, <2>7, <2>8, ZenonT(60) DEF SessionType
  <2> QED
    BY <2>6, <2>9
<1>11. Dated(v)'
  BY <1>1, <1>2, <1>5, <1>8, <1>10 DEF Dated
<1>12. Checked(v)'
  BY <1>10 DEF Checked
<1>13. Remembers(v)'
  <2>1. CASE carries
    <3>1. Coherent(t)
      BY <1>1, <1>2, <1>7, <2>1 DEF Remembers
    <3>2. CASE bulk
      <4>1. Available' = Available \cup {t.op.bulk}
        BY <1>5, <1>6, <3>2, ShelvedAvailable DEF IInv
      <4>2. v.view # None => v.view = Available'
        BY <1>10, <3>1, <3>2, <4>1 DEF Coherent
      <4>3. v.hits = {} /\ v.misses = {}
        BY <1>10, <3>2
      <4>4. v.seen # None
        BY <1>2, <1>8, <1>10, <2>1
      <4> QED
        BY <4>2, <4>3, <4>4 DEF Remembers, Coherent
    <3>3. CASE ~bulk
      <4>1. Available' = Available
        BY <1>5, <3>3 DEF Available
      <4>2. v.seen # None
        BY <1>2, <1>8, <1>10, <2>1
      <4>3. v.view = t.view /\ v.hits = t.hits /\ v.misses = t.misses
        BY <1>10, <3>3
      <4> QED
        BY <3>1, <4>1, <4>2, <4>3 DEF Remembers, Coherent
    <3> QED
      BY <3>2, <3>3
  <2>2. CASE ~carries
    <3>1. ~bulk /\ Available' = Available /\ layered' = layered
      BY <1>5, <1>6, <2>2 DEF Available
    <3>2. v.seen = t.seen /\ v.view = t.view /\ v.hits = t.hits /\ v.misses = t.misses
      BY <1>8, <1>10, <2>2, <3>1
    <3> QED
      BY <1>1, <3>1, <3>2 DEF Remembers, Coherent
  <2> QED
    BY <2>1, <2>2
<1> QED
  BY <1>9, <1>10, <1>11, <1>12, <1>13 DEF Sound

\* A commit preserves the invariant.
LEMMA CommitInv ==
    ASSUME IInv, NEW s \in Sessions, Commit(s)
    PROVE  IInv'
<1>1. PICK t \in SessionType : t = session[s] /\ session[s] # None
  BY DEF IInv, TypeOK, Commit
<1>2. CASE Refuse(s) /\ UNCHANGED ledger
  BY <1>1, <1>2, RefuseInv DEF Commit
<1>3. CASE ~(Refuse(s) /\ UNCHANGED ledger)
  <2>1. Set(s, AfterCommit(t)) /\ UNCHANGED units
    BY <1>1, <1>3 DEF Commit
  <2>2. session \in [Sessions -> SessionType \cup {None}]
    BY DEF IInv, TypeOK
  <2>3. AfterCommit(t) \in SessionType /\ Sound(AfterCommit(t))'
    BY <1>1, <1>3, OwnSound
  <2>4. /\ session' \in [Sessions -> SessionType \cup {None}]
        /\ session'[s] = AfterCommit(t)
        /\ \A u \in Sessions : u # s => session'[u] = session[u]
    BY <2>1, <2>2, <2>3 DEF Set
  <2>5. TypeOK'
    BY <2>1, <2>4, CommitAgrees, CommitMarks DEF IInv, TypeOK
  <2>6. SessionsSound'
    <3> SUFFICES ASSUME NEW u \in Sessions, u # s, session'[u] # None PROVE Sound(session[u])'
      BY <2>3, <2>4 DEF SessionsSound
    <3> PICK v \in SessionType : v = session[u] /\ v = session'[u] /\ session[u] # None
      BY <2>2, <2>4
    <3>1. Sound(v)
      BY DEF IInv, SessionsSound
    <3> QED
      BY <3>1, OthersSound
  <2> QED
    BY <2>5, <2>6, CommitAgrees DEF IInv
<1> QED
  BY <1>2, <1>3

\* The rows there are.
LEMMA RowForms ==
    ASSUME NEW b \in BOOLEAN
    PROVE  /\ \A d \in Digests : [kind |-> "entity", digest |-> d, there |-> b] \in Rows
           /\ [kind |-> "state", digest |-> None, there |-> b] \in Rows
BY DEF Rows

\* A row that is made unavailable keeps kind and digest.
LEMMA Unavailable ==
    ASSUME NEW k, NEW d, NEW b
    PROVE  [[kind |-> k, digest |-> d, there |-> b] EXCEPT !.there = FALSE]
             = [kind |-> k, digest |-> d, there |-> FALSE]
<1>1. \A a : [[kind |-> k, digest |-> d, there |-> b] EXCEPT !.there = a]
               = [kind |-> k, digest |-> d, there |-> a]
  OBVIOUS
<1> QED
  BY <1>1, Zenon

\* A removal runs when no session is open, and rows keep what they say.
LEMMA RemoveMembersInv ==
    ASSUME IInv, NEW c \in Bulks, NEW gone \in SUBSET Ids, RemoveMembers(c, gone)
    PROVE  IInv' /\ Available' = Available \ {c}
<1>1. /\ \A s \in Sessions : session'[s] = None
      /\ UNCHANGED <<mark, layered, session, units>>
      /\ layer' = [layer EXCEPT ![c] = "removed"]
      /\ row' = [i \in Ids |-> IF i \in gone \cup {StateOf[c]} /\ row[i] # None
                               THEN [row[i] EXCEPT !.there = FALSE] ELSE row[i]]
  BY DEF RemoveMembers
<1>2. Available' = Available \ {c}
  BY <1>1 DEF IInv, TypeOK, Available
<1>3. ASSUME NEW i \in Ids
      PROVE  /\ row'[i] \in Rows \cup {None}
             /\ row'[i] # None => row[i] # None /\ row'[i].kind = row[i].kind /\ row'[i].digest = row[i].digest
  <2>1. CASE row[i] = None
    BY <1>1, <2>1
  <2>2. CASE row[i] # None
    <3>1. row[i] \in Rows
      BY <2>2 DEF IInv, TypeOK
    <3>2. PICK r : r = [row[i] EXCEPT !.there = FALSE]
      OBVIOUS
    <3>3. r \in Rows /\ r.kind = row[i].kind /\ r.digest = row[i].digest
      <4>1. CASE \E d \in Digests, b \in BOOLEAN : row[i] = [kind |-> "entity", digest |-> d, there |-> b]
        <5>1. PICK d \in Digests, b \in BOOLEAN : row[i] = [kind |-> "entity", digest |-> d, there |-> b]
          BY <4>1
        <5>2. r = [kind |-> "entity", digest |-> d, there |-> FALSE]
          BY <3>2, <5>1, Unavailable
        <5>3. [kind |-> "entity", digest |-> d, there |-> FALSE] \in Rows
          BY RowForms
        <5>4. r.kind = "entity" /\ r.digest = d
          BY <5>2
        <5> QED
          BY <5>1, <5>2, <5>3, <5>4
      <4>2. CASE \E b \in BOOLEAN : row[i] = [kind |-> "state", digest |-> None, there |-> b]
        <5>1. PICK b \in BOOLEAN : row[i] = [kind |-> "state", digest |-> None, there |-> b]
          BY <4>2
        <5>2. r = [kind |-> "state", digest |-> None, there |-> FALSE]
          BY <3>2, <5>1, Unavailable
        <5>3. [kind |-> "state", digest |-> None, there |-> FALSE] \in Rows
          BY RowForms
        <5>4. r.kind = "state" /\ r.digest = None
          BY <5>2
        <5> QED
          BY <5>1, <5>2, <5>3, <5>4
      <4> QED
        BY <3>1, <4>1, <4>2 DEF Rows
    <3>4. row'[i] \in {r, row[i]}
      BY <1>1, <3>2
    <3> QED
      BY <2>2, <3>1, <3>3, <3>4
  <2> QED
    BY <2>1, <2>2
<1>4. TypeOK'
  BY <1>1, <1>3 DEF IInv, TypeOK
<1>5. RowsAgree'
  <2>1. \A b \in Bulks : \A m \in Members[b] : m[1] \in Ids
    BY IdentityAssumption
  <2> QED
    BY <1>2, <1>3, <2>1 DEF IInv, RowsAgree, Available
<1>6. SessionsSound'
  BY <1>1 DEF SessionsSound
<1> QED
  BY <1>2, <1>4, <1>5, <1>6 DEF IInv

-----------------------------------------------------------------------------
(* The theorems                                                             *)

\* Nothing is known or published at first.
LEMMA InitInv == Init => IInv
BY IdentityAssumption DEF Init, IInv, TypeOK, RowsAgree, SessionsSound, Available

\* Every step preserves the invariant.
LEMMA NextInv == IInv /\ [Next]_vars => IInv'
<1> SUFFICES ASSUME IInv, [Next]_vars PROVE IInv'
  OBVIOUS
<1>1. ASSUME NEW s \in Sessions, Run(s) PROVE IInv'
  BY <1>1, OpenCloseInv, BeginInv, ViewInv, CheckRowsInv, LocateInv, SearchInv, ChangedInv,
     CommitInv DEF Run
<1>2. ASSUME NEW c \in Bulks, NEW gone \in SUBSET Ids, RemoveMembers(c, gone) PROVE IInv'
  BY <1>2, RemoveMembersInv
<1>3. CASE UNCHANGED vars
  <2>1. TypeOK' /\ RowsAgree'
    BY <1>3 DEF vars, IInv, TypeOK, RowsAgree, Available
  <2>2. SessionsSound'
    <3> SUFFICES ASSUME NEW s \in Sessions, session'[s] # None PROVE Sound(session[s])'
      BY DEF SessionsSound
    <3> PICK t : t = session'[s]
      OBVIOUS
    <3>1. Sound(t)
      BY <1>3 DEF vars, IInv, SessionsSound
    <3> QED
      BY <1>3, <3>1, SoundSame DEF vars, ledger
  <2> QED
    BY <2>1, <2>2 DEF IInv
<1> QED
  BY <1>1, <1>2, <1>3 DEF Next

\* The inductive invariant holds in every reachable state.
LEMMA Invariance == Spec => []IInv
BY InitInv, NextInv, PTL DEF Spec

\* Rows, marks and sessions keep their types (core_publication.py, ledger.py).
THEOREM IdentitiesTypeCorrect == Spec => []TypeOK
<1>1. IInv => TypeOK
  BY DEF IInv
<1> QED
  BY <1>1, Invariance, PTL

\* The ledger's view of the identities and the view each session keeps are both right
\* (identity_view, locate_members and _check_ledger_copies).
THEOREM RegistryViewsRight == Spec => []RegistryViews
<1>1. IInv => RegistryViews
  <2> SUFFICES ASSUME IInv PROVE CacheCoherent
    BY DEF IInv, RegistryViews
  <2> SUFFICES ASSUME NEW s \in Sessions, session[s] # None, session[s].seen = mark
               PROVE  /\ session[s].view # None => session[s].view = Available
                      /\ \A i \in session[s].misses : Held(Copies(Available), i) = {}
                      /\ \A h \in session[s].hits : Held(Copies(Available), h[1]) = {h[2]}
    BY DEF CacheCoherent
  <2>1. mark \in Nat /\ mark # None /\ layered \subseteq 1 .. mark
    BY IdentityAssumption DEF IInv, TypeOK
  <2>2. PICK t : t = session[s]
    OBVIOUS
  <2>3. t.seen # None /\ \A m \in layered : m <= t.seen
    BY <2>1, <2>2
  <2>4. Coherent(t)
    BY <2>2, <2>3 DEF IInv, SessionsSound, Sound, Remembers
  <2> QED
    BY <2>2, <2>4 DEF Coherent
<1> QED
  BY <1>1, Invariance, PTL

\* A row that a unit may claim is a row of the registry.
LEMMA ClaimsAreRegistryRows == Claims \subseteq Registry!Row
<1>1. \A d \in Digests : Occurrence(d) \in Registry!Row
  BY DEF Occurrence, Registry!Row
<1>2. StateRow \in Registry!Row
  BY DEF StateRow, Registry!Row
<1> QED
  BY <1>1, <1>2 DEF Claims

\* Every commit is one step of the registry, although its checks were made in
\* transactions of their own.
LEMMA CommitRegisters ==
    ASSUME IInv, NEW s \in Sessions, Commit(s)
    PROVE  [Registry!Next]_(Registry!vars)
<1>1. CASE UNCHANGED <<row, layer>>
  BY <1>1 DEF Registry!vars, Available
<1>2. ASSUME NEW i \in Ids, NEW r \in Claims, Claimed(i, r)
      PROVE  Registry!Next
  <2>1. Registry!Claim(i, r)
    BY <1>2 DEF Claimed, Registry!Claim, Registry!Agree, Keeps, Agrees, Available
  <2> QED
    BY <2>1, ClaimsAreRegistryRows DEF Registry!Next
<1>3. ASSUME NEW c \in Bulks, Shelved(c)
      PROVE  Registry!Next
  <2>1. Available' = Available \cup {c}
    BY <1>3, ShelvedAvailable DEF Shelved, IInv
  <2>2. \A m \in Members[c] : m[1] # StateOf[c] /\ Registry!Agree(row[m[1]], m[2])
    BY <1>3 DEF Shelved, LedgerCopies, Registry!Agree
  <2>3. \A b \in Available : \A m \in Members[b] : m[1] # StateOf[c]
    BY <1>3 DEF Shelved, Agrees, StateRow
  <2>4. row[StateOf[c]] # None => row[StateOf[c]].kind = "state"
    BY <1>3 DEF Shelved, Keeps, StateRow
  <2>5. row' = [row EXCEPT ![StateOf[c]] = [kind |-> "state", digest |-> None, there |-> TRUE]]
    BY <1>3 DEF Shelved, StateRow
  <2>6. Registry!Shelve(c)
    BY <2>1, <2>2, <2>3, <2>4, <2>5 DEF Registry!Shelve
  <2> QED
    BY <2>6 DEF Registry!Next
<1> QED
  BY <1>1, <1>2, <1>3, CommitEffect

\* A removal withdraws a layer and the rows of its scope.
LEMMA RemovalRegisters ==
    ASSUME IInv, NEW c \in Bulks, NEW gone \in SUBSET Ids, RemoveMembers(c, gone)
    PROVE  Registry!Next
<1>1. Available' = Available \ {c}
  BY RemoveMembersInv
<1>2. gone \cup {StateOf[c]} \in SUBSET Ids /\ {c} \in SUBSET Bulks
  BY IdentityAssumption
<1>3. Registry!Withdraw({c}, gone \cup {StateOf[c]})
  BY <1>1 DEF RemoveMembers, Registry!Withdraw
<1> QED
  BY <1>2, <1>3 DEF Registry!Next

\* Checks made apart from the commit amount to a check in the commit: the sessions
\* implement a registry that accepts every claim and every layer in one step.
THEOREM SessionsImplementRegistry == Spec => ImplementsRegistry
<1>1. Init => Registry!Init
  BY DEF Init, Registry!Init, Available
<1>2. IInv /\ [Next]_vars => [Registry!Next]_(Registry!vars)
  <2> SUFFICES ASSUME IInv, [Next]_vars PROVE [Registry!Next]_(Registry!vars)
    OBVIOUS
  <2>1. ASSUME NEW s \in Sessions, Run(s) PROVE [Registry!Next]_(Registry!vars)
    <3>1. CASE Commit(s)
      BY <3>1, CommitRegisters
    <3>2. CASE ~Commit(s)
      <4>1. UNCHANGED ledger
        BY <2>1, <3>2 DEF Run, Open, Close, Begin, View, CheckRows, Locate, Search, Changed
      <4> QED
        BY <4>1 DEF ledger, Registry!vars, Available
    <3> QED
      BY <3>1, <3>2
  <2>2. ASSUME NEW c \in Bulks, NEW gone \in SUBSET Ids, RemoveMembers(c, gone)
        PROVE  [Registry!Next]_(Registry!vars)
    BY <2>2, RemovalRegisters
  <2>3. CASE UNCHANGED vars
    BY <2>3 DEF vars, Registry!vars, Available
  <2> QED
    BY <2>1, <2>2, <2>3 DEF Next
<1> QED
  BY <1>1, <1>2, Invariance, PTL DEF Spec, ImplementsRegistry, Registry!Spec
=============================================================================
