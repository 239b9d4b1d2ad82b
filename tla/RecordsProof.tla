---------------------------- MODULE RecordsProof ----------------------------
(***************************************************************************)
(* The record storage, for every value of the constants: layers, the       *)
(* registration of producer tables, and the advance of datasets by racing  *)
(* calls.  The three share no state, and each has an argument of its own:  *)
(* see the head of each part.                                              *)
(***************************************************************************)
EXTENDS Records, Registration, Generation, FiniteSetTheorems, WellFoundedInduction, TLAPS

(***************************************************************************)
(* Layers.  A snapshot is a pure function of the files it lists.  A write  *)
(* adds files of its own, so that every other snapshot reads as before;    *)
(* what the new one reads is the base without the rows the delete file     *)
(* names, and the rows of the data file.  Removal takes only files no      *)
(* other layer lists.                                                      *)
(***************************************************************************)
-----------------------------------------------------------------------------
(* Bags of what a function yields over a finite set of indices.            *)

\* How often g yields each of its values over P.
Tally(P, g) == [r \in {g[p] : p \in P} |-> Cardinality({p \in P : g[p] = r})]

\* Two functions that agree over P have one tally.
LEMMA TallySame ==
    ASSUME NEW P, NEW g, NEW h, \A p \in P : g[p] = h[p]
    PROVE  Tally(P, g) = Tally(P, h)
<1>1. {g[p] : p \in P} = {h[p] : p \in P}
    OBVIOUS
<1>2. ASSUME NEW r
      PROVE  {p \in P : g[p] = r} = {p \in P : h[p] = r}
    OBVIOUS
<1> QED
    BY <1>1, <1>2 DEF Tally

\* A tally counts at least once whatever it counts.
LEMMA TallyType ==
    ASSUME NEW P, NEW g, IsFiniteSet(P)
    PROVE  \A r \in DOMAIN Tally(P, g) : Tally(P, g)[r] \in Nat
<1> SUFFICES ASSUME NEW r \in DOMAIN Tally(P, g)
             PROVE  Tally(P, g)[r] \in Nat
    OBVIOUS
<1>1. Tally(P, g)[r] = Cardinality({p \in P : g[p] = r})
    BY DEF Tally
<1>2. IsFiniteSet({p \in P : g[p] = r})
    BY FS_Subset
<1> QED
    BY <1>1, <1>2, FS_CardinalityType

\* The tally over two disjoint sets is the sum of their tallies.
LEMMA TallyUnion ==
    ASSUME NEW P, NEW Q, NEW g, IsFiniteSet(P), IsFiniteSet(Q), P \cap Q = {}
    PROVE  Tally(P \cup Q, g) = Tally(P, g) (+) Tally(Q, g)
<1> DEFINE Hits(R, r) == {p \in R : g[p] = r}
           Vs(R) == {g[p] : p \in R}
<1>1. DOMAIN Tally(P \cup Q, g) = DOMAIN Tally(P, g) \cup DOMAIN Tally(Q, g)
    BY DEF Tally
<1>2. ASSUME NEW r \in Vs(P \cup Q)
      PROVE  Cardinality(Hits(P \cup Q, r))
              = (IF r \in Vs(P) THEN Cardinality(Hits(P, r)) ELSE 0)
                + (IF r \in Vs(Q) THEN Cardinality(Hits(Q, r)) ELSE 0)
  <2>1. Hits(P \cup Q, r) = Hits(P, r) \cup Hits(Q, r) /\ Hits(P, r) \cap Hits(Q, r) = {}
      OBVIOUS
  <2>2. IsFiniteSet(Hits(P, r)) /\ IsFiniteSet(Hits(Q, r))
      BY FS_Subset
  <2>3. Cardinality(Hits(P, r)) \in Nat /\ Cardinality(Hits(Q, r)) \in Nat
      BY <2>2, FS_CardinalityType
  <2>4. r \notin Vs(P) => Cardinality(Hits(P, r)) = 0
    <3>1. r \notin Vs(P) => Hits(P, r) = {}
        OBVIOUS
    <3> QED
        BY <3>1, FS_EmptySet
  <2>5. r \notin Vs(Q) => Cardinality(Hits(Q, r)) = 0
    <3>1. r \notin Vs(Q) => Hits(Q, r) = {}
        OBVIOUS
    <3> QED
        BY <3>1, FS_EmptySet
  <2>6. Cardinality(Hits(P, r) \cup Hits(Q, r))
          = Cardinality(Hits(P, r)) + Cardinality(Hits(Q, r)) - Cardinality(Hits(P, r) \cap Hits(Q, r))
      BY <2>2, FS_Union
  <2>7. Cardinality(Hits(P, r) \cap Hits(Q, r)) = 0
      BY <2>1, FS_EmptySet
  <2>8. Cardinality(Hits(P \cup Q, r)) = Cardinality(Hits(P, r) \cup Hits(Q, r))
      BY <2>1
  <2>9. Cardinality(Hits(P \cup Q, r)) = Cardinality(Hits(P, r)) + Cardinality(Hits(Q, r))
    <3> HIDE DEF Hits, Vs
    <3> QED
        BY <2>3, <2>6, <2>7, <2>8
  <2> HIDE DEF Hits, Vs
  <2> QED
      BY <2>3, <2>4, <2>5, <2>9
<1>3. Tally(P \cup Q, g) = [r \in Vs(P \cup Q) |-> Cardinality(Hits(P \cup Q, r))]
    BY DEF Tally
<1>4. Tally(P, g) (+) Tally(Q, g)
        = [r \in Vs(P) \cup Vs(Q) |->
            (IF r \in Vs(P) THEN Cardinality(Hits(P, r)) ELSE 0)
            + (IF r \in Vs(Q) THEN Cardinality(Hits(Q, r)) ELSE 0)]
  <2>1. DOMAIN Tally(P, g) = Vs(P) /\ DOMAIN Tally(Q, g) = Vs(Q)
      BY DEF Tally
  <2>2. \A r \in Vs(P) : Tally(P, g)[r] = Cardinality(Hits(P, r))
      BY DEF Tally
  <2>3. \A r \in Vs(Q) : Tally(Q, g)[r] = Cardinality(Hits(Q, r))
      BY DEF Tally
  <2> HIDE DEF Hits, Vs
  <2> QED
      BY <2>1, <2>2, <2>3 DEF (+)
<1>5. Vs(P \cup Q) = Vs(P) \cup Vs(Q)
    OBVIOUS
<1> HIDE DEF Hits, Vs
<1> QED
    BY <1>2, <1>3, <1>4, <1>5

\* Adding nothing to a bag changes nothing.
LEMMA TallyEmpty ==
    ASSUME NEW P, NEW g, NEW h, IsFiniteSet(P)
    PROVE  Tally({}, h) (+) Tally(P, g) = Tally(P, g)
<1>1. DOMAIN Tally({}, h) = {}
    BY DEF Tally
<1>2. Tally(P, g) = [r \in DOMAIN Tally(P, g) |-> Tally(P, g)[r]]
    BY DEF Tally
<1>3. \A r \in DOMAIN Tally(P, g) : 0 + Tally(P, g)[r] = Tally(P, g)[r]
    BY TallyType
<1>4. Tally({}, h) (+) Tally(P, g) = [r \in DOMAIN Tally(P, g) |-> 0 + Tally(P, g)[r]]
    BY <1>1 DEF (+)
<1> QED
    BY <1>2, <1>3, <1>4

\* Taking values out of a tally is leaving out the indices that yield them.
LEMMA TallyWithout ==
    ASSUME NEW P, NEW g, NEW R
    PROVE  Without(Tally(P, g), R) = Tally({p \in P : g[p] \notin R}, g)
<1> DEFINE Q == {p \in P : g[p] \notin R}
<1>1. {g[p] : p \in P} \ R = {g[p] : p \in Q}
    OBVIOUS
<1>2. ASSUME NEW r \in {g[p] : p \in Q}
      PROVE  {p \in P : g[p] = r} = {p \in Q : g[p] = r}
    OBVIOUS
<1>3. Without(Tally(P, g), R) = [r \in {g[p] : p \in P} \ R |-> Cardinality({p \in P : g[p] = r})]
    BY DEF Without, Tally, BagToSet
<1>4. Tally(Q, g) = [r \in {g[p] : p \in Q} |-> Cardinality({p \in Q : g[p] = r})]
    BY DEF Tally
<1> QED
    BY <1>1, <1>2, <1>3, <1>4

\* A one-to-one change of the indices keeps the tally.
LEMMA TallyRename ==
    ASSUME NEW P, NEW Q, NEW g, NEW h, NEW b \in Bijection(P, Q), IsFiniteSet(P),
           \A p \in P : h[b[p]] = g[p]
    PROVE  Tally(P, g) = Tally(Q, h)
<1>1. b \in [P -> Q] /\ IsInjective(b) /\ \A q \in Q : \E p \in P : b[p] = q
    BY DEF Bijection, Injection, Surjection
<1>2. {g[p] : p \in P} = {h[q] : q \in Q}
    BY <1>1
<1>3. ASSUME NEW r
      PROVE  Cardinality({p \in P : g[p] = r}) = Cardinality({q \in Q : h[q] = r})
  <2> DEFINE A == {p \in P : g[p] = r}
             B == {q \in Q : h[q] = r}
             c == [p \in A |-> b[p]]
  <2>1. c \in [A -> B]
      BY <1>1
  <2>2. \A p, q \in A : c[p] = c[q] => p = q
      BY <1>1 DEF IsInjective
  <2>3. \A q \in B : \E p \in A : c[p] = q
      BY <1>1
  <2>4. IsFiniteSet(A)
      BY FS_Subset
  <2>5. c \in Bijection(A, B)
      BY <2>1, <2>2, <2>3 DEF Bijection, Injection, Surjection, IsInjective
  <2> HIDE DEF A, B, c
  <2> QED
      BY <2>4, <2>5, FS_Bijection DEF ExistsBijection, A, B
<1> QED
    BY <1>2, <1>3 DEF Tally

\* Distinct values are as many as the indices that yield them.
LEMMA ImageCard ==
    ASSUME NEW P, NEW g, IsFiniteSet(P), \A p, q \in P : g[p] = g[q] => p = q
    PROVE  /\ IsFiniteSet({g[p] : p \in P})
           /\ Cardinality({g[p] : p \in P}) = Cardinality(P)
<1> DEFINE V == {g[p] : p \in P}
           c == [p \in P |-> g[p]]
<1>1. c \in [P -> V]
    OBVIOUS
<1>2. \A p, q \in P : c[p] = c[q] => p = q
    OBVIOUS
<1>3. \A q \in V : \E p \in P : c[p] = q
    OBVIOUS
<1>4. c \in Bijection(P, V)
    BY <1>1, <1>2, <1>3 DEF Bijection, Injection, Surjection, IsInjective
<1> HIDE DEF V, c
<1> QED
    BY <1>4, FS_Bijection DEF ExistsBijection, V

\* SetToSeq lists a finite set without repeating an element.
LEMMA Enumerated ==
    ASSUME NEW P, IsFiniteSet(P)
    PROVE  SetToSeq(P) \in Bijection(1..Cardinality(P), P)
<1>1. PICK b \in Bijection(1..Cardinality(P), P) : TRUE
    BY FS_CardinalityType DEF ExistsBijection
<1>2. b \in [1..Cardinality(P) -> P] /\ IsInjective(b)
    BY <1>1 DEF Bijection, Injection
<1>3. SetToSeq(P) \in [1..Cardinality(P) -> P] /\ IsInjective(SetToSeq(P))
    BY <1>2 DEF SetToSeq
<1>4. SetToSeq(P) \in Injection(1..Cardinality(P), P)
    BY <1>3 DEF Injection
<1>5. Cardinality(1..Cardinality(P)) = Cardinality(P)
    BY FS_CardinalityType, FS_Interval
<1>6. SetToSeq(P) \in Surjection(1..Cardinality(P), P)
    BY <1>4, <1>5, FS_Injection
<1> QED
    BY <1>4, <1>6 DEF Bijection

-----------------------------------------------------------------------------
(* Snapshots, of data files d and delete files x.                          *)

RowIn(d, p) == d[p[1]][p[2]]
LiveIn(d, x, s) == (UNION {{f} \X DOMAIN d[f] : f \in s.data}) \ (UNION {x[f] : f \in s.dels})
Rows(d, P) == [p \in P |-> RowIn(d, p)]

Batch(rows) == IsFiniteSet(DOMAIN rows) /\ DOMAIN rows \subseteq Nat /\ rows \in [DOMAIN rows -> Row]

\* Files are of layers begun so far, and delete files name rows of such data files.
DiskOK(m, d, x) ==
    /\ DOMAIN d \subseteq {DataFile(i) : i \in 1..m} /\ DOMAIN x \subseteq {DeleteFile(i) : i \in 1..m}
    /\ \A f \in DOMAIN d : Batch(d[f])
    /\ \A f \in DOMAIN x : x[f] \subseteq {DataFile(i) : i \in 1..m} \X Nat

\* A snapshot reads as the rows w it promised, counts them, and repeats no identity.
SnapshotOK(d, x, s, w) ==
    /\ s.data \subseteq DOMAIN d /\ s.dels \subseteq DOMAIN x
    /\ IsFiniteSet(LiveIn(d, x, s)) /\ s.count = Cardinality(LiveIn(d, x, s))
    /\ w = Tally(LiveIn(d, x, s), Rows(d, LiveIn(d, x, s)))
    /\ s.kind = "records" =>
        \A p, q \in LiveIn(d, x, s) : RowIn(d, p).key = RowIn(d, q).key => p = q

\* The invariant: so does every layer, under receipts of all its files, and the write in progress.
LayersInv ==
    /\ made \in Nat
    /\ DiskOK(made, data, dels)
    /\ DOMAIN want = DOMAIN layers
    /\ \A l \in DOMAIN layers : SnapshotOK(data, dels, layers[l], want[l]) /\ Recovery(layers[l]) \subseteq sealed
    /\ pending = None \/ SnapshotOK(data, dels, pending.snap, pending.want)

\* The operators of the module are these on its own files.
LEMMA LiveIs ==
    ASSUME NEW s
    PROVE  /\ Live(s) = LiveIn(data, dels, s)
           /\ \A p : RowAt(p) = RowIn(data, p)
BY DEF Live, Positions, LiveIn, RowAt, RowIn

LEMMA BagIs ==
    ASSUME NEW P
    PROVE  BagAt(P) = Tally(P, Rows(data, P))
<1>1. \A p \in P : Rows(data, P)[p] = RowAt(p)
    BY DEF Rows, RowIn, RowAt
<1>2. {RowAt(p) : p \in P} = {Rows(data, P)[p] : p \in P}
    BY <1>1
<1>3. ASSUME NEW r
      PROVE  {p \in P : RowAt(p) = r} = {p \in P : Rows(data, P)[p] = r}
    BY <1>1
<1> QED
    BY <1>2, <1>3 DEF BagAt, Tally

LEMMA BatchBag ==
    ASSUME NEW rows
    PROVE  BagOf(rows) = Tally(DOMAIN rows, rows)
BY DEF BagOf, Tally, Range

\* Positions of a snapshot: a row of a data file it lists.
LEMMA LiveRow ==
    ASSUME NEW m, NEW d, NEW x, NEW s, DiskOK(m, d, x), s.data \subseteq DOMAIN d,
           NEW p \in LiveIn(d, x, s)
    PROVE  /\ RowIn(d, p) \in Row
           /\ p[1] \in s.data /\ p[2] \in DOMAIN d[p[1]] /\ p = <<p[1], p[2]>>
<1>1. PICK f \in s.data : p \in {f} \X DOMAIN d[f]
    BY DEF LiveIn
<1>2. p[1] = f /\ p[2] \in DOMAIN d[f] /\ p = <<p[1], p[2]>>
    BY <1>1
<1>3. d[f] \in [DOMAIN d[f] -> Row]
    BY DEF DiskOK, Batch
<1> QED
    BY <1>2, <1>3 DEF RowIn

\* Files a snapshot does not list do not matter to it.
LEMMA SnapshotFrame ==
    ASSUME NEW m, NEW d, NEW x, NEW s, NEW w, NEW e, NEW y, DiskOK(m, d, x), SnapshotOK(d, x, s, w),
           \A f \in s.data : f \in DOMAIN e /\ e[f] = d[f],
           \A f \in s.dels : f \in DOMAIN y /\ y[f] = x[f]
    PROVE  SnapshotOK(e, y, s, w) /\ LiveIn(e, y, s) = LiveIn(d, x, s)
<1> DEFINE P == LiveIn(d, x, s)
<1>1. LiveIn(e, y, s) = P
  <2>1. UNION {{f} \X DOMAIN e[f] : f \in s.data} = UNION {{f} \X DOMAIN d[f] : f \in s.data}
      OBVIOUS
  <2>2. UNION {y[f] : f \in s.dels} = UNION {x[f] : f \in s.dels}
      OBVIOUS
  <2> QED
      BY <2>1, <2>2 DEF LiveIn
<1>2. \A p \in P : RowIn(e, p) = RowIn(d, p)
    BY LiveRow DEF RowIn, SnapshotOK
<1>3. Rows(e, P) = Rows(d, P)
    BY <1>2 DEF Rows
<1>4. s.data \subseteq DOMAIN e /\ s.dels \subseteq DOMAIN y
    OBVIOUS
<1> HIDE DEF P
<1>5. IsFiniteSet(P) /\ s.count = Cardinality(P) /\ w = Tally(P, Rows(d, P))
      /\ (s.kind = "records" => \A p, q \in P : RowIn(d, p).key = RowIn(d, q).key => p = q)
    BY DEF SnapshotOK, P
<1> QED
    BY <1>1, <1>2, <1>3, <1>4, <1>5 DEF SnapshotOK, P

-----------------------------------------------------------------------------
(* One commit: the files Fork writes for layer l, and what they read as.   *)

NewData(d, l, rows) ==
    LET n == IF DOMAIN rows = {} THEN {} ELSE {DataFile(l)}
    IN  [f \in DOMAIN d \cup n |-> IF f \in n THEN rows ELSE d[f]]
NewDels(x, l, gone) ==
    LET n == IF gone = {} THEN {} ELSE {DeleteFile(l)}
    IN  [f \in DOMAIN x \cup n |-> IF f \in n THEN gone ELSE x[f]]
NewSnapshot(s, l, gone, rows, count) ==
    Snapshot(s.kind, s.data \cup (IF DOMAIN rows = {} THEN {} ELSE {DataFile(l)}),
                     s.dels \cup (IF gone = {} THEN {} ELSE {DeleteFile(l)}), count)

\* The new files are of no earlier layer.
LEMMA NewFiles ==
    ASSUME NEW m \in Nat
    PROVE  /\ \A i \in 1..m : DataFile(i) # DataFile(m + 1) /\ DeleteFile(i) # DeleteFile(m + 1)
           /\ \A i, j : DataFile(i) # DeleteFile(j)
BY DEF DataFile, DeleteFile

LEMMA ForkDisk ==
    ASSUME NEW m \in Nat, NEW d, NEW x, NEW rows, NEW gone, DiskOK(m, d, x), Batch(rows),
           gone \subseteq {DataFile(i) : i \in 1..m} \X Nat
    PROVE  /\ DiskOK(m + 1, NewData(d, m + 1, rows), NewDels(x, m + 1, gone))
           /\ \A f \in DOMAIN d : f \in DOMAIN NewData(d, m + 1, rows) /\ NewData(d, m + 1, rows)[f] = d[f]
           /\ \A f \in DOMAIN x : f \in DOMAIN NewDels(x, m + 1, gone) /\ NewDels(x, m + 1, gone)[f] = x[f]
<1> DEFINE e == NewData(d, m + 1, rows)
           y == NewDels(x, m + 1, gone)
           D(n) == {DataFile(i) : i \in 1..n}
           X(n) == {DeleteFile(i) : i \in 1..n}
<1>1. D(m) \subseteq D(m + 1) /\ DataFile(m + 1) \in D(m + 1) /\ DataFile(m + 1) \notin D(m)
    BY NewFiles
<1>2. X(m) \subseteq X(m + 1) /\ DeleteFile(m + 1) \in X(m + 1) /\ DeleteFile(m + 1) \notin X(m)
    BY NewFiles
<1>3. DOMAIN e \subseteq D(m + 1) /\ DOMAIN y \subseteq X(m + 1)
    BY <1>1, <1>2 DEF DiskOK, NewData, NewDels
<1>4. \A f \in DOMAIN d : f \in DOMAIN e /\ e[f] = d[f]
    BY <1>1 DEF DiskOK, NewData
<1>5. \A f \in DOMAIN x : f \in DOMAIN y /\ y[f] = x[f]
    BY <1>2 DEF DiskOK, NewDels
<1>6. \A f \in DOMAIN e : e[f] = rows \/ (f \in DOMAIN d /\ e[f] = d[f])
    BY DEF NewData
<1>7. \A f \in DOMAIN y : y[f] = gone \/ (f \in DOMAIN x /\ y[f] = x[f])
    BY DEF NewDels
<1>8. \A f \in DOMAIN e : Batch(e[f])
    BY <1>6 DEF DiskOK
<1>9. \A f \in DOMAIN y : y[f] \subseteq D(m + 1) \X Nat
  <2>1. \A f \in DOMAIN y : y[f] \subseteq D(m) \X Nat
      BY <1>7 DEF DiskOK
  <2> QED
      BY <1>1, <2>1
<1> QED
    BY <1>3, <1>4, <1>5, <1>8, <1>9 DEF DiskOK

\* The rows left of the base, and the new ones.
LEMMA ForkLive ==
    ASSUME NEW m \in Nat, NEW d, NEW x, NEW s, NEW rows, NEW gone, NEW count,
           DiskOK(m, d, x), Batch(rows), s.data \subseteq DOMAIN d, s.dels \subseteq DOMAIN x,
           gone \subseteq LiveIn(d, x, s)
    PROVE  LiveIn(NewData(d, m + 1, rows), NewDels(x, m + 1, gone), NewSnapshot(s, m + 1, gone, rows, count))
            = (LiveIn(d, x, s) \ gone) \cup ({DataFile(m + 1)} \X DOMAIN rows)
<1> DEFINE e == NewData(d, m + 1, rows)
           y == NewDels(x, m + 1, gone)
           t == NewSnapshot(s, m + 1, gone, rows, count)
           Old == UNION {{f} \X DOMAIN d[f] : f \in s.data}
           Cut == UNION {x[f] : f \in s.dels}
           Fresh == {DataFile(m + 1)} \X DOMAIN rows
<1>1. DataFile(m + 1) \notin DOMAIN d /\ DeleteFile(m + 1) \notin DOMAIN x
    BY NewFiles DEF DiskOK
<1>2. UNION {{f} \X DOMAIN e[f] : f \in t.data} = Old \cup Fresh
  <2>1. \A f \in s.data : e[f] = d[f]
      BY <1>1 DEF NewData
  <2>2. CASE DOMAIN rows = {}
    <3>1. t.data = s.data
        BY <2>2 DEF NewSnapshot, Snapshot
    <3>2. Fresh = {}
        BY <2>2
    <3> QED
        BY <2>1, <3>1, <3>2
  <2>3. CASE DOMAIN rows # {}
    <3>1. t.data = s.data \cup {DataFile(m + 1)}
        BY <2>3 DEF NewSnapshot, Snapshot
    <3>2. e[DataFile(m + 1)] = rows
        BY <2>3 DEF NewData
    <3> HIDE DEF e, t
    <3> QED
        BY <2>1, <3>1, <3>2
  <2> QED
      BY <2>2, <2>3
<1>3. UNION {y[f] : f \in t.dels} = Cut \cup gone
  <2>1. \A f \in s.dels : y[f] = x[f]
      BY <1>1 DEF NewDels
  <2>2. CASE gone = {}
    <3>1. t.dels = s.dels
        BY <2>2 DEF NewSnapshot, Snapshot
    <3> HIDE DEF y, t
    <3> QED
        BY <2>1, <2>2, <3>1
  <2>3. CASE gone # {}
    <3>1. t.dels = s.dels \cup {DeleteFile(m + 1)}
        BY <2>3 DEF NewSnapshot, Snapshot
    <3>2. y[DeleteFile(m + 1)] = gone
        BY <2>3 DEF NewDels
    <3> HIDE DEF y, t
    <3> QED
        BY <2>1, <3>1, <3>2
  <2> QED
      BY <2>2, <2>3
<1>4. Fresh \cap Cut = {}
  <2>1. Cut \subseteq {DataFile(i) : i \in 1..m} \X Nat
      BY DEF DiskOK
  <2>2. DataFile(m + 1) \notin {DataFile(i) : i \in 1..m}
      BY NewFiles
  <2> HIDE DEF Cut
  <2> QED
      BY <2>1, <2>2
<1>5. Fresh \cap gone = {}
  <2>1. gone \subseteq Old
      BY DEF LiveIn
  <2>2. Fresh \cap Old = {}
      BY <1>1
  <2> QED
      BY <2>1, <2>2
<1>6. LiveIn(d, x, s) = Old \ Cut
    BY DEF LiveIn
<1>7. LiveIn(e, y, t) = (Old \cup Fresh) \ (Cut \cup gone)
    BY <1>2, <1>3 DEF LiveIn
<1> HIDE DEF e, y, t, Old, Cut, Fresh
<1>8. LiveIn(e, y, t) = (LiveIn(d, x, s) \ gone) \cup Fresh
    BY <1>4, <1>5, <1>6, <1>7
<1> QED
    BY <1>8 DEF e, y, t, Fresh

\* The new rows, by position.
LEMMA FreshRows ==
    ASSUME NEW d, NEW m, NEW rows, Batch(rows)
    PROVE  /\ IsFiniteSet({DataFile(m + 1)} \X DOMAIN rows)
           /\ Cardinality({DataFile(m + 1)} \X DOMAIN rows) = Cardinality(DOMAIN rows)
           /\ \A p \in {DataFile(m + 1)} \X DOMAIN rows : RowIn(NewData(d, m + 1, rows), p) = rows[p[2]]
           /\ \A g : (\A p \in {DataFile(m + 1)} \X DOMAIN rows : g[p] = rows[p[2]])
                        => Tally({DataFile(m + 1)} \X DOMAIN rows, g) = BagOf(rows)
<1> DEFINE Fresh == {DataFile(m + 1)} \X DOMAIN rows
           b == [i \in DOMAIN rows |-> <<DataFile(m + 1), i>>]
<1>1. b \in Bijection(DOMAIN rows, Fresh)
  <2>1. b \in [DOMAIN rows -> Fresh]
      OBVIOUS
  <2>2. \A i, j \in DOMAIN rows : b[i] = b[j] => i = j
      OBVIOUS
  <2>3. \A p \in Fresh : \E i \in DOMAIN rows : b[i] = p
      OBVIOUS
  <2> HIDE DEF b, Fresh
  <2> QED
      BY <2>1, <2>2, <2>3 DEF Bijection, Injection, Surjection, IsInjective
<1>2. IsFiniteSet(DOMAIN rows)
    BY DEF Batch
<1>3. IsFiniteSet(Fresh) /\ Cardinality(Fresh) = Cardinality(DOMAIN rows)
    BY <1>1, <1>2, FS_Bijection DEF ExistsBijection
<1>4. \A p \in Fresh : RowIn(NewData(d, m + 1, rows), p) = rows[p[2]]
    BY DEF NewData, RowIn
<1>5. ASSUME NEW g, \A p \in Fresh : g[p] = rows[p[2]]
      PROVE  Tally(Fresh, g) = BagOf(rows)
  <2>1. \A i \in DOMAIN rows : g[b[i]] = rows[i]
    <3>1. \A i \in DOMAIN rows : b[i] \in Fresh /\ b[i][2] = i
        OBVIOUS
    <3> HIDE DEF b, Fresh
    <3> QED
        BY <1>5, <3>1
  <2> HIDE DEF b, Fresh
  <2>2. Tally(DOMAIN rows, rows) = Tally(Fresh, g)
      BY <1>1, <1>2, <2>1, TallyRename
  <2> QED
      BY <2>2, BatchBag
<1> QED
    BY <1>3, <1>4, <1>5

\* What a commit must provide for its snapshot to be what it promises.
CommitOK(d, L, s, gone, rows, count, promise) ==
    /\ Batch(rows) /\ gone \subseteq L
    /\ count = Cardinality(L \ gone) + Cardinality(DOMAIN rows)
    /\ promise = Tally(L \ gone, Rows(d, L)) (+) BagOf(rows)
    /\ s.kind = "records" =>
        /\ \A i, j \in DOMAIN rows : rows[i].key = rows[j].key => i = j
        /\ \A p \in L \ gone, i \in DOMAIN rows : RowIn(d, p).key # rows[i].key

LEMMA CommitSound ==
    ASSUME NEW m \in Nat, NEW d, NEW x, NEW s, NEW w, NEW rows, NEW gone, NEW count, NEW promise,
           DiskOK(m, d, x), SnapshotOK(d, x, s, w),
           CommitOK(d, LiveIn(d, x, s), s, gone, rows, count, promise)
    PROVE  SnapshotOK(NewData(d, m + 1, rows), NewDels(x, m + 1, gone),
                      NewSnapshot(s, m + 1, gone, rows, count), promise)
<1> DEFINE e == NewData(d, m + 1, rows)
           y == NewDels(x, m + 1, gone)
           t == NewSnapshot(s, m + 1, gone, rows, count)
           L == LiveIn(d, x, s)
           N == LiveIn(e, y, t)
           Kept == L \ gone
           Fresh == {DataFile(m + 1)} \X DOMAIN rows
<1>0. s.data \subseteq DOMAIN d /\ s.dels \subseteq DOMAIN x /\ IsFiniteSet(L) /\ Batch(rows) /\ gone \subseteq L
    BY DEF SnapshotOK, CommitOK
<1>1. N = Kept \cup Fresh
    BY <1>0, ForkLive
<1>2. \A p \in L : RowIn(e, p) = RowIn(d, p) /\ p[1] \in DOMAIN d
  <2>1. \A p \in L : p[1] \in DOMAIN d
      BY <1>0, LiveRow
  <2>2. \A f \in DOMAIN d : e[f] = d[f]
      BY NewFiles DEF DiskOK, NewData
  <2> QED
      BY <2>1, <2>2 DEF RowIn
<1>3. Kept \cap Fresh = {}
  <2>1. DataFile(m + 1) \notin DOMAIN d
      BY NewFiles DEF DiskOK
  <2>2. \A p \in Fresh : p[1] = DataFile(m + 1)
      OBVIOUS
  <2> HIDE DEF Fresh, L
  <2> QED
      BY <1>2, <2>1, <2>2
<1>4. /\ IsFiniteSet(Fresh) /\ Cardinality(Fresh) = Cardinality(DOMAIN rows)
      /\ \A p \in Fresh : RowIn(e, p) = rows[p[2]]
      /\ \A g : (\A p \in Fresh : g[p] = rows[p[2]]) => Tally(Fresh, g) = BagOf(rows)
  <2>1. IsFiniteSet(Fresh) /\ Cardinality(Fresh) = Cardinality(DOMAIN rows)
      BY <1>0, FreshRows
  <2>2. \A p \in Fresh : RowIn(e, p) = rows[p[2]]
      BY DEF NewData, RowIn
  <2>3. \A g : (\A p \in Fresh : g[p] = rows[p[2]]) => Tally(Fresh, g) = BagOf(rows)
      BY <1>0, FreshRows
  <2> QED
      BY <2>1, <2>2, <2>3
<1>5. IsFiniteSet(Kept)
    BY <1>0, FS_Subset
<1>6. t.data \subseteq DOMAIN e /\ t.dels \subseteq DOMAIN y
    BY <1>0 DEF NewSnapshot, Snapshot, NewData, NewDels
<1>7. t.kind = s.kind /\ t.count = count
    BY DEF NewSnapshot, Snapshot
<1>8. \A p \in Fresh : p[2] \in DOMAIN rows /\ p = <<DataFile(m + 1), p[2]>>
    OBVIOUS
<1>9. /\ count = Cardinality(Kept) + Cardinality(DOMAIN rows)
      /\ promise = Tally(Kept, Rows(d, L)) (+) BagOf(rows)
      /\ s.kind = "records" =>
          /\ \A i, j \in DOMAIN rows : rows[i].key = rows[j].key => i = j
          /\ \A p \in Kept, i \in DOMAIN rows : RowIn(d, p).key # rows[i].key
    BY DEF CommitOK
<1>10. s.kind = "records" => \A p, q \in L : RowIn(d, p).key = RowIn(d, q).key => p = q
    BY DEF SnapshotOK
<1>kept. Kept \subseteq L
    OBVIOUS
<1> HIDE DEF e, y, t, L, N, Kept, Fresh
<1>11. IsFiniteSet(N) /\ t.count = Cardinality(N)
  <2>1. Cardinality(Kept \cup Fresh) = Cardinality(Kept) + Cardinality(Fresh) - Cardinality(Kept \cap Fresh)
        /\ IsFiniteSet(Kept \cup Fresh)
      BY <1>4, <1>5, FS_Union
  <2>2. Cardinality(Kept \cap Fresh) = 0
      BY <1>3, FS_EmptySet
  <2>3. Cardinality(Kept) \in Nat /\ Cardinality(Fresh) \in Nat
      BY <1>4, <1>5, FS_CardinalityType
  <2>4. Cardinality(Kept \cup Fresh) = Cardinality(Kept) + Cardinality(Fresh)
      BY <2>1, <2>2, <2>3
  <2> QED
      BY <1>1, <1>4, <1>7, <1>9, <2>1, <2>4
<1>12. promise = Tally(N, Rows(e, N))
  <2>1. Tally(N, Rows(e, N)) = Tally(Kept, Rows(e, N)) (+) Tally(Fresh, Rows(e, N))
      BY <1>1, <1>3, <1>4, <1>5, TallyUnion
  <2>2. \A p \in Kept : Rows(e, N)[p] = Rows(d, L)[p]
      BY <1>1, <1>2, <1>kept DEF Rows
  <2>3. Tally(Kept, Rows(e, N)) = Tally(Kept, Rows(d, L))
      BY <2>2, TallySame
  <2>4. \A p \in Fresh : Rows(e, N)[p] = rows[p[2]]
      BY <1>1, <1>4 DEF Rows
  <2>5. Tally(Fresh, Rows(e, N)) = BagOf(rows)
      BY <1>4, <2>4
  <2> QED
      BY <1>9, <2>1, <2>3, <2>5
<1>13. ASSUME t.kind = "records", NEW p \in N, NEW q \in N, RowIn(e, p).key = RowIn(e, q).key
       PROVE  p = q
  <2>1. CASE p \in Kept /\ q \in Kept
      BY <1>2, <1>7, <1>10, <1>13, <1>kept, <2>1
  <2>2. CASE p \in Fresh /\ q \in Fresh
    <3>1. rows[p[2]].key = rows[q[2]].key
        BY <1>4, <1>13, <2>2
    <3>2. p[2] = q[2]
        BY <1>7, <1>8, <1>9, <1>13, <2>2, <3>1
    <3> QED
        BY <1>8, <2>2, <3>2
  <2>3. CASE p \in Kept /\ q \in Fresh
      BY <1>2, <1>4, <1>7, <1>8, <1>9, <1>13, <1>kept, <2>3
  <2>4. CASE p \in Fresh /\ q \in Kept
      BY <1>2, <1>4, <1>7, <1>8, <1>9, <1>13, <1>kept, <2>4
  <2> QED
      BY <1>1, <2>1, <2>2, <2>3, <2>4
<1>14. SnapshotOK(e, y, t, promise)
    BY <1>6, <1>11, <1>12, <1>13 DEF SnapshotOK, N
<1> QED
    BY <1>14 DEF e, y, t

\* Every write is one such commit, and keeps the invariant.
LEMMA ForkKeeps ==
    ASSUME LayersInv, NEW s, NEW w, NEW rows, NEW gone, NEW count, NEW promise,
           SnapshotOK(data, dels, s, w), CommitOK(data, Live(s), s, gone, rows, count, promise),
           Fork(s, gone, rows, count, promise)
    PROVE  LayersInv'
<1> DEFINE e == NewData(data, made + 1, rows)
           y == NewDels(dels, made + 1, gone)
           t == NewSnapshot(s, made + 1, gone, rows, count)
<1>1. made \in Nat /\ DiskOK(made, data, dels) /\ DOMAIN want = DOMAIN layers
      /\ \A l \in DOMAIN layers : SnapshotOK(data, dels, layers[l], want[l]) /\ Recovery(layers[l]) \subseteq sealed
    BY DEF LayersInv
<1>2. made' = made + 1 /\ data' = e /\ dels' = y /\ pending' = [id |-> made + 1, want |-> promise, snap |-> t]
      /\ UNCHANGED <<sealed, layers, want>>
    BY DEF Fork, NewLayer, NewData, NewDels, NewSnapshot
<1>3. Live(s) = LiveIn(data, dels, s)
    BY LiveIs
<1>4. Batch(rows) /\ gone \subseteq {DataFile(i) : i \in 1..made} \X Nat
  <2>1. ASSUME NEW p \in LiveIn(data, dels, s)
        PROVE  p \in {DataFile(i) : i \in 1..made} \X Nat
    <3>1. p[1] \in DOMAIN data /\ p[2] \in DOMAIN data[p[1]] /\ p = <<p[1], p[2]>>
        BY <1>1, LiveRow DEF SnapshotOK
    <3>2. p[1] \in {DataFile(i) : i \in 1..made} /\ p[2] \in Nat
        BY <1>1, <3>1 DEF DiskOK, Batch
    <3> QED
        BY <3>1, <3>2
  <2> QED
      BY <1>3, <2>1 DEF CommitOK
<1>5. DiskOK(made + 1, e, y)
    BY <1>1, <1>4, ForkDisk
<1>6. \A f \in DOMAIN data : f \in DOMAIN e /\ e[f] = data[f]
    BY <1>1, NewFiles DEF DiskOK, NewData
<1>old. \A f \in DOMAIN dels : f \in DOMAIN y /\ y[f] = dels[f]
    BY <1>1, NewFiles DEF DiskOK, NewDels
<1>7. ASSUME NEW k, NEW v, SnapshotOK(data, dels, k, v)
      PROVE  SnapshotOK(e, y, k, v)
  <2>1. k.data \subseteq DOMAIN data /\ k.dels \subseteq DOMAIN dels
      BY <1>7 DEF SnapshotOK
  <2> HIDE DEF e, y
  <2> QED
      BY <1>1, <1>6, <1>7, <1>old, <2>1, SnapshotFrame
<1>8. SnapshotOK(e, y, t, promise)
    BY <1>1, <1>3, CommitSound
<1> HIDE DEF e, y, t
<1>9. DiskOK(made', data', dels') /\ made' \in Nat
    BY <1>1, <1>2, <1>5
<1>10. \A l \in DOMAIN layers : SnapshotOK(data', dels', layers'[l], want'[l]) /\ Recovery(layers'[l]) \subseteq sealed'
  <2>1. \A l \in DOMAIN layers : SnapshotOK(data', dels', layers'[l], want'[l])
      BY <1>1, <1>2, <1>7
  <2>2. \A l \in DOMAIN layers : Recovery(layers'[l]) \subseteq sealed'
      BY <1>1, <1>2
  <2> QED
      BY <2>1, <2>2
<1>11. SnapshotOK(data', dels', pending'.snap, pending'.want)
    BY <1>2, <1>8
<1> QED
    BY <1>1, <1>2, <1>9, <1>10, <1>11 DEF LayersInv

-----------------------------------------------------------------------------
(* The writes.                                                             *)

LEMMA BatchTyped ==
    ASSUME NEW R, NEW max \in Nat, NEW rows \in Batches(R, max)
    PROVE  /\ IsFiniteSet(DOMAIN rows) /\ DOMAIN rows \subseteq Nat /\ rows \in [DOMAIN rows -> R]
           /\ Size(rows) \in Nat
<1>1. PICK n \in 0..max : rows \in [1..n -> R]
    BY DEF Batches
<1>2. DOMAIN rows = 1..n
    BY <1>1
<1>3. IsFiniteSet(1..n)
    BY FS_Interval
<1> QED
    BY <1>1, <1>2, <1>3, FS_CardinalityType DEF Size

LEMMA PutsTyped ==
    ASSUME NEW rows \in Batches(Change, MaxDelta)
    PROVE  /\ Batch(Puts(rows)) /\ DOMAIN Puts(rows) \subseteq DOMAIN rows
           /\ \A i \in DOMAIN Puts(rows) : Puts(rows)[i] = rows[i]
           /\ Size(Puts(rows)) \in Nat
<1>1. MaxDelta \in Nat
    BY RecordsAssumption
<1>2. IsFiniteSet(DOMAIN rows) /\ DOMAIN rows \subseteq Nat /\ rows \in [DOMAIN rows -> Change]
    BY <1>1, BatchTyped
<1>3. DOMAIN Puts(rows) = Put(rows) /\ Put(rows) \subseteq DOMAIN rows
    BY DEF Puts, Put
<1>4. \A i \in Put(rows) : rows[i] \in Row
    BY <1>2 DEF Put, Row, Change
<1>5. IsFiniteSet(Put(rows))
    BY <1>2, <1>3, FS_Subset
<1>6. Puts(rows) \in [Put(rows) -> Row]
    BY <1>4 DEF Puts
<1> QED
    BY <1>2, <1>3, <1>5, <1>6, FS_CardinalityType DEF Batch, Puts, Size

\* A layer of its own.
LEMMA NewLayerKeeps ==
    ASSUME LayersInv, NEW kind, NEW rows, NEW promise, Batch(rows), promise = BagOf(rows),
           kind = "records" => Distinct(rows),
           Fork(Empty(kind), {}, rows, Size(rows), promise)
    PROVE  LayersInv'
<1> DEFINE s == Empty(kind)
           none == Tally({}, Rows(data, {}))
<1>1. s.data = {} /\ s.dels = {} /\ s.count = 0 /\ s.kind = kind
    BY DEF Empty, Snapshot
<1>2. LiveIn(data, dels, s) = {} /\ Live(s) = {}
    BY <1>1, LiveIs DEF LiveIn
<1>3. SnapshotOK(data, dels, s, none)
    BY <1>1, <1>2, FS_EmptySet DEF SnapshotOK
<1>4. none (+) BagOf(rows) = BagOf(rows)
    BY TallyEmpty, BatchBag DEF Batch
<1>5. Size(rows) = Cardinality({} \ {}) + Cardinality(DOMAIN rows)
  <2>1. Cardinality({} \ {}) = 0
      BY FS_EmptySet
  <2>2. Cardinality(DOMAIN rows) \in Nat
      BY FS_CardinalityType DEF Batch
  <2> QED
      BY <2>1, <2>2 DEF Size
<1>6. {} \ {} = {}
    OBVIOUS
<1> HIDE DEF s, none
<1>7. CommitOK(data, Live(s), s, {}, rows, Size(rows), promise)
  <2>1. promise = none (+) BagOf(rows)
      BY <1>4
  <2>2. promise = Tally(Live(s) \ {}, Rows(data, Live(s))) (+) BagOf(rows)
      BY <1>2, <1>6, <2>1 DEF none
  <2>3. Size(rows) = Cardinality(Live(s) \ {}) + Cardinality(DOMAIN rows)
      BY <1>2, <1>5
  <2>4. s.kind = "records" => \A i, j \in DOMAIN rows : rows[i].key = rows[j].key => i = j
      BY <1>1 DEF Distinct
  <2> QED
      BY <1>2, <2>2, <2>3, <2>4 DEF CommitOK
<1>8. Fork(s, {}, rows, Size(rows), promise)
    BY DEF s
<1> QED
    BY <1>3, <1>7, <1>8, ForkKeeps

\* What holds of a layer that is built on.
LEMMA Base ==
    ASSUME LayersInv, NEW l \in DOMAIN layers
    PROVE  /\ SnapshotOK(data, dels, layers[l], want[l])
           /\ IsFiniteSet(Live(layers[l])) /\ layers[l].count = Cardinality(Live(layers[l]))
           /\ want[l] = Tally(Live(layers[l]), Rows(data, Live(layers[l])))
           /\ \A p \in Live(layers[l]) :
                /\ RowAt(p) \in Row /\ RowAt(p) = RowIn(data, p)
                /\ Rows(data, Live(layers[l]))[p] = RowAt(p)
           /\ layers[l].kind = "records" =>
                \A p, q \in Live(layers[l]) : RowAt(p).key = RowAt(q).key => p = q
<1> DEFINE s == layers[l]
<1>1. SnapshotOK(data, dels, s, want[l]) /\ DiskOK(made, data, dels)
    BY DEF LayersInv
<1>2. Live(s) = LiveIn(data, dels, s) /\ \A p : RowAt(p) = RowIn(data, p)
    BY LiveIs
<1>3. \A p \in Live(s) : RowAt(p) \in Row
  <2>1. s.data \subseteq DOMAIN data
      BY <1>1 DEF SnapshotOK
  <2> QED
      BY <1>1, <1>2, <2>1, LiveRow
<1>4. \A p \in Live(s) : Rows(data, Live(s))[p] = RowAt(p)
    BY <1>2 DEF Rows
<1> QED
    BY <1>1, <1>2, <1>3, <1>4 DEF SnapshotOK

\* Rows in place of those that lie in R.
LEMMA DeltaKeeps ==
    ASSUME LayersInv, NEW l \in DOMAIN layers, NEW R, NEW rows, NEW gone, NEW count, NEW promise,
           Batch(rows), gone = {p \in Live(layers[l]) : RowAt(p) \in R},
           count = layers[l].count - Cardinality(gone) + Size(rows),
           promise = Without(want[l], R) (+) BagOf(rows),
           layers[l].kind = "records" =>
                Distinct(rows) /\ \A p \in Live(layers[l]) \ gone : RowAt(p).key \notin KeysOf(rows),
           Fork(layers[l], gone, rows, count, promise)
    PROVE  LayersInv'
<1> DEFINE s == layers[l]
           L == Live(s)
<1>1. /\ SnapshotOK(data, dels, s, want[l])
      /\ IsFiniteSet(L) /\ s.count = Cardinality(L)
      /\ want[l] = Tally(L, Rows(data, L))
      /\ \A p \in L : RowAt(p) = RowIn(data, p) /\ Rows(data, L)[p] = RowAt(p)
    BY Base
<1> HIDE DEF L
<1>2. gone = {p \in L : RowAt(p) \in R} /\ gone \subseteq L
    BY DEF L
<1>3. count = Cardinality(L \ gone) + Cardinality(DOMAIN rows)
  <2>1. Cardinality(L \ gone) = Cardinality(L) - Cardinality(L \cap gone) /\ L \cap gone = gone
      BY <1>1, <1>2, FS_Difference
  <2>2. IsFiniteSet(gone) /\ IsFiniteSet(DOMAIN rows)
      BY <1>1, <1>2, FS_Subset DEF Batch
  <2>3. Cardinality(L) \in Nat /\ Cardinality(gone) \in Nat /\ Cardinality(DOMAIN rows) \in Nat
      BY <1>1, <2>2, FS_CardinalityType
  <2> QED
      BY <1>1, <2>1, <2>3 DEF Size
<1>4. Without(want[l], R) = Tally(L \ gone, Rows(data, L))
  <2>1. {p \in L : Rows(data, L)[p] \notin R} = L \ gone
      BY <1>1, <1>2
  <2> QED
      BY <1>1, <2>1, TallyWithout
<1>5. s.kind = "records" =>
        /\ \A i, j \in DOMAIN rows : rows[i].key = rows[j].key => i = j
        /\ \A p \in L \ gone, i \in DOMAIN rows : RowIn(data, p).key # rows[i].key
    BY <1>1 DEF Distinct, KeysOf, L
<1>6. CommitOK(data, L, s, gone, rows, count, promise)
    BY <1>2, <1>3, <1>4, <1>5 DEF CommitOK
<1> QED
    BY <1>1, <1>6, ForkKeeps DEF L

\* Rows besides those of the layer.
LEMMA AddKeeps ==
    ASSUME LayersInv, NEW l \in DOMAIN layers, NEW rows, NEW count, NEW promise, Batch(rows),
           count = layers[l].count + Size(rows), promise = want[l] (+) BagOf(rows),
           layers[l].kind = "records" =>
                Distinct(rows) /\ \A p \in Live(layers[l]) : RowAt(p).key \notin KeysOf(rows),
           Fork(layers[l], {}, rows, count, promise)
    PROVE  LayersInv'
<1> DEFINE s == layers[l]
           L == Live(s)
<1>1. /\ SnapshotOK(data, dels, s, want[l])
      /\ IsFiniteSet(L) /\ s.count = Cardinality(L)
      /\ want[l] = Tally(L, Rows(data, L))
      /\ \A p \in L : RowAt(p) = RowIn(data, p)
    BY Base
<1> HIDE DEF L
<1>2. L \ {} = L
    OBVIOUS
<1>3. s.kind = "records" =>
        /\ \A i, j \in DOMAIN rows : rows[i].key = rows[j].key => i = j
        /\ \A p \in L, i \in DOMAIN rows : RowIn(data, p).key # rows[i].key
    BY <1>1 DEF Distinct, KeysOf, L
<1>4. CommitOK(data, L, s, {}, rows, count, promise)
    BY <1>1, <1>2, <1>3 DEF CommitOK, Size
<1> QED
    BY <1>1, <1>4, ForkKeeps DEF L

\* Rows read from a layer and written one after another.
LEMMA PackedRows ==
    ASSUME NEW P, IsFiniteSet(P), \A p \in P : RowAt(p) \in Row
    PROVE  /\ Batch(Packed(P)) /\ Size(Packed(P)) = Cardinality(P)
           /\ BagOf(Packed(P)) = Tally(P, Rows(data, P))
           /\ KeysOf(Packed(P)) = {RowAt(p).key : p \in P}
           /\ (\A p, q \in P : RowAt(p).key = RowAt(q).key => p = q) => Distinct(Packed(P))
<1> DEFINE n == Cardinality(P)
           b == SetToSeq(P)
           rows == Packed(P)
<1>1. n \in Nat /\ b \in Bijection(1..n, P)
    BY Enumerated, FS_CardinalityType
<1>2. rows = [i \in 1..n |-> RowAt(b[i])]
    BY DEF Packed
<1>3. b \in [1..n -> P] /\ (\A i, j \in 1..n : b[i] = b[j] => i = j) /\ \A p \in P : \E i \in 1..n : b[i] = p
    BY <1>1 DEF Bijection, Injection, Surjection, IsInjective
<1> HIDE DEF n, b, rows
<1>4. DOMAIN rows = 1..n /\ \A i \in 1..n : rows[i] = RowAt(b[i]) /\ b[i] \in P
    BY <1>2, <1>3
<1>5. IsFiniteSet(1..n) /\ Cardinality(1..n) = n
    BY <1>1, FS_Interval
<1>6. Batch(rows)
  <2>1. rows \in [1..n -> Row]
      BY <1>2, <1>3
  <2>2. 1..n \subseteq Nat
      BY <1>1
  <2> QED
      BY <1>4, <1>5, <2>1, <2>2 DEF Batch
<1>7. Tally(1..n, rows) = Tally(P, Rows(data, P))
  <2>1. \A i \in 1..n : Rows(data, P)[b[i]] = rows[i]
      BY <1>4 DEF Rows, RowIn, RowAt
  <2> QED
      BY <1>1, <1>5, <2>1, TallyRename
<1>8. BagOf(rows) = Tally(P, Rows(data, P))
    BY <1>4, <1>7, BatchBag
<1>9. KeysOf(rows) = {RowAt(p).key : p \in P}
    BY <1>3, <1>4 DEF KeysOf
<1>10. (\A p, q \in P : RowAt(p).key = RowAt(q).key => p = q) => Distinct(rows)
    BY <1>3, <1>4 DEF Distinct
<1>11. Size(rows) = n
    BY <1>4, <1>5 DEF Size
<1> QED
    BY <1>6, <1>8, <1>9, <1>10, <1>11 DEF rows, n

\* One query that counts the rows and their identities tells whether one is repeated.
LEMMA CountTells ==
    ASSUME NEW rows, IsFiniteSet(DOMAIN rows), Cardinality(KeysOf(rows)) = Size(rows)
    PROVE  Distinct(rows)
<1> DEFINE c == [i \in DOMAIN rows |-> rows[i].key]
<1>1. c \in [DOMAIN rows -> KeysOf(rows)] /\ \A k \in KeysOf(rows) : \E i \in DOMAIN rows : c[i] = k
    BY DEF KeysOf
<1>2. \A i \in DOMAIN rows : c[i] = rows[i].key
    OBVIOUS
<1> HIDE DEF c
<1>3. c \in Surjection(DOMAIN rows, KeysOf(rows))
    BY <1>1 DEF Surjection
<1>4. c \in Injection(DOMAIN rows, KeysOf(rows))
    BY <1>3, FS_SurjSameCardinalityImpliesInj DEF Size
<1>5. \A i, j \in DOMAIN rows : c[i] = c[j] => i = j
    BY <1>1, <1>4 DEF Injection, IsInjective
<1> QED
    BY <1>2, <1>5 DEF Distinct

LEMMA NewWrites ==
    ASSUME LayersInv, NEW rows \in Batches(Row, MaxBatch),
           WriteBatches(rows) \/ RetainRelation(rows) \/ WriteTable(rows)
    PROVE  LayersInv'
<1>1. IsFiniteSet(DOMAIN rows) /\ Batch(rows)
    BY RecordsAssumption, BatchTyped DEF Batch
<1>2. CASE WriteBatches(rows)
    BY <1>1, <1>2, NewLayerKeeps DEF WriteBatches
<1>3. CASE RetainRelation(rows)
    BY <1>1, <1>3, NewLayerKeeps, CountTells DEF RetainRelation
<1>4. CASE WriteTable(rows)
    BY <1>1, <1>4, NewLayerKeeps DEF WriteTable
<1> QED
    BY <1>2, <1>3, <1>4

LEMMA ReplaceKeeps ==
    ASSUME LayersInv, NEW l \in DOMAIN layers, NEW rows \in Batches(Row, MaxDelta), NEW parts \in SUBSET Buckets,
           ReplacePartitions(l, parts, rows)
    PROVE  LayersInv'
<1> DEFINE s == layers[l]
           L == Live(s)
           R == {r \in Row : BucketOf[r.val] \in parts}
           gone == {p \in L : BucketOf[RowAt(p).val] \in parts}
           promise == Without(want[l], R) (+) BagOf(rows)
           count == Size(rows) + s.count - Cardinality(gone)
<1>1. Batch(rows) /\ Size(rows) \in Nat
    BY RecordsAssumption, BatchTyped DEF Batch
<1>2. IsFiniteSet(L) /\ s.count = Cardinality(L) /\ \A p \in L : RowAt(p) \in Row
    BY Base
<1>3. gone = {p \in L : RowAt(p) \in R}
    BY <1>2
<1>4. /\ Distinct(rows) /\ \A p \in L \ gone : RowAt(p).key \notin KeysOf(rows)
      /\ Fork(s, gone, rows, count, promise)
    BY DEF ReplacePartitions
<1>5. count = s.count - Cardinality(gone) + Size(rows)
  <2>1. IsFiniteSet(gone)
      BY <1>2, FS_Subset
  <2>2. s.count \in Nat /\ Cardinality(gone) \in Nat
      BY <1>2, <2>1, FS_CardinalityType
  <2> HIDE DEF s, L, gone
  <2> QED
      BY <1>1, <2>2
<1> HIDE DEF R, count, gone, promise
<1>6. promise = Without(want[l], R) (+) BagOf(rows)
    BY DEF promise
<1> QED
    BY <1>1, <1>3, <1>4, <1>5, <1>6, DeltaKeeps

\* The rows holding a key of a delta, as the values taken from what the layer promised.
LEMMA HeldRows ==
    ASSUME LayersInv, NEW l \in DOMAIN layers, NEW rows
    PROVE  /\ Held(layers[l], rows) = {p \in Live(layers[l]) : RowAt(p) \in {r \in Row : r.key \in KeysOf(rows)}}
           /\ Held(layers[l], rows) \subseteq Live(layers[l]) /\ IsFiniteSet(Held(layers[l], rows))
           /\ \A p \in Live(layers[l]) \ Held(layers[l], rows) : RowAt(p).key \notin KeysOf(rows)
<1>1. IsFiniteSet(Live(layers[l])) /\ \A p \in Live(layers[l]) : RowAt(p) \in Row
    BY Base
<1>2. Held(layers[l], rows) \subseteq Live(layers[l])
    BY DEF Held
<1>3. IsFiniteSet(Held(layers[l], rows))
    BY <1>1, <1>2, FS_Subset
<1>4. Held(layers[l], rows) = {p \in Live(layers[l]) : RowAt(p) \in {r \in Row : r.key \in KeysOf(rows)}}
    BY <1>1 DEF Held
<1>5. \A p \in Live(layers[l]) \ Held(layers[l], rows) : RowAt(p).key \notin KeysOf(rows)
    BY DEF Held
<1> QED
    BY <1>2, <1>3, <1>4, <1>5

\* The join of the incoming identities with the base counts the rows: those inserted less those removed
\* make up for the rows held and the rows put.
LEMMA JoinCounts ==
    ASSUME NEW L, IsFiniteSet(L), \A p, q \in L : RowAt(p).key = RowAt(q).key => p = q,
           NEW rows \in Batches(Change, MaxDelta), Distinct(rows)
    PROVE  LET puts == Puts(rows)
               held == {RowAt(p).key : p \in L}
               inserted == Cardinality(KeysOf(puts) \ held)
               removed == Cardinality((KeysOf(rows) \ KeysOf(puts)) \cap held)
               gone == {p \in L : RowAt(p).key \in KeysOf(rows)}
           IN  /\ inserted \in Nat /\ removed \in Nat
               /\ inserted - removed = Size(puts) - Cardinality(gone)
<1> DEFINE puts == Puts(rows)
           held == {RowAt(p).key : p \in L}
           KR == KeysOf(rows)
           KP == KeysOf(puts)
           gone == {p \in L : RowAt(p).key \in KR}
           kept == KP \cap held
           removed == (KR \ KP) \cap held
<1>1. /\ IsFiniteSet(DOMAIN puts) /\ DOMAIN puts \subseteq DOMAIN rows
      /\ \A i \in DOMAIN puts : puts[i] = rows[i]
    BY PutsTyped DEF Batch
<1>2. KP \subseteq KR
    BY <1>1 DEF KeysOf
<1>3. Cardinality(KP) = Size(puts) /\ IsFiniteSet(KP)
  <2> DEFINE D == DOMAIN puts
             g == [i \in D |-> puts[i].key]
  <2>1. IsFiniteSet(D) /\ \A i, j \in D : g[i] = g[j] => i = j
      BY <1>1 DEF Distinct
  <2>2. KP = {g[i] : i \in D}
      BY DEF KeysOf
  <2> HIDE DEF g, D, KP
  <2>3. IsFiniteSet({g[i] : i \in D}) /\ Cardinality({g[i] : i \in D}) = Cardinality(D)
      BY <2>1, ImageCard
  <2> QED
      BY <2>2, <2>3 DEF Size, D
<1>4. Cardinality(gone) = Cardinality(KR \cap held) /\ IsFiniteSet(KR \cap held)
  <2> DEFINE g == [p \in gone |-> RowAt(p).key]
  <2>1. \A p, q \in gone : g[p] = g[q] => p = q
      OBVIOUS
  <2>2. KR \cap held = {g[p] : p \in gone}
      OBVIOUS
  <2>3. IsFiniteSet(gone)
      BY FS_Subset
  <2> HIDE DEF g, gone, KR, held
  <2> QED
      BY <2>1, <2>2, <2>3, ImageCard
<1> HIDE DEF gone, KR, KP, held, puts
<1>5. Cardinality(KP \ held) = Cardinality(KP) - Cardinality(kept) /\ IsFiniteSet(KP \ held)
    BY <1>3, FS_Difference
<1>6. /\ (KR \cap held) \ removed = kept
      /\ (KR \cap held) \cap removed = removed
    BY <1>2
<1> HIDE DEF kept, removed
<1>7. /\ Cardinality((KR \cap held) \ removed) = Cardinality(KR \cap held) - Cardinality((KR \cap held) \cap removed)
      /\ IsFiniteSet((KR \cap held) \ removed) /\ IsFiniteSet((KR \cap held) \cap removed)
    BY <1>4, FS_Difference, FS_Intersection
<1>8. IsFiniteSet(kept) /\ IsFiniteSet(removed)
      /\ Cardinality(kept) = Cardinality(KR \cap held) - Cardinality(removed)
    BY <1>6, <1>7
<1>9. /\ Cardinality(kept) \in Nat /\ Cardinality(removed) \in Nat /\ Cardinality(KP) \in Nat
      /\ Cardinality(KP \ held) \in Nat /\ Cardinality(KR \cap held) \in Nat
    BY <1>3, <1>4, <1>5, <1>8, FS_CardinalityType
<1>10. Cardinality(KP \ held) - Cardinality(removed) = Size(puts) - Cardinality(gone)
    BY <1>3, <1>4, <1>5, <1>8, <1>9
<1> QED
    BY <1>9, <1>10 DEF removed, gone, KR, KP, held, puts

LEMMA ChangesKeep ==
    ASSUME LayersInv, NEW l \in DOMAIN layers, NEW rows \in Batches(Change, MaxDelta),
           ApplyChanges(l, rows) \/ ApplyTableChanges(l, rows)
    PROVE  LayersInv'
<1> DEFINE s == layers[l]
           L == Live(s)
           puts == Puts(rows)
           gone == Held(s, rows)
           R == {r \in Row : r.key \in KeysOf(rows)}
           inserted == Cardinality(KeysOf(puts) \ {RowAt(p).key : p \in L})
           removed == Cardinality((KeysOf(rows) \ KeysOf(puts)) \cap {RowAt(p).key : p \in L})
<1>1. /\ Batch(puts) /\ Size(puts) \in Nat /\ DOMAIN puts \subseteq DOMAIN rows
      /\ \A i \in DOMAIN puts : puts[i] = rows[i]
    BY PutsTyped
<1>2. gone = {p \in L : RowAt(p) \in R} /\ IsFiniteSet(gone)
      /\ \A p \in L \ gone : RowAt(p).key \notin KeysOf(rows)
    BY HeldRows
<1>3. IsFiniteSet(L) /\ s.count = Cardinality(L)
      /\ (s.kind = "records" => \A p, q \in L : RowAt(p).key = RowAt(q).key => p = q)
    BY Base
<1>4. s.count \in Nat /\ Cardinality(gone) \in Nat
    BY <1>2, <1>3, FS_CardinalityType
<1>5. Distinct(rows) => Distinct(puts)
    BY <1>1 DEF Distinct
<1>6. KeysOf(puts) \subseteq KeysOf(rows)
    BY <1>1 DEF KeysOf
<1>7. Revised(want[l], rows) = Without(want[l], R) (+) BagOf(puts)
    BY DEF Revised
<1>8. CASE ApplyChanges(l, rows)
  <2>1. s.kind = "records" /\ Distinct(rows)
        /\ Fork(s, gone, puts, s.count + inserted - removed, Revised(want[l], rows))
      BY <1>8 DEF ApplyChanges
  <2>2. inserted \in Nat /\ removed \in Nat /\ inserted - removed = Size(puts) - Cardinality(gone)
      BY <1>3, <2>1, JoinCounts DEF Held
  <2> HIDE DEF s, L, puts, gone, R, inserted, removed
  <2>3. s.count + inserted - removed = s.count - Cardinality(gone) + Size(puts)
      BY <1>1, <1>4, <2>2
  <2> QED
      BY <1>1, <1>2, <1>5, <1>6, <1>7, <2>1, <2>3, DeltaKeeps DEF s, L
<1>9. CASE ApplyTableChanges(l, rows)
  <2>1. s.kind = "table" /\ Fork(s, gone, puts, s.count + Size(puts) - Cardinality(gone), Revised(want[l], rows))
      BY <1>9 DEF ApplyTableChanges
  <2> HIDE DEF s, L, puts, gone, R, inserted, removed
  <2>2. s.count + Size(puts) - Cardinality(gone) = s.count - Cardinality(gone) + Size(puts)
      BY <1>1, <1>4
  <2>3. s.kind # "records"
      BY <2>1
  <2> QED
      BY <1>1, <1>2, <1>7, <2>1, <2>2, <2>3, DeltaKeeps DEF s, L
<1> QED
    BY <1>8, <1>9

LEMMA AppendKeeps ==
    ASSUME LayersInv, NEW l \in DOMAIN layers, NEW rows \in Batches(Row, MaxDelta), AppendTable(l, rows)
    PROVE  LayersInv'
<1>1. Batch(rows)
    BY RecordsAssumption, BatchTyped DEF Batch
<1>2. layers[l].kind # "records"
    BY DEF AppendTable
<1> QED
    BY <1>1, <1>2, AddKeeps DEF AppendTable

LEMMA UnionKeeps ==
    ASSUME LayersInv, NEW l \in DOMAIN layers, NEW from \in DOMAIN layers, NEW exclude, UnionDisjoint(l, from, exclude)
    PROVE  LayersInv'
<1> DEFINE s == layers[l]
           L == Live(s)
           F == Live(layers[from])
           added == Added(l, from)
           rows == Packed(added)
           R == {r \in Row : \E k \in BagToSet(want[l]) : k.key = r.key}
<1>1. /\ s.kind = "records" /\ layers[from].kind = "records"
      /\ Fork(s, {}, rows, s.count + Size(rows), want[l] (+) Without(want[from], R))
    BY DEF UnionDisjoint
<1>2. /\ IsFiniteSet(L) /\ want[l] = Tally(L, Rows(data, L))
      /\ \A p \in L : RowAt(p) \in Row /\ Rows(data, L)[p] = RowAt(p)
    BY Base
<1>3. /\ IsFiniteSet(F) /\ want[from] = Tally(F, Rows(data, F))
      /\ \A p \in F : RowAt(p) \in Row /\ Rows(data, F)[p] = RowAt(p)
      /\ \A p, q \in F : RowAt(p).key = RowAt(q).key => p = q
    BY <1>1, Base
<1>4. added = {p \in F : \A q \in L : RowAt(q).key # RowAt(p).key}
    BY DEF Added
<1>5. BagToSet(want[l]) = {RowAt(q) : q \in L}
  <2>1. DOMAIN want[l] = {Rows(data, L)[q] : q \in L}
      BY <1>2 DEF Tally
  <2> HIDE DEF L
  <2> QED
      BY <1>2, <2>1 DEF BagToSet
<1> HIDE DEF s, L, F, added, rows
<1>6. {p \in F : Rows(data, F)[p] \notin R} = added
    BY <1>3, <1>4, <1>5
<1>7. Without(want[from], R) = Tally(added, Rows(data, F))
    BY <1>3, <1>6, TallyWithout
<1>8. added \subseteq F /\ IsFiniteSet(added)
    BY <1>3, <1>4, FS_Subset
<1>9. \A p \in added : RowAt(p) \in Row /\ Rows(data, F)[p] = Rows(data, added)[p]
    BY <1>3, <1>8 DEF Rows
<1>10. Tally(added, Rows(data, F)) = Tally(added, Rows(data, added))
    BY <1>9, TallySame
<1>11. /\ Batch(rows) /\ BagOf(rows) = Tally(added, Rows(data, added))
       /\ KeysOf(rows) = {RowAt(p).key : p \in added}
       /\ Distinct(rows)
    BY <1>3, <1>8, <1>9, PackedRows DEF rows
<1>12. \A p \in L : RowAt(p).key \notin KeysOf(rows)
    BY <1>4, <1>11
<1>13. Without(want[from], R) = BagOf(rows)
    BY <1>7, <1>10, <1>11
<1> QED
    BY <1>1, <1>11, <1>12, <1>13, AddKeeps DEF s, L

LEMMA CompactKeeps ==
    ASSUME LayersInv, NEW l \in DOMAIN layers, Compact(l)
    PROVE  LayersInv'
<1> DEFINE L == Live(layers[l])
           rows == Packed(L)
<1>1. /\ layers[l].kind = "records"
      /\ Fork(Empty("records"), {}, rows, Size(rows), want[l])
    BY DEF Compact
<1>2. /\ IsFiniteSet(L) /\ want[l] = Tally(L, Rows(data, L))
      /\ \A p \in L : RowAt(p) \in Row
      /\ \A p, q \in L : RowAt(p).key = RowAt(q).key => p = q
    BY <1>1, Base
<1> HIDE DEF L
<1>3. Batch(rows) /\ BagOf(rows) = Tally(L, Rows(data, L)) /\ Distinct(rows)
    BY <1>2, PackedRows
<1> HIDE DEF rows
<1> QED
    BY <1>1, <1>2, <1>3, NewLayerKeeps

-----------------------------------------------------------------------------
(* Publication and removal.                                                *)

LEMMA PublishKeeps ==
    ASSUME LayersInv, Seal \/ Root \/ Stop
    PROVE  LayersInv'
<1>1. CASE Seal
    BY <1>1 DEF Seal, LayersInv
<1>2. CASE Stop
    BY <1>2 DEF Stop, LayersInv
<1>3. CASE Root
  <2>1. /\ SnapshotOK(data, dels, pending.snap, pending.want) /\ Recovery(pending.snap) \subseteq sealed
        /\ pending' = None /\ UNCHANGED <<data, dels, sealed, made>>
      BY <1>3 DEF Root, LayersInv
  <2>2. DOMAIN layers' = DOMAIN layers \cup {pending.id} /\ DOMAIN want' = DOMAIN layers'
      BY <1>3 DEF Root
  <2>3. ASSUME NEW l \in DOMAIN layers'
        PROVE  \/ layers'[l] = pending.snap /\ want'[l] = pending.want
               \/ l \in DOMAIN layers /\ layers'[l] = layers[l] /\ want'[l] = want[l]
      BY <1>3 DEF Root
  <2>4. \A l \in DOMAIN layers' : SnapshotOK(data, dels, layers'[l], want'[l]) /\ Recovery(layers'[l]) \subseteq sealed
      BY <2>1, <2>3 DEF LayersInv
  <2> QED
      BY <2>1, <2>2, <2>4 DEF LayersInv
<1> QED
    BY <1>1, <1>2, <1>3

\* A layer that stays keeps its files: they are not among those removed.
LEMMA DeleteKeeps ==
    ASSUME LayersInv, NEW l \in DOMAIN layers, Delete(l)
    PROVE  LayersInv'
<1> DEFINE gone == Recovery(layers[l]) \ Shared(l)
<1>1. /\ data' = [f \in DOMAIN data \ gone |-> data[f]] /\ dels' = [f \in DOMAIN dels \ gone |-> dels[f]]
      /\ sealed' = sealed \ gone /\ pending = None /\ UNCHANGED <<pending, made>>
      /\ layers' = [k \in DOMAIN layers \ {l} |-> layers[k]]
      /\ want' = [k \in DOMAIN layers \ {l} |-> want[k]]
    BY DEF Delete
<1>2. \A k \in DOMAIN layers \ {l} : Recovery(layers[k]) \cap gone = {}
    BY DEF Shared
<1> HIDE DEF gone
<1>3. made \in Nat /\ DiskOK(made, data, dels)
      /\ \A k \in DOMAIN layers : SnapshotOK(data, dels, layers[k], want[k]) /\ Recovery(layers[k]) \subseteq sealed
    BY DEF LayersInv
<1>4. DiskOK(made, data', dels')
    BY <1>1, <1>3 DEF DiskOK
<1>5. ASSUME NEW k \in DOMAIN layers \ {l}
      PROVE  SnapshotOK(data', dels', layers[k], want[k]) /\ Recovery(layers[k]) \subseteq sealed'
  <2>1. layers[k].data \subseteq DOMAIN data \ gone /\ layers[k].dels \subseteq DOMAIN dels \ gone
      BY <1>2, <1>3 DEF Recovery, SnapshotOK
  <2>2. \A f \in layers[k].data : f \in DOMAIN data' /\ data'[f] = data[f]
      BY <1>1, <2>1
  <2>3. \A f \in layers[k].dels : f \in DOMAIN dels' /\ dels'[f] = dels[f]
      BY <1>1, <2>1
  <2>4. SnapshotOK(data, dels, layers[k], want[k])
      BY <1>3
  <2>5. SnapshotOK(data', dels', layers[k], want[k])
      BY <1>3, <2>2, <2>3, <2>4, SnapshotFrame
  <2>6. Recovery(layers[k]) \subseteq sealed'
      BY <1>1, <1>2, <1>3
  <2> QED
      BY <2>5, <2>6
<1>6. /\ DOMAIN layers' = DOMAIN layers \ {l} /\ DOMAIN want' = DOMAIN layers'
      /\ \A k \in DOMAIN layers' : layers'[k] = layers[k] /\ want'[k] = want[k]
    BY <1>1
<1>7. \A k \in DOMAIN layers' : SnapshotOK(data', dels', layers'[k], want'[k]) /\ Recovery(layers'[k]) \subseteq sealed'
    BY <1>5, <1>6
<1> QED
    BY <1>1, <1>3, <1>4, <1>6, <1>7 DEF LayersInv

-----------------------------------------------------------------------------
LEMMA LayersInit == Init => LayersInv
<1> SUFFICES ASSUME Init PROVE LayersInv
    OBVIOUS
<1>1. DOMAIN data = {} /\ DOMAIN dels = {} /\ DOMAIN layers = {} /\ DOMAIN want = {}
    BY DEF Init
<1> QED
    BY <1>1 DEF Init, LayersInv, DiskOK

LEMMA LayersStep == LayersInv /\ [Next]_vars => LayersInv'
<1> SUFFICES ASSUME LayersInv, [Next]_vars PROVE LayersInv'
    OBVIOUS
<1>1. CASE UNCHANGED vars
    BY <1>1 DEF vars, LayersInv
<1>2. CASE Next
    BY <1>2, NewWrites, ReplaceKeeps, ChangesKeep, AppendKeeps, UnionKeeps, CompactKeeps, PublishKeeps, DeleteKeeps
       DEF Next
<1> QED
    BY <1>1, <1>2

LEMMA LayersSound == LayersInv => LayersExact
<1> SUFFICES ASSUME LayersInv PROVE LayersExact
    OBVIOUS
<1>1. ASSUME NEW l \in DOMAIN layers
      PROVE  /\ Verifies(l) /\ BagAt(Live(layers[l])) = want[l]
             /\ layers[l].kind = "records" =>
                    \A p, q \in Live(layers[l]) : RowAt(p).key = RowAt(q).key => p = q
  <2>1. /\ SnapshotOK(data, dels, layers[l], want[l]) /\ layers[l].count = Cardinality(Live(layers[l]))
        /\ want[l] = Tally(Live(layers[l]), Rows(data, Live(layers[l])))
        /\ layers[l].kind = "records" =>
                \A p, q \in Live(layers[l]) : RowAt(p).key = RowAt(q).key => p = q
      BY Base
  <2>2. Recovery(layers[l]) \subseteq Present \cap sealed
      BY <2>1 DEF LayersInv, SnapshotOK, Recovery, Present
  <2> QED
      BY <2>1, <2>2, BagIs DEF Verifies, Available
<1> QED
    BY <1>1 DEF LayersExact, IdentitiesUnique

(* Every retained layer reads as the rows its write promised, counts them, *)
(* is available in full and repeats no identity, whatever was written on   *)
(* top of it, removed beside it or left behind by an interrupted write.    *)
THEOREM LayersAreExact == Spec => []LayersExact
<1>1. Spec => []LayersInv
    BY LayersInit, LayersStep, PTL DEF Spec
<1> QED
    BY <1>1, LayersSound, PTL

-----------------------------------------------------------------------------
(***************************************************************************)
(* The registration of one table, for every number of members and of       *)
(* attempts.                                                               *)
(***************************************************************************)
Files == [M -> {Right, Wrong, Absent}]
Linking == {"link", "seal", "check"}
Running == {"place", "unstage"} \cup Linking

RegistrationCall ==
    [pc : {"idle", "undo"} \cup Running, next : 0 .. (Members + 1), created : BOOLEAN,
     placed : SUBSET M, fresh : BOOLEAN]

RegistrationTypeOK ==
    /\ dir \in BOOLEAN /\ pinned \in BOOLEAN /\ starts \in Nat
    /\ target \in Files /\ receipt \in Files /\ stage \in Files
    /\ call \in RegistrationCall

Member(m) == target[m] = Right /\ receipt[m] = Right

\* A running registration has its directory, and is at one of the members.
Placing ==
    /\ call.pc \in Running => dir
    /\ call.pc \in Linking => call.next \in M

\* The members before the one it is at are in place and sealed.
Accumulated ==
    call.pc \in Running => \A m \in M : m < call.next => Member(m)

\* A member that this call linked has the receipt of those very bytes: no older one
\* survived the step before the link.
Sealed ==
    /\ call.pc = "link" /\ target[call.next] = Absent => receipt[call.next] = Absent
    /\ call.pc = "seal" /\ call.fresh => receipt[call.next] = Absent
    /\ call.pc = "check" /\ call.fresh => receipt[call.next] = target[call.next]

\* The root is written after the last member.
Rooted == call.pc = "unstage" => pinned

\* A call that repeats a registered table made and placed nothing, so that its cleanup
\* takes nothing away.
Harmless ==
    pinned =>
        /\ dir
        /\ call.pc \notin {"idle", "unstage"} => ~call.created /\ call.placed = {}

RegistrationInv == RegistrationTypeOK /\ Placing /\ Accumulated /\ Sealed /\ Rooted /\ Harmless /\ RegisteredExact

-----------------------------------------------------------------------------
LEMMA RegistrationStarts == RegistrationInit => RegistrationInv
<1> SUFFICES ASSUME RegistrationInit PROVE RegistrationInv
  OBVIOUS
<1>1. NoMembers \in Files
  BY DEF NoMembers, Files
<1>2. Idle \in RegistrationCall /\ Idle.pc = "idle"
  BY RegistrationAssumption DEF Idle, RegistrationCall
<1> QED
  BY <1>1, <1>2 DEF RegistrationInit, RegistrationInv, RegistrationTypeOK, Placing, Accumulated, Sealed, Rooted,
                    Harmless, RegisteredExact, Running, Linking

\* A call that ends leaves its files behind: nothing is claimed of a call at rest.
LEMMA RestKeeps ==
    ASSUME RegistrationInv, call' = Idle, UNCHANGED <<target, receipt, pinned, starts>>,
           stage' \in Files, dir' \in BOOLEAN, pinned => dir'
    PROVE  RegistrationInv'
<1>1. Idle \in RegistrationCall /\ Idle.pc = "idle"
  BY RegistrationAssumption DEF Idle, RegistrationCall
<1> QED
  BY <1>1 DEF RegistrationInv, RegistrationTypeOK, Placing, Accumulated, Sealed, Rooted,
              Harmless, RegisteredExact, Running, Linking

LEMMA BeginKeeps ==
    ASSUME RegistrationInv, NEW bytes \in [M -> {Right, Wrong}], Begin(bytes)
    PROVE  RegistrationInv'
<1>1. PICK c : c = [Idle EXCEPT !.pc = "place", !.next = 1, !.created = ~ dir]
  OBVIOUS
<1>2. /\ c \in RegistrationCall
      /\ c.pc = "place" /\ c.next = 1 /\ c.created = ~dir /\ c.placed = {}
  <2>1. PICK b \in BOOLEAN : b = ~dir
    BY DEF RegistrationInv, RegistrationTypeOK
  <2>2. c = [pc |-> "place", next |-> 1, created |-> b, placed |-> {}, fresh |-> FALSE]
    BY <1>1, <2>1 DEF Idle
  <2>3. 1 \in 0 .. (Members + 1)
    BY RegistrationAssumption
  <2>4. c \in RegistrationCall
    BY <2>2, <2>3 DEF RegistrationCall, Running
  <2> QED
    BY <2>1, <2>2, <2>4
<1>3. call' = c /\ dir' = TRUE /\ UNCHANGED <<target, receipt, pinned>>
  BY <1>1 DEF Begin
<1>4. RegistrationTypeOK'
  BY <1>2, <1>3 DEF RegistrationInv, RegistrationTypeOK, Begin, Files
<1>5. Accumulated'
  BY <1>2, <1>3, RegistrationAssumption DEF Accumulated, M
<1>6. Placing' /\ Sealed' /\ Rooted' /\ Harmless' /\ RegisteredExact'
  BY <1>2, <1>3 DEF RegistrationInv, Placing, Sealed, Rooted, Harmless, RegisteredExact, Running, Linking
<1> QED
  BY <1>4, <1>5, <1>6 DEF RegistrationInv

\* The receipt of a member that is gone goes before the link.
LEMMA ClearKeeps ==
    ASSUME RegistrationInv, Clear
    PROVE  RegistrationInv'
<1>1. PICK n \in M : n = call.next
  BY DEF Clear
<1>2. PICK c : c = [call EXCEPT !.pc = "link"]
  OBVIOUS
<1>3. /\ c \in RegistrationCall
      /\ c.pc = "link" /\ c.next = n /\ c.created = call.created /\ c.placed = call.placed
  BY <1>1, <1>2 DEF RegistrationInv, RegistrationTypeOK, RegistrationCall, Running, Linking
<1>4. /\ call' = c /\ call.pc = "place" /\ UNCHANGED <<dir, target, stage, pinned, starts>>
      /\ receipt' = [receipt EXCEPT ![n] = IF target[n] = Absent THEN Absent ELSE receipt[n]]
  BY <1>1, <1>2 DEF Clear, ClearReceipt, At, Go
<1>5. /\ receipt' \in Files
      /\ \A m \in M : m # n => receipt'[m] = receipt[m]
      /\ target[n] = Absent => receipt'[n] = Absent
      /\ target[n] # Absent => receipt'[n] = receipt[n]
  BY <1>4 DEF RegistrationInv, RegistrationTypeOK, Files
<1>6. RegistrationTypeOK'
  BY <1>3, <1>4, <1>5 DEF RegistrationInv, RegistrationTypeOK
<1>7. \A m \in M : Member(m) => Member(m)'
  BY <1>4, <1>5, RegistrationAssumption DEF Member
<1>8. Accumulated' /\ Placing'
  BY <1>1, <1>3, <1>4, <1>7 DEF RegistrationInv, Accumulated, Placing, Running, Linking
<1>9. RegisteredExact'
  BY <1>4, <1>7 DEF RegistrationInv, RegisteredExact, Member
<1>10. Sealed' /\ Rooted' /\ Harmless'
  BY <1>3, <1>4, <1>5 DEF RegistrationInv, Sealed, Rooted, Harmless
<1> QED
  BY <1>6, <1>8, <1>9, <1>10 DEF RegistrationInv

LEMMA LinkKeeps ==
    ASSUME RegistrationInv, Link
    PROVE  RegistrationInv'
<1>1. PICK n \in M : n = call.next
  BY DEF RegistrationInv, Placing, Link, At, Linking
<1>2. PICK free \in BOOLEAN : free = (target[n] = Absent)
  OBVIOUS
<1>3. PICK placed : placed = IF free THEN call.placed \cup {n} ELSE call.placed
  OBVIOUS
<1>4. PICK c : c = [call EXCEPT !.pc = "seal", !.fresh = free, !.placed = placed]
  OBVIOUS
<1>5. /\ c \in RegistrationCall
      /\ c.pc = "seal" /\ c.next = n /\ c.created = call.created /\ c.placed = placed
      /\ c.fresh = free
  <2>1. placed \in SUBSET M
    BY <1>3 DEF RegistrationInv, RegistrationTypeOK, RegistrationCall
  <2> QED
    BY <1>1, <1>4, <2>1 DEF RegistrationInv, RegistrationTypeOK, RegistrationCall, Running, Linking
<1>6. /\ call' = c /\ call.pc = "link" /\ UNCHANGED <<dir, receipt, stage, pinned, starts>>
      /\ target' = IF free THEN [target EXCEPT ![n] = stage[n]] ELSE target
  BY <1>1, <1>2, <1>3, <1>4 DEF Link, At
<1>7. /\ target' \in Files
      /\ \A m \in M : target[m] # Absent => target'[m] = target[m]
  BY <1>2, <1>6 DEF RegistrationInv, RegistrationTypeOK, Files
<1>8. RegistrationTypeOK'
  BY <1>5, <1>6, <1>7 DEF RegistrationInv, RegistrationTypeOK
<1>9. \A m \in M : Member(m) => Member(m)'
  BY <1>6, <1>7, RegistrationAssumption DEF Member
<1>10. Accumulated' /\ Placing'
  BY <1>1, <1>5, <1>6, <1>9 DEF RegistrationInv, Accumulated, Placing, Running, Linking
<1>11. RegisteredExact'
  BY <1>6, <1>9 DEF RegistrationInv, RegisteredExact, Member
<1>12. pinned => ~free
  BY <1>2, RegistrationAssumption DEF RegistrationInv, RegisteredExact
<1>13. Sealed' /\ Rooted'
  BY <1>1, <1>2, <1>5, <1>6 DEF RegistrationInv, Sealed, Rooted
<1>14. Harmless'
  BY <1>3, <1>5, <1>6, <1>12 DEF RegistrationInv, Harmless
<1> QED
  BY <1>8, <1>10, <1>11, <1>13, <1>14 DEF RegistrationInv

LEMMA SealKeeps ==
    ASSUME RegistrationInv, SealMember
    PROVE  RegistrationInv'
<1>1. PICK n \in M : n = call.next
  BY DEF RegistrationInv, Placing, SealMember, At, Linking
<1>2. PICK c : c = [call EXCEPT !.pc = "check"]
  OBVIOUS
<1>3. /\ c \in RegistrationCall
      /\ c.pc = "check" /\ c.next = n /\ c.created = call.created /\ c.placed = call.placed
      /\ c.fresh = call.fresh
  BY <1>1, <1>2 DEF RegistrationInv, RegistrationTypeOK, RegistrationCall, Running, Linking
<1>4. /\ call' = c /\ call.pc = "seal" /\ UNCHANGED <<dir, target, stage, pinned, starts>>
      /\ receipt' = [receipt EXCEPT ![n] = IF receipt[n] = Absent THEN target[n] ELSE receipt[n]]
  BY <1>1, <1>2 DEF SealMember, At, Go
<1>5. /\ receipt' \in Files
      /\ \A m \in M : receipt[m] # Absent => receipt'[m] = receipt[m]
      /\ receipt[n] = Absent => receipt'[n] = target[n]
  BY <1>4 DEF RegistrationInv, RegistrationTypeOK, Files
<1>6. RegistrationTypeOK'
  BY <1>3, <1>4, <1>5 DEF RegistrationInv, RegistrationTypeOK
<1>7. \A m \in M : Member(m) => Member(m)'
  BY <1>4, <1>5, RegistrationAssumption DEF Member
<1>8. Accumulated' /\ Placing'
  BY <1>1, <1>3, <1>4, <1>7 DEF RegistrationInv, Accumulated, Placing, Running, Linking
<1>9. RegisteredExact'
  BY <1>4, <1>7 DEF RegistrationInv, RegisteredExact, Member
<1>10. Sealed' /\ Rooted' /\ Harmless'
  BY <1>1, <1>3, <1>4, <1>5 DEF RegistrationInv, Sealed, Rooted, Harmless
<1> QED
  BY <1>6, <1>8, <1>9, <1>10 DEF RegistrationInv

\* The sealed digest is that of the bytes in place: they were hashed again, or are
\* this call's own.
LEMMA CheckKeeps ==
    ASSUME RegistrationInv, Check
    PROVE  RegistrationInv'
<1>1. PICK n \in M : n = call.next
  BY DEF RegistrationInv, Placing, Check, At, Linking
<1>2. /\ UNCHANGED <<dir, target, receipt, stage, pinned, starts>> /\ call.pc = "check"
      /\ call' = IF Accepted(n) THEN [call EXCEPT !.pc = "place", !.next = n + 1]
                                ELSE [call EXCEPT !.pc = "undo"]
  BY <1>1 DEF Check, At
<1>3. Accepted(n) => Member(n)
  BY <1>1, <1>2 DEF RegistrationInv, Sealed, Accepted, Member
<1>4. CASE Accepted(n)
  <2>1. PICK c : c = [call EXCEPT !.pc = "place", !.next = n + 1]
    OBVIOUS
  <2>2. /\ c \in RegistrationCall
        /\ c.pc = "place" /\ c.next = n + 1 /\ c.created = call.created /\ c.placed = call.placed
    <3>1. PICK k : k = n + 1
      OBVIOUS
    <3>2. k \in 0 .. (Members + 1)
      BY <3>1, RegistrationAssumption DEF M
    <3>3. c = [call EXCEPT !.pc = "place", !.next = k]
      BY <2>1, <3>1
    <3> QED
      BY <3>1, <3>2, <3>3 DEF RegistrationInv, RegistrationTypeOK, RegistrationCall, Running
  <2>3. call' = c
    BY <1>2, <1>4, <2>1
  <2>4. RegistrationTypeOK'
    BY <1>2, <2>2, <2>3 DEF RegistrationInv, RegistrationTypeOK
  <2>5. Accumulated'
    BY <1>1, <1>2, <1>3, <1>4, <2>2, <2>3, RegistrationAssumption
       DEF RegistrationInv, Accumulated, Running, Linking, M, Member
  <2>6. Placing' /\ Sealed' /\ Rooted' /\ Harmless' /\ RegisteredExact'
    BY <1>2, <2>2, <2>3 DEF RegistrationInv, Placing, Sealed, Rooted, Harmless, RegisteredExact, Running, Linking
  <2> QED
    BY <2>4, <2>5, <2>6 DEF RegistrationInv
<1>5. CASE ~Accepted(n)
  <2>1. PICK c : c = [call EXCEPT !.pc = "undo"]
    OBVIOUS
  <2>2. /\ c \in RegistrationCall
        /\ c.pc = "undo" /\ c.created = call.created /\ c.placed = call.placed
    BY <2>1 DEF RegistrationInv, RegistrationTypeOK, RegistrationCall
  <2>3. call' = c
    BY <1>2, <1>5, <2>1
  <2> QED
    BY <1>2, <2>2, <2>3 DEF RegistrationInv, RegistrationTypeOK, Placing, Accumulated, Sealed, Rooted, Harmless,
                            RegisteredExact, Running, Linking
<1> QED
  BY <1>4, <1>5

LEMMA PinKeeps ==
    ASSUME RegistrationInv, Pin
    PROVE  RegistrationInv'
<1>1. PICK c : c = [call EXCEPT !.pc = "unstage"]
  OBVIOUS
<1>2. c \in RegistrationCall /\ c.pc = "unstage" /\ c.next = call.next
  BY <1>1 DEF RegistrationInv, RegistrationTypeOK, RegistrationCall, Running
<1>3. /\ call' = c /\ call.pc = "place" /\ call.next > Members /\ pinned' = TRUE
      /\ UNCHANGED <<dir, target, receipt, stage, starts>>
  BY <1>1 DEF Pin, At, Go
<1>4. \A m \in M : Member(m)
  BY <1>3, RegistrationAssumption DEF RegistrationInv, RegistrationTypeOK, RegistrationCall, Accumulated, Running, M
<1>5. RegistrationTypeOK'
  BY <1>2, <1>3 DEF RegistrationInv, RegistrationTypeOK
<1>6. Accumulated' /\ RegisteredExact'
  BY <1>3, <1>4 DEF Accumulated, RegisteredExact, Member
<1>7. Placing' /\ Sealed' /\ Rooted' /\ Harmless'
  BY <1>2, <1>3 DEF RegistrationInv, Placing, Sealed, Rooted, Harmless, Running, Linking
<1> QED
  BY <1>5, <1>6, <1>7 DEF RegistrationInv

LEMMA RefuseKeeps ==
    ASSUME RegistrationInv, Refuse
    PROVE  RegistrationInv'
<1>1. PICK c : c = [call EXCEPT !.pc = "undo"]
  OBVIOUS
<1>2. /\ c \in RegistrationCall
      /\ c.pc = "undo" /\ c.created = call.created /\ c.placed = call.placed
  BY <1>1 DEF RegistrationInv, RegistrationTypeOK, RegistrationCall
<1>3. /\ call' = c /\ call.pc \in {"place", "link", "seal", "check"}
      /\ UNCHANGED <<dir, target, receipt, stage, pinned, starts>>
  BY <1>1 DEF Refuse, Go
<1> QED
  BY <1>2, <1>3 DEF RegistrationInv, RegistrationTypeOK, Placing, Accumulated, Sealed, Rooted, Harmless,
                    RegisteredExact, Running, Linking

\* The cleanup of a call, or of a layer that is no longer named, meets no root.
LEMMA UndoKeeps ==
    ASSUME RegistrationInv, NEW m \in M, UndoFile(m) \/ UndoReceipt(m)
    PROVE  RegistrationInv'
<1>1. call.pc = "undo" /\ m \in Undoing /\ UNCHANGED <<dir, stage, pinned, call, starts>>
  BY DEF UndoFile, UndoReceipt, At
<1>2. ~pinned
  BY <1>1 DEF RegistrationInv, Harmless, Undoing
<1>3. target' \in Files /\ receipt' \in Files
  BY DEF RegistrationInv, RegistrationTypeOK, Files, UndoFile, UndoReceipt
<1> QED
  BY <1>1, <1>2, <1>3 DEF RegistrationInv, RegistrationTypeOK, Placing, Accumulated, Sealed, Rooted, Harmless,
                          RegisteredExact, Running, Linking

LEMMA UnregisterKeeps ==
    ASSUME RegistrationInv, RemoveLayer
    PROVE  RegistrationInv'
<1>1. PICK c : c = [Idle EXCEPT !.pc = "undo", !.placed = M]
  OBVIOUS
<1>2. c \in RegistrationCall /\ c.pc = "undo"
  <2>1. c = [pc |-> "undo", next |-> 0, created |-> FALSE, placed |-> M, fresh |-> FALSE]
    BY <1>1 DEF Idle
  <2>2. 0 \in 0 .. (Members + 1) /\ M \in SUBSET M
    BY RegistrationAssumption
  <2> QED
    BY <2>1, <2>2 DEF RegistrationCall
<1>3. /\ call' = c /\ pinned' = FALSE /\ starts' \in Nat
      /\ UNCHANGED <<dir, target, receipt, stage>>
  BY <1>1 DEF RemoveLayer, RegistrationInv, RegistrationTypeOK
<1> QED
  BY <1>2, <1>3 DEF RegistrationInv, RegistrationTypeOK, Placing, Accumulated, Sealed, Rooted, Harmless,
                    RegisteredExact, Running, Linking

LEMMA EndKeeps ==
    ASSUME RegistrationInv, Unstage \/ Undone \/ Kill
    PROVE  RegistrationInv'
<1>1. NoMembers \in Files
  BY DEF NoMembers, Files
<1>2. /\ call' = Idle /\ UNCHANGED <<target, receipt, pinned, starts>>
      /\ stage' \in Files /\ dir' \in BOOLEAN
  BY <1>1 DEF RegistrationInv, RegistrationTypeOK, Unstage, Undone, Kill
<1>3. pinned => dir'
  BY DEF RegistrationInv, Harmless, Unstage, Undone, Kill, At
<1> QED
  BY <1>2, <1>3, RestKeeps

LEMMA RegistrationStep == RegistrationInv /\ [RegistrationNext]_rvars => RegistrationInv'
<1> SUFFICES ASSUME RegistrationInv, [RegistrationNext]_rvars PROVE RegistrationInv'
  OBVIOUS
<1>1. ASSUME NEW bytes \in [M -> {Right, Wrong}], Begin(bytes) PROVE RegistrationInv'
  BY <1>1, BeginKeeps
<1>2. CASE Clear \/ Link \/ SealMember \/ Check
  BY <1>2, ClearKeeps, LinkKeeps, SealKeeps, CheckKeeps
<1>3. CASE Pin \/ Refuse \/ RemoveLayer
  BY <1>3, PinKeeps, RefuseKeeps, UnregisterKeeps
<1>4. CASE Unstage \/ Undone \/ Kill
  BY <1>4, EndKeeps
<1>5. ASSUME NEW m \in M, UndoFile(m) \/ UndoReceipt(m) PROVE RegistrationInv'
  BY <1>5, UndoKeeps
<1>6. CASE UNCHANGED rvars
  BY <1>6 DEF rvars, RegistrationInv, RegistrationTypeOK, Placing, Accumulated, Sealed, Rooted, Harmless,
              RegisteredExact, Member
<1> QED
  BY <1>1, <1>2, <1>3, <1>4, <1>5, <1>6 DEF RegistrationNext

-----------------------------------------------------------------------------
\* Every value stays in its type: the files of the table's directory, its root and the
\* call in progress.
THEOREM RegistrationTypeCorrect == RegistrationSpec => []RegistrationTypeOK
<1>1. RegistrationInv => RegistrationTypeOK
  BY DEF RegistrationInv
<1> QED
  BY RegistrationStarts, RegistrationStep, <1>1, PTL DEF RegistrationSpec

\* A registered table holds exactly the members its digest names under receipts of
\* those bytes, whatever register_parquet found of interrupted attempts and removals,
\* and however often the table is registered again, refused and removed.
THEOREM RegisteredTablesExact == RegistrationSpec => []RegisteredExact
<1>1. RegistrationInv => RegisteredExact
  BY DEF RegistrationInv
<1> QED
  BY RegistrationStarts, RegistrationStep, <1>1, PTL DEF RegistrationSpec

-----------------------------------------------------------------------------
(***************************************************************************)
(* The advance of datasets by racing calls, for every set of callers,      *)
(* artifacts, batches, requests and datasets, and any number of calls.     *)
(*                                                                         *)
(* HeadsChain is not inductive: that an update is not applied twice over   *)
(* two bases rests on the base of a state, which its publication fixes and *)
(* every later call for it takes over, and on calls that publish a name    *)
(* once.                                                                   *)
(***************************************************************************)
Targets == GDatasets \cup {Blank}
Bases == GNames \cup {Blank}
Requests == UNION {{Bound(q) : q \in GRequests[b]} : b \in GBatches}
Outcomes == {Blank, "done", "retry", "stale"}

\* Calls of an admission that have not published.
Waiting == {"select", "stage", "admit", "layers", "failed"}
PCs == Waiting \cup {"idle", "derive", "advance", "reuse"}

GenerationCall ==
    [pc : PCs, id : Nat, name : Bases, dataset : Targets, base : Bases,
     request : Requests \cup {Blank}, outcome : Outcomes]

\* A published unit is a record of these fields.
Formed(u) ==
    u \in [table : {u.table}, columns : {u.columns}, membership : {u.membership},
           index : {u.index}, counts : {u.counts}, spelling : {u.spelling}, kind : {u.kind},
           base : {u.base}, dataset : {u.dataset}, request : {u.request}, by : {u.by},
           there : BOOLEAN]

GenerationTypeOK ==
    /\ DOMAIN states \subseteq GNames
    /\ heads \in [GDatasets -> Bases]
    /\ updates \subseteq GDatasets \X GNames \X Bases
    /\ gcall \in [Callers -> GenerationCall]
    /\ gcalls \in Nat

\* A unit names the call that published it, and a derived one the base of its request.
UnitsInv ==
    \A s \in DOMAIN states :
        /\ Formed(states[s])
        /\ states[s].by \in 1 .. gcalls
        /\ states[s].base \in Bases
        /\ s \in GBatches => states[s].base = states[s].request.base

\* What a call is known to be at each of its steps, and what it was told.
CallInv(t) ==
    /\ t.pc # "idle" => t.id \in 1 .. gcalls /\ t.outcome = Blank
    /\ t.pc \in Waiting => t.name \in Pins
    /\ t.pc = "derive" => t.name \in GBatches /\ t.base = t.request.base /\ ~Published(t.name)
    /\ t.pc \in {"advance", "reuse"} => Published(t.name) /\ t.base = states[t.name].base
    /\ t.pc \in Waiting \cup {"derive"} => \A s \in DOMAIN states : states[s].by # t.id
    /\ t.outcome = "done" /\ t.dataset # Blank =>
         \E u \in updates : u[1] = t.dataset /\ u[2] = t.name
    /\ t.outcome = "retry" => Published(t.name) /\ states[t.name].by # t.id

\* Two calls in progress are told apart, and one derives a batch at a time.
Apart(t, e) ==
    /\ t.pc # "idle" /\ e.pc # "idle" => t.id # e.id
    /\ t.pc = "derive" /\ e.pc = "derive" => t.name # e.name

CallsInv ==
    /\ \A c \in Callers : CallInv(gcall[c])
    /\ \A c, e \in Callers : c # e => Apart(gcall[c], gcall[e])

\* An update is to a published state from the base it was published over, and no two
\* of a dataset share their state or their base.
UpdatesInv ==
    /\ \A u \in updates : Published(u[2]) /\ u[3] = states[u[2]].base
    /\ \A u, v \in updates : u[1] = v[1] /\ (u[2] = v[2] \/ u[3] = v[3]) => u = v

\* The current state of a dataset is the only end of its updates.
HeadInv(d) ==
    /\ \A u \in updates : u[1] = d => heads[d] # Blank /\ u[3] # heads[d]
    /\ heads[d] # Blank => \E u \in updates : u[1] = d /\ u[2] = heads[d]
    /\ \A u \in updates : u[1] = d =>
         u[2] = heads[d] \/ \E v \in updates : v[1] = d /\ v[3] = u[2]
    /\ \A u \in updates : u[1] = d =>
         u[3] = Blank \/ \E v \in updates : v[1] = d /\ v[2] = u[3]
    /\ heads[d] # Blank => Published(heads[d]) /\ states[heads[d]].there

GenerationInv == GenerationTypeOK /\ UnitsInv /\ CallsInv /\ UpdatesInv /\ \A d \in GDatasets : HeadInv(d)

-----------------------------------------------------------------------------
LEMMA RestingTyped ==
    /\ Resting \in GenerationCall
    /\ Resting.pc = "idle" /\ Resting.outcome = Blank
BY DEF Resting, GenerationCall, PCs, Targets, Bases, Outcomes

LEMMA RestingHolds == CallInv(Resting) /\ \A e : Apart(Resting, e) /\ Apart(e, Resting)
BY RestingTyped, NamesAssumption DEF CallInv, Apart, Waiting

LEMMA GenerationStarts == GenerationInit => GenerationInv
<1> SUFFICES ASSUME GenerationInit PROVE GenerationInv
  OBVIOUS
<1>1. DOMAIN states = {} /\ updates = {} /\ gcalls = 0
  BY DEF GenerationInit
<1>2. \A c \in Callers : gcall[c] = Resting
  BY DEF GenerationInit
<1>3. GenerationTypeOK
  BY <1>1, RestingTyped DEF GenerationInit, GenerationTypeOK, Bases
<1>4. UnitsInv /\ UpdatesInv
  BY <1>1 DEF UnitsInv, UpdatesInv
<1>5. CallsInv
  BY <1>2, RestingHolds DEF CallsInv
<1>6. \A d \in GDatasets : HeadInv(d)
  BY <1>1 DEF GenerationInit, HeadInv
<1> QED
  BY <1>3, <1>4, <1>5, <1>6 DEF GenerationInv

\* A step that only moves one call keeps the rest, when the call is in order after it.
LEMMA CallStep ==
    ASSUME GenerationInv, NEW c \in Callers, NEW t \in GenerationCall, Steps(c, t),
           UNCHANGED <<states, heads, updates>>,
           gcalls' \in Nat, gcalls <= gcalls',
           CallInv(t)',
           \A e \in Callers \ {c} : Apart(t, gcall[e])
    PROVE  GenerationInv'
<1>1. /\ states' = states /\ heads' = heads /\ updates' = updates
      /\ gcall'[c] = t /\ \A e \in Callers \ {c} : gcall'[e] = gcall[e]
      /\ gcall' \in [Callers -> GenerationCall]
  BY DEF GenerationInv, GenerationTypeOK, Steps
<1>2. GenerationTypeOK'
  BY <1>1 DEF GenerationInv, GenerationTypeOK
<1>3. UnitsInv'
  BY <1>1 DEF GenerationInv, GenerationTypeOK, UnitsInv
<1>4. \A e \in Callers \ {c} : CallInv(gcall[e])'
  <2> SUFFICES ASSUME NEW e \in Callers \ {c} PROVE CallInv(gcall[e])'
    OBVIOUS
  <2>1. PICK x \in GenerationCall : x = gcall[e]
    BY DEF GenerationInv, GenerationTypeOK
  <2>2. CallInv(x)
    BY <2>1 DEF GenerationInv, CallsInv
  <2>3. CallInv(x)'
    BY <1>1, <2>2 DEF GenerationInv, GenerationTypeOK, CallInv, Published
  <2> QED
    BY <1>1, <2>1, <2>3
<1>5. CallsInv'
  <2>1. \A e \in Callers : CallInv(gcall[e])'
    BY <1>1, <1>4
  <2>2. \A e, f \in Callers : e # f => Apart(gcall'[e], gcall'[f])
    BY <1>1 DEF GenerationInv, CallsInv, Apart
  <2> QED
    BY <2>1, <2>2 DEF CallsInv, Apart
<1>6. UpdatesInv' /\ \A d \in GDatasets : HeadInv(d)'
  BY <1>1 DEF GenerationInv, UpdatesInv, HeadInv, Published
<1> QED
  BY <1>2, <1>3, <1>5, <1>6 DEF GenerationInv

\* What is remembered of a call that ended.
LEMMA EndedTyped ==
    ASSUME NEW t \in GenerationCall, NEW outcome \in {"refused", "done", "retry", "stale"}
    PROVE  /\ Ended(t, outcome) \in GenerationCall
           /\ Ended(t, outcome).pc = "idle"
           /\ outcome = "refused" => Ended(t, outcome) = Resting
           /\ outcome # "refused" => /\ Ended(t, outcome).outcome = outcome
                                     /\ Ended(t, outcome).name = t.name
                                     /\ Ended(t, outcome).dataset = t.dataset
                                     /\ Ended(t, outcome).id = t.id
<1>1. CASE outcome = "refused"
  BY <1>1, RestingTyped DEF Ended
<1>2. CASE outcome # "refused"
  <2>1. PICK x : x = [t EXCEPT !.pc = "idle", !.outcome = outcome, !.base = Blank, !.request = Blank]
    OBVIOUS
  <2>2. Ended(t, outcome) = x
    BY <1>2, <2>1 DEF Ended
  <2>3. /\ x \in GenerationCall /\ x.pc = "idle" /\ x.outcome = outcome
        /\ x.name = t.name /\ x.dataset = t.dataset /\ x.id = t.id
    BY <1>2, <2>1 DEF GenerationCall, PCs, Bases, Outcomes
  <2> QED
    BY <1>2, <2>2, <2>3
<1> QED
  BY <1>1, <1>2

\* A call ends: what it is told must be so.
LEMMA EndStep ==
    ASSUME GenerationInv, NEW c \in Callers, NEW t \in GenerationCall, NEW outcome \in {"refused", "done", "retry", "stale"},
           Steps(c, Ended(t, outcome)),
           UNCHANGED <<states, heads, updates>>, gcalls' \in Nat, gcalls <= gcalls',
           outcome = "done" /\ t.dataset # Blank =>
               \E u \in updates : u[1] = t.dataset /\ u[2] = t.name,
           outcome = "retry" => Published(t.name) /\ states[t.name].by # t.id
    PROVE  GenerationInv'
<1>1. PICK x \in GenerationCall : x = Ended(t, outcome)
  BY EndedTyped
<1>2. /\ x.pc = "idle"
      /\ outcome = "refused" => x.outcome = Blank
      /\ outcome # "refused" => /\ x.outcome = outcome /\ x.name = t.name
                                /\ x.dataset = t.dataset /\ x.id = t.id
  BY <1>1, EndedTyped, RestingTyped
<1>3. CallInv(x)'
  BY <1>2, NamesAssumption DEF CallInv, Waiting, Published
<1>4. \A e \in Callers \ {c} : Apart(x, gcall[e])
  BY <1>2 DEF Apart
<1> QED
  BY <1>1, <1>3, <1>4, CallStep

\* A call that begins has a number that no call and no unit has.
LEMMA FreshNumber ==
    ASSUME GenerationInv
    PROVE  /\ gcalls + 1 \in Nat /\ gcalls + 1 \in 1 .. (gcalls + 1)
           /\ \A s \in DOMAIN states : states[s].by # gcalls + 1
           /\ \A e \in Callers : gcall[e].pc # "idle" => gcall[e].id # gcalls + 1
<1>1. gcalls \in Nat
  BY DEF GenerationInv, GenerationTypeOK
<1>2. \A e \in Callers : gcall[e].pc # "idle" => gcall[e].id \in 1 .. gcalls
  BY DEF GenerationInv, CallsInv, CallInv
<1>3. \A s \in DOMAIN states : states[s].by \in 1 .. gcalls
  BY DEF GenerationInv, UnitsInv
<1> QED
  BY <1>1, <1>2, <1>3

LEMMA ResolveKeeps ==
    ASSUME GenerationInv, NEW c \in Callers, NEW p \in Pins, NEW d \in GTargets[p], Resolve(c, p, d)
    PROVE  GenerationInv'
<1>1. PICK n : n = gcalls + 1
  OBVIOUS
<1>2. PICK t : t = [Resting EXCEPT !.pc = "select", !.id = n, !.name = p, !.dataset = d]
  OBVIOUS
<1>3. Steps(c, t) /\ gcalls' = n /\ UNCHANGED <<states, heads, updates>>
  BY <1>1, <1>2 DEF Resolve, NothingWritten
<1>4. n \in Nat /\ n \in 1 .. n /\ gcalls <= n
  BY <1>1 DEF GenerationInv, GenerationTypeOK
<1>5. d \in Targets
  BY CallsAssumption DEF Targets
<1>6. t \in GenerationCall /\ t.pc = "select" /\ t.id = n /\ t.name = p /\ t.outcome = Blank
  BY <1>2, <1>4, <1>5, RestingTyped DEF GenerationCall, PCs, Waiting, Bases, GNames
<1>7. CallInv(t)'
  BY <1>1, <1>3, <1>4, <1>6, FreshNumber, NamesAssumption DEF CallInv, Waiting
<1>8. \A e \in Callers \ {c} : Apart(t, gcall[e])
  BY <1>1, <1>6, FreshNumber DEF Apart
<1> QED
  BY <1>3, <1>4, <1>6, <1>7, <1>8, CallStep

\* A call that goes on under its name and number.
LEMMA OnwardStep ==
    ASSUME GenerationInv, NEW c \in Callers, gcall[c].pc \in Waiting,
           NEW t \in GenerationCall, Steps(c, t), UNCHANGED <<states, heads, updates, gcalls>>,
           t.id = gcall[c].id, t.name = gcall[c].name, t.outcome = gcall[c].outcome,
           t.pc \in Waiting \/ (t.pc = "reuse" /\ Published(t.name) /\ t.base = states[t.name].base)
    PROVE  GenerationInv'
<1>1. PICK x \in GenerationCall : x = gcall[c]
  BY DEF GenerationInv, GenerationTypeOK
<1>2. CallInv(x) /\ x.pc # "idle" /\ x.pc # "derive" /\ t.pc # "idle" /\ t.pc # "derive"
  BY <1>1 DEF GenerationInv, CallsInv, Waiting
<1>3. CallInv(t)'
  BY <1>1, <1>2, NamesAssumption DEF CallInv, Waiting, Published
<1>4. \A e \in Callers \ {c} : Apart(t, gcall[e])
  BY <1>1, <1>2 DEF GenerationInv, CallsInv, Apart
<1>5. gcalls' \in Nat /\ gcalls <= gcalls'
  BY DEF GenerationInv, GenerationTypeOK
<1> QED
  BY <1>3, <1>4, <1>5, CallStep

LEMMA SelectKeeps ==
    ASSUME GenerationInv, NEW c \in Callers, NEW installed \in BOOLEAN, SelectRetained(c, installed)
    PROVE  GenerationInv'
<1>1. PICK t \in GenerationCall : t = gcall[c]
  BY DEF GenerationInv, GenerationTypeOK
<1>2. t.pc = "select" /\ UNCHANGED <<states, heads, updates, gcalls>> /\ gcalls \in Nat /\ gcalls <= gcalls
  BY <1>1 DEF SelectRetained, In, NothingWritten, GenerationInv, GenerationTypeOK
<1>3. CASE Ends(c, "refused")
  BY <1>1, <1>2, <1>3, EndStep DEF Ends
<1>4. CASE To(c, "stage")
  <2>1. PICK x : x = [t EXCEPT !.pc = "stage"]
    OBVIOUS
  <2>2. x \in GenerationCall /\ x.pc = "stage" /\ x.id = t.id /\ x.name = t.name /\ x.outcome = t.outcome
    BY <2>1 DEF GenerationCall, PCs, Waiting
  <2>3. Steps(c, x)
    BY <1>1, <1>4, <2>1 DEF To
  <2> QED
    BY <1>1, <1>2, <2>2, <2>3, OnwardStep DEF Waiting
<1>5. CASE /\ Published(t.name)
           /\ Steps(c, [t EXCEPT !.pc = "reuse", !.base = states[t.name].base])
  <2>1. PICK b : b = states[t.name].base
    OBVIOUS
  <2>2. b \in Bases
    BY <1>5, <2>1 DEF GenerationInv, UnitsInv, Published
  <2>3. PICK x : x = [t EXCEPT !.pc = "reuse", !.base = b]
    OBVIOUS
  <2>4. /\ x \in GenerationCall /\ x.pc = "reuse" /\ x.id = t.id /\ x.name = t.name
        /\ x.outcome = t.outcome /\ x.base = b
    BY <2>2, <2>3 DEF GenerationCall, PCs
  <2>5. Steps(c, x)
    BY <1>5, <2>1, <2>3
  <2> QED
    BY <1>1, <1>2, <1>5, <2>1, <2>4, <2>5, OnwardStep DEF Waiting
<1> QED
  BY <1>1, <1>3, <1>4, <1>5 DEF SelectRetained

\* Steps of an admission that publish nothing.
LEMMA AdmissionKeeps ==
    ASSUME GenerationInv, NEW c \in Callers, NEW intact \in BOOLEAN,
           Stage(c, intact) \/ OpenAdmission(c) \/ FailPublish(c) \/ AskAgain(c)
    PROVE  GenerationInv'
<1>1. PICK t \in GenerationCall : t = gcall[c]
  BY DEF GenerationInv, GenerationTypeOK
<1>2. /\ t.pc \in Waiting /\ UNCHANGED <<states, heads, updates, gcalls>>
      /\ gcalls \in Nat /\ gcalls <= gcalls
  BY <1>1 DEF Stage, OpenAdmission, FailPublish, AskAgain, In, NothingWritten, GenerationInv, GenerationTypeOK, Waiting
<1>3. CallInv(t)
  BY <1>1 DEF GenerationInv, CallsInv
<1>4. \/ Ends(c, "refused")
      \/ Ends(c, "retry") /\ Published(t.name)
      \/ To(c, "admit") \/ To(c, "failed")
      \/ Steps(c, [t EXCEPT !.pc = "layers",
                             !.base = IF t.dataset = Blank THEN Blank ELSE heads[t.dataset]])
  <2>1. CASE Stage(c, intact)
    BY <2>1 DEF Stage, Judged
  <2>2. CASE OpenAdmission(c)
    BY <1>1, <2>2 DEF OpenAdmission
  <2>3. CASE FailPublish(c) \/ AskAgain(c)
    BY <1>1, <2>3 DEF FailPublish, AskAgain
  <2> QED
    BY <2>1, <2>2, <2>3
<1>5. CASE Ends(c, "refused")
  BY <1>1, <1>2, <1>5, EndStep DEF Ends
<1>6. CASE Ends(c, "retry") /\ Published(t.name)
  <2>1. states[t.name].by # t.id
    BY <1>2, <1>3, <1>6 DEF CallInv, Published
  <2> QED
    BY <1>1, <1>2, <1>6, <2>1, EndStep DEF Ends
<1>7. ASSUME NEW pc \in {"admit", "failed"}, To(c, pc) PROVE GenerationInv'
  <2>1. PICK x : x = [t EXCEPT !.pc = pc]
    OBVIOUS
  <2>2. x \in GenerationCall /\ x.pc = pc /\ x.id = t.id /\ x.name = t.name /\ x.outcome = t.outcome
    BY <2>1 DEF GenerationCall, PCs, Waiting
  <2>3. Steps(c, x)
    BY <1>1, <1>7, <2>1 DEF To
  <2> QED
    BY <1>1, <1>2, <2>2, <2>3, OnwardStep DEF Waiting
<1>8. CASE Steps(c, [t EXCEPT !.pc = "layers",
                              !.base = IF t.dataset = Blank THEN Blank ELSE heads[t.dataset]])
  <2>1. PICK b : b = IF t.dataset = Blank THEN Blank ELSE heads[t.dataset]
    OBVIOUS
  <2>2. b \in Bases
    BY <2>1 DEF GenerationInv, GenerationTypeOK, GenerationCall, Targets, Bases
  <2>3. PICK x : x = [t EXCEPT !.pc = "layers", !.base = b]
    OBVIOUS
  <2>4. /\ x \in GenerationCall /\ x.pc = "layers" /\ x.id = t.id /\ x.name = t.name
        /\ x.outcome = t.outcome
    BY <2>2, <2>3 DEF GenerationCall, PCs, Waiting
  <2>5. Steps(c, x)
    BY <1>8, <2>1, <2>3
  <2> QED
    BY <1>1, <1>2, <2>4, <2>5, OnwardStep DEF Waiting
<1> QED
  BY <1>4, <1>5, <1>6, <1>7, <1>8

-----------------------------------------------------------------------------
\* A name is published once, by the call whose base the unit keeps; the others see it
\* as another's.
LEMMA PublishStep ==
    ASSUME GenerationInv, NEW c \in Callers, gcall[c].pc \in {"layers", "derive"},
           ~Published(gcall[c].name), NEW written, NEW spelling, NEW kind,
           Publish(gcall[c].name, Unit(written, c, spelling, kind)), To(c, "advance"),
           UNCHANGED <<heads, updates, gcalls>>
    PROVE  GenerationInv'
<1>1. PICK t \in GenerationCall : t = gcall[c]
  BY DEF GenerationInv, GenerationTypeOK
<1>2. PICK n : n = t.name
  OBVIOUS
<1>3. PICK u : u = Unit(written, c, spelling, kind)
  OBVIOUS
<1>4. Formed(u) /\ u.base = t.base /\ u.by = t.id /\ u.request = t.request
  <2>1. u.base = t.base /\ u.by = t.id /\ u.request = t.request
    BY <1>1, <1>3 DEF Unit
  <2>2. Formed(u)
    BY <1>3 DEF Unit, Formed
  <2> QED
    BY <2>1, <2>2
<1>5. CallInv(t)
  BY <1>1 DEF GenerationInv, CallsInv
<1>6. /\ n \notin DOMAIN states /\ n \in GNames
      /\ t.pc = "layers" => n \in Pins
      /\ t.pc = "derive" => n \in GBatches /\ t.base = t.request.base
      /\ t.id \in 1 .. gcalls /\ t.outcome = Blank
  BY <1>1, <1>2, <1>5 DEF CallInv, Waiting, Published, GNames
<1>7. /\ DOMAIN states' = DOMAIN states \cup {n}
      /\ states'[n] = u
      /\ \A s \in DOMAIN states : s # n /\ states'[s] = states[s]
  BY <1>1, <1>2, <1>3, <1>6 DEF Publish
<1>8. PICK x : x = [t EXCEPT !.pc = "advance"]
  OBVIOUS
<1>9. /\ x \in GenerationCall /\ x.pc = "advance" /\ x.id = t.id /\ x.name = n
      /\ x.outcome = Blank /\ x.base = t.base
  BY <1>2, <1>6, <1>8 DEF GenerationCall, PCs
<1>10. /\ gcall'[c] = x /\ \A e \in Callers \ {c} : gcall'[e] = gcall[e]
       /\ gcall' \in [Callers -> GenerationCall]
  BY <1>1, <1>8, <1>9 DEF GenerationInv, GenerationTypeOK, To, Steps
<1>11. GenerationTypeOK'
  BY <1>6, <1>7, <1>10 DEF GenerationInv, GenerationTypeOK
<1>12. UnitsInv'
  <2>1. u.base \in Bases
    BY <1>4 DEF GenerationCall
  <2>2. n \in GBatches => u.base = u.request.base
    BY <1>1, <1>4, <1>6, NamesAssumption
  <2> QED
    BY <1>4, <1>6, <1>7, <2>1, <2>2 DEF GenerationInv, UnitsInv
<1>13. CallInv(x)'
  BY <1>4, <1>6, <1>7, <1>9, NamesAssumption DEF CallInv, Waiting, Published
<1>14. ASSUME NEW e \in Callers \ {c} PROVE CallInv(gcall[e])'
  <2>1. PICK y \in GenerationCall : y = gcall[e]
    BY DEF GenerationInv, GenerationTypeOK
  <2>2. CallInv(y) /\ Apart(t, y)
    BY <1>1, <2>1 DEF GenerationInv, CallsInv
  <2>3. y.pc = "derive" => ~Published(y.name)'
    BY <1>1, <1>2, <1>6, <1>7, <2>2, NamesAssumption DEF CallInv, Apart, Published
  <2>4. y.pc \in Waiting \cup {"derive"} => \A s \in DOMAIN states' : states'[s].by # y.id
    BY <1>1, <1>4, <1>7, <2>2 DEF CallInv, Apart, Waiting
  <2>5. CallInv(y)'
    BY <1>7, <2>2, <2>3, <2>4 DEF CallInv, Published
  <2> QED
    BY <1>10, <1>14, <2>1, <2>5
<1>15. CallsInv'
  <2>1. \A e \in Callers : CallInv(gcall[e])'
    BY <1>10, <1>13, <1>14
  <2>2. \A e \in Callers \ {c} : Apart(t, gcall[e]) /\ Apart(gcall[e], t)
    BY <1>1 DEF GenerationInv, CallsInv
  <2>3. \A e \in Callers \ {c} : Apart(x, gcall[e]) /\ Apart(gcall[e], x)
    BY <1>1, <1>9, <2>2 DEF Apart
  <2>4. \A e, f \in Callers : e # f => Apart(gcall'[e], gcall'[f])
    BY <1>10, <2>3 DEF GenerationInv, CallsInv
  <2> QED
    BY <2>1, <2>4 DEF CallsInv, Apart
<1>16. UpdatesInv'
  BY <1>7 DEF GenerationInv, UpdatesInv, Published
<1>17. \A d \in GDatasets : HeadInv(d)'
  BY <1>7 DEF GenerationInv, HeadInv, Published
<1> QED
  BY <1>11, <1>12, <1>15, <1>16, <1>17 DEF GenerationInv

LEMMA PublishAdmissionKeeps ==
    ASSUME GenerationInv, NEW c \in Callers, PublishAdmission(c)
    PROVE  GenerationInv'
<1>1. PICK t \in GenerationCall : t = gcall[c]
  BY DEF GenerationInv, GenerationTypeOK
<1>2. t.pc = "layers" /\ UNCHANGED <<heads, updates, gcalls>> /\ gcalls \in Nat /\ gcalls <= gcalls
  BY <1>1 DEF PublishAdmission, In, GenerationInv, GenerationTypeOK
<1>3. CASE Ends(c, "refused") /\ UNCHANGED states
  BY <1>1, <1>2, <1>3, EndStep DEF Ends
<1>4. CASE To(c, "failed") /\ UNCHANGED states
  <2>1. PICK x : x = [t EXCEPT !.pc = "failed"]
    OBVIOUS
  <2>2. x \in GenerationCall /\ x.pc = "failed" /\ x.id = t.id /\ x.name = t.name /\ x.outcome = t.outcome
    BY <2>1 DEF GenerationCall, PCs, Waiting
  <2>3. Steps(c, x)
    BY <1>1, <1>4, <2>1 DEF To
  <2> QED
    BY <1>1, <1>2, <1>4, <2>2, <2>3, OnwardStep DEF Waiting
<1>5. ASSUME ~Published(t.name), NEW written, NEW spelling,
             Publish(t.name, Unit(written, c, spelling, "admitted")), To(c, "advance")
      PROVE  GenerationInv'
  BY <1>1, <1>2, <1>5, PublishStep
<1> QED
  BY <1>1, <1>3, <1>4, <1>5 DEF PublishAdmission

LEMMA PublishDerivationKeeps ==
    ASSUME GenerationInv, NEW c \in Callers, PublishDerivation(c)
    PROVE  GenerationInv'
<1>1. PICK t \in GenerationCall : t = gcall[c]
  BY DEF GenerationInv, GenerationTypeOK
<1>2. t.pc = "derive" /\ UNCHANGED <<heads, updates, gcalls>> /\ gcalls \in Nat /\ gcalls <= gcalls
  BY <1>1 DEF PublishDerivation, In, GenerationInv, GenerationTypeOK
<1>3. ~Published(t.name)
  BY <1>1, <1>2 DEF GenerationInv, CallsInv, CallInv
<1>4. CASE Ends(c, "refused") /\ UNCHANGED states
  BY <1>1, <1>2, <1>4, EndStep DEF Ends
<1>5. ASSUME NEW written, Publish(t.name, Unit(written, c, Blank, "derived")), To(c, "advance")
      PROVE  GenerationInv'
  BY <1>1, <1>2, <1>3, <1>5, PublishStep
<1> QED
  BY <1>1, <1>4, <1>5 DEF PublishDerivation

\* A batch is derived by one call at a time, under a request that fixes its base.
LEMMA DeriveKeeps ==
    ASSUME GenerationInv, NEW c \in Callers, NEW b \in GBatches, NEW q \in GRequests[b], Derive(c, b, q)
    PROVE  GenerationInv'
<1>1. PICK n, judged : n = gcalls + 1 /\ judged = Judgement(b, q)
  OBVIOUS
<1>2. PICK t : t = [Resting EXCEPT !.pc = judged, !.id = n, !.name = b, !.dataset = q.dataset,
                                   !.base = q.base, !.request = Bound(q)]
  OBVIOUS
<1>3. /\ gcalls' = n /\ UNCHANGED <<states, heads, updates>>
      /\ \A e \in Callers : ~(gcall[e].pc = "derive" /\ gcall[e].name = b)
      /\ Steps(c, IF judged \in {"advance", "derive"} THEN t ELSE Ended(t, judged))
  BY <1>1, <1>2 DEF Derive, NothingWritten, In
<1>4. n \in Nat /\ n \in 1 .. n /\ gcalls <= n
  BY <1>1 DEF GenerationInv, GenerationTypeOK
<1>5. /\ judged \in {"advance", "refused", "stale", "derive"}
      /\ judged = "advance" => Published(b) /\ states[b].request = Bound(q)
      /\ judged = "derive" => ~Published(b)
  BY <1>1 DEF Judgement
<1>6. /\ q.dataset \in Targets /\ q.base \in Bases /\ Bound(q) \in Requests /\ Bound(q).base = q.base
  <2>1. q.dataset \in Targets /\ q.base \in Bases
    BY CallsAssumption DEF Targets, Bases
  <2>2. Bound(q) \in Requests /\ Bound(q).base = q.base
    BY DEF Requests, Bound
  <2> QED
    BY <2>1, <2>2
<1>7. CASE judged \in {"advance", "derive"}
  <2>1. /\ t \in GenerationCall /\ t.pc = judged /\ t.id = n /\ t.name = b /\ t.outcome = Blank
        /\ t.base = q.base /\ t.request = Bound(q)
    BY <1>2, <1>4, <1>6, <1>7, RestingTyped DEF GenerationCall, PCs, Bases, GNames
  <2>2. Steps(c, t)
    BY <1>3, <1>7
  <2>3. judged = "advance" => states[b].base = q.base
    BY <1>5, <1>6 DEF GenerationInv, UnitsInv, Published
  <2>4. CallInv(t)'
    BY <1>1, <1>3, <1>4, <1>5, <1>6, <1>7, <2>1, <2>3, FreshNumber, NamesAssumption
       DEF CallInv, Waiting, Published
  <2>5. \A e \in Callers \ {c} : Apart(t, gcall[e])
    BY <1>1, <1>3, <2>1, FreshNumber DEF Apart
  <2> QED
    BY <1>3, <1>4, <2>1, <2>2, <2>4, <2>5, CallStep
<1>8. CASE judged \in {"refused", "stale"}
  <2>1. PICK y : y = [Resting EXCEPT !.id = n, !.name = b, !.dataset = q.dataset]
    OBVIOUS
  <2>2. y \in GenerationCall
    BY <1>4, <1>6, <2>1, RestingTyped DEF GenerationCall, Bases, GNames
  <2>3. Ended(t, judged) = Ended(y, judged)
    BY <1>2, <2>1 DEF Ended, Resting
  <2> QED
    BY <1>3, <1>4, <1>8, <2>2, <2>3, EndStep
<1> QED
  BY <1>5, <1>7, <1>8

-----------------------------------------------------------------------------
\* An update goes to the end of its dataset's chain: no earlier one was to the same
\* state, since it would have been over the same base and so be this update.
LEMMA MoveStep ==
    ASSUME GenerationInv, NEW c \in Callers, NEW t \in GenerationCall, t = gcall[c],
           t.pc \in {"advance", "reuse"}, t.dataset # Blank,
           heads[t.dataset] # t.name, <<t.dataset, t.name, t.base>> \notin updates,
           heads[t.dataset] = t.base, states[t.name].there,
           heads' = [heads EXCEPT ![t.dataset] = t.name],
           updates' = updates \cup {<<t.dataset, t.name, t.base>>},
           Steps(c, Ended(t, "done")), UNCHANGED <<states, gcalls>>
    PROVE  GenerationInv'
<1>1. PICK d, s, b : d = t.dataset /\ s = t.name /\ b = t.base
  OBVIOUS
<1>2. PICK u : u = <<d, s, b>>
  OBVIOUS
<1>3. Published(s) /\ b = states[s].base
  BY <1>1 DEF GenerationInv, CallsInv, CallInv
<1>4. d \in GDatasets /\ s \in GNames /\ b \in Bases /\ s # Blank
  BY <1>1, <1>3, NamesAssumption DEF GenerationInv, GenerationTypeOK, GenerationCall, Targets, Published
<1>5. /\ u[1] = d /\ u[2] = s /\ u[3] = b
      /\ u \in GDatasets \X GNames \X Bases
      /\ u \notin updates /\ updates' = updates \cup {u}
      /\ heads[d] = b /\ b # s /\ states' = states
      /\ heads'[d] = s /\ \A x \in GDatasets \ {d} : heads'[x] = heads[x]
      /\ heads' \in [GDatasets -> Bases]
  BY <1>1, <1>2, <1>4 DEF GenerationInv, GenerationTypeOK, Bases
<1>6. PICK x \in GenerationCall : /\ x = Ended(t, "done") /\ x.pc = "idle" /\ x.outcome = "done"
                           /\ x.name = s /\ x.dataset = d
  BY <1>1, EndedTyped
<1>7. /\ gcall'[c] = x /\ \A e \in Callers \ {c} : gcall'[e] = gcall[e]
      /\ gcall' \in [Callers -> GenerationCall]
  BY <1>6 DEF GenerationInv, GenerationTypeOK, Steps
<1>8. GenerationTypeOK'
  BY <1>5, <1>7 DEF GenerationInv, GenerationTypeOK
<1>9. UnitsInv'
  BY <1>5 DEF GenerationInv, UnitsInv
<1>10. \A v \in updates : v[1] = d => v[2] # s /\ v[3] # b
  <2> SUFFICES ASSUME NEW v \in updates, v[1] = d PROVE v[2] # s /\ v[3] # b
    OBVIOUS
  <2>1. v = <<v[1], v[2], v[3]>>
    BY DEF GenerationInv, GenerationTypeOK
  <2>2. v[3] = states[v[2]].base
    BY DEF GenerationInv, UpdatesInv
  <2>3. v[2] # s
    BY <1>2, <1>3, <1>5, <2>1, <2>2
  <2>4. v[3] # b
    BY <1>4, <1>5 DEF GenerationInv, HeadInv
  <2> QED
    BY <2>3, <2>4
<1>11. UpdatesInv'
  BY <1>3, <1>5, <1>10 DEF GenerationInv, UpdatesInv, Published
<1>12. HeadInv(d)'
  <2>0. HeadInv(d)
    BY <1>4 DEF GenerationInv
  <2>1. \A v \in updates' : v[1] = d => heads'[d] # Blank /\ v[3] # heads'[d]
    BY <1>4, <1>5, <1>10, <2>0 DEF HeadInv
  <2>2. \A v \in updates' : v[1] = d =>
          v[2] = heads'[d] \/ \E w \in updates' : w[1] = d /\ w[3] = v[2]
    BY <1>5, <2>0 DEF HeadInv
  <2>3. \A v \in updates' : v[1] = d =>
          v[3] = Blank \/ \E w \in updates' : w[1] = d /\ w[2] = v[3]
    BY <1>5, <2>0 DEF HeadInv
  <2>4. \E v \in updates' : v[1] = d /\ v[2] = heads'[d]
    BY <1>5
  <2>5. Published(heads[d])' /\ states'[heads'[d]].there
    BY <1>1, <1>3, <1>5 DEF Published
  <2> QED
    BY <2>1, <2>2, <2>3, <2>4, <2>5 DEF HeadInv
<1>13. ASSUME NEW y \in GDatasets \ {d} PROVE HeadInv(y)'
  <2>1. HeadInv(y) /\ heads'[y] = heads[y]
    BY <1>5 DEF GenerationInv
  <2>2. \A v \in updates' : v[1] = y => v \in updates
    BY <1>5
  <2> QED
    BY <1>5, <2>1, <2>2 DEF HeadInv, Published
<1>14. CallInv(x)'
  BY <1>5, <1>6, NamesAssumption DEF CallInv, Waiting
<1>15. ASSUME NEW e \in Callers \ {c} PROVE CallInv(gcall[e])'
  <2>1. PICK y \in GenerationCall : y = gcall[e]
    BY DEF GenerationInv, GenerationTypeOK
  <2>2. CallInv(y)
    BY <2>1 DEF GenerationInv, CallsInv
  <2>3. CallInv(y)'
    BY <1>5, <2>2 DEF CallInv, Published
  <2> QED
    BY <1>7, <1>15, <2>1, <2>3
<1>16. CallsInv'
  <2>1. \A e \in Callers : CallInv(gcall[e])'
    BY <1>7, <1>14, <1>15
  <2>2. \A e \in Callers \ {c} : Apart(x, gcall[e]) /\ Apart(gcall[e], x)
    BY <1>6 DEF Apart
  <2>3. \A e, f \in Callers : e # f => Apart(gcall'[e], gcall'[f])
    BY <1>7, <2>2 DEF GenerationInv, CallsInv
  <2> QED
    BY <2>1, <2>3 DEF CallsInv, Apart
<1> QED
  BY <1>8, <1>9, <1>11, <1>12, <1>13, <1>16 DEF GenerationInv

LEMMA AdvanceKeeps ==
    ASSUME GenerationInv, NEW c \in Callers, Advance(c)
    PROVE  GenerationInv'
<1>1. PICK t \in GenerationCall : t = gcall[c]
  BY DEF GenerationInv, GenerationTypeOK
<1>2. t.pc \in {"advance", "reuse"} /\ UNCHANGED <<states, gcalls>> /\ gcalls \in Nat /\ gcalls <= gcalls
  BY <1>1 DEF Advance, In, GenerationInv, GenerationTypeOK
<1>3. t.name # Blank
  BY <1>1, <1>2, NamesAssumption DEF GenerationInv, GenerationTypeOK, CallsInv, CallInv, Published
<1>4. CASE /\ t.dataset = Blank \/ heads[t.dataset] = t.name \/ <<t.dataset, t.name, t.base>> \in updates
           /\ Ends(c, "done") /\ UNCHANGED <<heads, updates>>
  <2>1. t.dataset # Blank => \E u \in updates : u[1] = t.dataset /\ u[2] = t.name
    <3>1. ASSUME t.dataset # Blank, heads[t.dataset] = t.name
          PROVE  \E u \in updates : u[1] = t.dataset /\ u[2] = t.name
      <4>1. t.dataset \in GDatasets
        BY <3>1 DEF GenerationCall, Targets
      <4> QED
        BY <1>3, <3>1, <4>1 DEF GenerationInv, HeadInv
    <3>2. ASSUME <<t.dataset, t.name, t.base>> \in updates
          PROVE  \E u \in updates : u[1] = t.dataset /\ u[2] = t.name
      BY <3>2
    <3> QED
      BY <1>4, <3>1, <3>2
  <2> QED
    BY <1>1, <1>2, <1>4, <2>1, EndStep DEF Ends
<1>5. CASE (Ends(c, "stale") \/ Ends(c, "refused")) /\ UNCHANGED <<heads, updates>>
  BY <1>1, <1>2, <1>5, EndStep DEF Ends
<1>6. CASE /\ t.dataset # Blank /\ heads[t.dataset] # t.name
           /\ <<t.dataset, t.name, t.base>> \notin updates
           /\ heads[t.dataset] = t.base /\ states[t.name].there
           /\ heads' = [heads EXCEPT ![t.dataset] = t.name]
           /\ updates' = updates \cup {<<t.dataset, t.name, t.base>>}
           /\ Ends(c, "done")
  BY <1>1, <1>2, <1>6, MoveStep DEF Ends
<1> QED
  BY <1>1, <1>4, <1>5, <1>6 DEF Advance, MayMove

\* A unit that is removed keeps everything but its availability.
LEMMA RemovedUnit ==
    ASSUME NEW u, Formed(u)
    PROVE  /\ Formed([u EXCEPT !.there = FALSE])
           /\ [u EXCEPT !.there = FALSE].base = u.base
           /\ [u EXCEPT !.there = FALSE].by = u.by
           /\ [u EXCEPT !.there = FALSE].request = u.request
<1>1. PICK v : v = [u EXCEPT !.there = FALSE]
  OBVIOUS
<1>2. /\ v.table = u.table /\ v.columns = u.columns /\ v.membership = u.membership
      /\ v.index = u.index /\ v.counts = u.counts /\ v.spelling = u.spelling
      /\ v.kind = u.kind /\ v.base = u.base /\ v.dataset = u.dataset
      /\ v.request = u.request /\ v.by = u.by
  BY <1>1 DEF Formed
<1>3. v \in [table : {u.table}, columns : {u.columns}, membership : {u.membership},
              index : {u.index}, counts : {u.counts}, spelling : {u.spelling}, kind : {u.kind},
              base : {u.base}, dataset : {u.dataset}, request : {u.request}, by : {u.by},
              there : BOOLEAN]
  BY <1>1 DEF Formed
<1>4. Formed(v)
  BY <1>2, <1>3 DEF Formed
<1> QED
  BY <1>1, <1>2, <1>4

LEMMA RemovalKeeps ==
    ASSUME GenerationInv, NEW s \in DOMAIN states, RemoveState(s)
    PROVE  GenerationInv'
<1>1. PICK u : u = [states[s] EXCEPT !.there = FALSE]
  OBVIOUS
<1>2. /\ Formed(u) /\ u.base = states[s].base /\ u.by = states[s].by
      /\ u.request = states[s].request
  BY <1>1, RemovedUnit DEF GenerationInv, UnitsInv
<1>3. /\ DOMAIN states' = DOMAIN states /\ states'[s] = u
      /\ \A x \in DOMAIN states \ {s} : states'[x] = states[x]
      /\ heads' = heads /\ updates' = updates /\ gcall' = gcall /\ gcalls' = gcalls
      /\ \A d \in GDatasets : heads[d] # s
  BY <1>1 DEF RemoveState
<1>4. /\ \A x \in DOMAIN states : /\ Formed(states'[x]) /\ states'[x].base = states[x].base
                                  /\ states'[x].by = states[x].by
                                  /\ states'[x].request = states[x].request
  BY <1>2, <1>3 DEF GenerationInv, UnitsInv
<1>5. GenerationTypeOK'
  BY <1>3 DEF GenerationInv, GenerationTypeOK
<1>6. UnitsInv'
  BY <1>3, <1>4 DEF GenerationInv, UnitsInv
<1>7. CallsInv'
  <2>1. ASSUME NEW e \in Callers PROVE CallInv(gcall[e])'
    <3>1. PICK y \in GenerationCall : y = gcall[e]
      BY DEF GenerationInv, GenerationTypeOK
    <3>2. CallInv(y)
      BY <3>1 DEF GenerationInv, CallsInv
    <3>3. CallInv(y)'
      BY <1>3, <1>4, <3>2 DEF CallInv, Published
    <3> QED
      BY <1>3, <3>1, <3>3
  <2> QED
    BY <1>3, <2>1 DEF GenerationInv, CallsInv, Apart
<1>8. UpdatesInv'
  BY <1>3, <1>4 DEF GenerationInv, UpdatesInv, Published
<1>9. \A d \in GDatasets : HeadInv(d)'
  BY <1>3 DEF GenerationInv, HeadInv, Published
<1> QED
  BY <1>5, <1>6, <1>7, <1>8, <1>9 DEF GenerationInv

LEMMA KilledKeeps ==
    ASSUME GenerationInv, NEW c \in Callers, Killed(c)
    PROVE  GenerationInv'
<1>1. PICK t \in GenerationCall : t = gcall[c]
  BY DEF GenerationInv, GenerationTypeOK
<1>2. /\ Steps(c, Ended(t, "refused")) /\ UNCHANGED <<states, heads, updates, gcalls>>
      /\ gcalls \in Nat /\ gcalls <= gcalls
  BY <1>1 DEF Killed, Ends, NothingWritten, GenerationInv, GenerationTypeOK
<1> QED
  BY <1>1, <1>2, EndStep

LEMMA GenerationStep == GenerationInv /\ [GenerationNext]_gvars => GenerationInv'
<1> SUFFICES ASSUME GenerationInv, [GenerationNext]_gvars PROVE GenerationInv'
  OBVIOUS
<1>1. ASSUME NEW c \in Callers, NEW p \in Pins, NEW d \in GTargets[p], Resolve(c, p, d)
      PROVE  GenerationInv'
  BY <1>1, ResolveKeeps
<1>2. ASSUME NEW c \in Callers, NEW b \in GBatches, NEW q \in GRequests[b], Derive(c, b, q)
      PROVE  GenerationInv'
  BY <1>2, DeriveKeeps
<1>3. ASSUME NEW c \in Callers, NEW ok \in BOOLEAN, SelectRetained(c, ok) \/ Stage(c, ok)
      PROVE  GenerationInv'
  BY <1>3, SelectKeeps, AdmissionKeeps
<1>4. ASSUME NEW c \in Callers, OpenAdmission(c) \/ FailPublish(c) \/ AskAgain(c)
      PROVE  GenerationInv'
  <2>1. TRUE \in BOOLEAN
    OBVIOUS
  <2> QED
    BY <1>4, <2>1, AdmissionKeeps
<1>5. ASSUME NEW c \in Callers, PublishAdmission(c) \/ PublishDerivation(c) PROVE GenerationInv'
  BY <1>5, PublishAdmissionKeeps, PublishDerivationKeeps
<1>6. ASSUME NEW c \in Callers, Advance(c) \/ Killed(c) PROVE GenerationInv'
  BY <1>6, AdvanceKeeps, KilledKeeps
<1>7. ASSUME NEW s \in DOMAIN states, RemoveState(s) PROVE GenerationInv'
  BY <1>7, RemovalKeeps
<1>8. CASE UNCHANGED gvars
  BY <1>8 DEF gvars, GenerationInv, GenerationTypeOK, UnitsInv, CallsInv, CallInv, Apart, UpdatesInv, HeadInv, Published
<1> QED
  BY <1>1, <1>2, <1>3, <1>4, <1>5, <1>6, <1>7, <1>8 DEF GenerationNext

\* A chain with one end: its last state, or nothing.
LEMMA ChainEnds ==
    ASSUME GenerationInv, NEW d \in GDatasets
    PROVE  LET mine == {u \in updates : u[1] = d}
           IN  {heads[d]} = IF mine = {} THEN {Blank} ELSE {u[2] : u \in mine} \ {u[3] : u \in mine}
<1> DEFINE mine == {u \in updates : u[1] = d}
           ends == {u[2] : u \in mine} \ {u[3] : u \in mine}
<1>1. HeadInv(d)
  BY DEF GenerationInv
<1>2. CASE mine = {}
  <2>1. heads[d] = Blank
    BY <1>1, <1>2 DEF HeadInv
  <2> QED
    BY <1>2, <2>1
<1>3. CASE mine # {}
  <2>1. heads[d] # Blank
    BY <1>1, <1>3 DEF HeadInv
  <2>2. heads[d] \in ends
    BY <1>1, <2>1 DEF HeadInv
  <2>3. \A x \in ends : x = heads[d]
    BY <1>1 DEF HeadInv
  <2> QED
    BY <1>3, <2>2, <2>3
<1> QED
  BY <1>2, <1>3

-----------------------------------------------------------------------------
\* Every value stays in its type: the published names, the datasets, the updates and
\* the calls.
THEOREM GenerationTypeCorrect == GenerationSpec => []GenerationTypeOK
<1>1. GenerationInv => GenerationTypeOK
  BY DEF GenerationInv
<1> QED
  BY GenerationStarts, GenerationStep, <1>1, PTL DEF GenerationSpec

\* No update of a dataset is lost or applied twice, whatever admissions and derivations
\* race, are killed between publishing and advancing, or are retried; what a call is
\* told about its own update is so.
THEOREM UpdatesFormChain == GenerationSpec => []HeadsChain
<1>1. GenerationInv => HeadsChain
  <2> SUFFICES ASSUME GenerationInv PROVE HeadsChain
    OBVIOUS
  <2>1. \A u, v \in updates : u[1] = v[1] /\ (u[2] = v[2] \/ u[3] = v[3]) => u = v
    BY DEF GenerationInv, UpdatesInv
  <2>2. \A d \in GDatasets : heads[d] # Blank => Published(heads[d]) /\ states[heads[d]].there
    BY DEF GenerationInv, HeadInv
  <2>3. \A c \in Callers : CallInv(gcall[c])
    BY DEF GenerationInv, CallsInv
  <2>4. \A c \in Callers :
          /\ gcall[c].outcome = "done" /\ gcall[c].dataset # Blank =>
               \E u \in updates : u[1] = gcall[c].dataset /\ u[2] = gcall[c].name
          /\ gcall[c].outcome = "retry" =>
               Published(gcall[c].name) /\ states[gcall[c].name].by # gcall[c].id
    BY <2>3 DEF CallInv
  <2> QED
    BY <2>1, <2>2, <2>4, ChainEnds DEF HeadsChain
<1> QED
  BY GenerationStarts, GenerationStep, <1>1, PTL DEF GenerationSpec

-----------------------------------------------------------------------------
(***************************************************************************)
(* What admitted and derived tables hold, for every set of artifacts,      *)
(* bytes, requests and callers.                                            *)
(*                                                                         *)
(* First the checks on an artifact, as operators: counts that add up are   *)
(* the number of rows, receipts that collide with none before them are     *)
(* apart, and subjects that each take unused receipts until none is left   *)
(* correspond to them one to one.  Then the layers: each of the ways to    *)
(* write them, over a base that holds its rows at their occurrences, makes *)
(* such a base of the new rows.  Then the calls: a state is removed but    *)
(* never changed, so what a call found out about its base stays true.      *)
(***************************************************************************)
\* A step by step computation that stays within X.
LEMMA Iterated ==
    ASSUME NEW X, NEW a \in X, NEW N \in Nat, NEW F \in [1..N -> [X -> X]]
    PROVE  \E g \in [0..N -> X] : g[0] = a /\ \A n \in 1..N : g[n] = F[n][g[n - 1]]
<1> DEFINE Reached(K) == \E g \in [0..K -> X] : g[0] = a /\ \A n \in 1..K : g[n] = F[n][g[n - 1]]
           T == {K \in Nat : K <= N /\ ~ Reached(K)}
<1>1. SUFFICES ASSUME ~ Reached(N) PROVE FALSE
  OBVIOUS
<1> HIDE DEF Reached
<1>2. N \in T /\ T \subseteq Nat
  BY <1>1
<1>3. PICK K \in T : \A u \in T : ~ (<<u, K>> \in OpToRel(<, Nat))
  <2> HIDE DEF T
  <2> QED
    BY <1>2, WFMin, NatLessThanWellFounded
<1>4. K \in Nat /\ K <= N /\ ~ Reached(K)
  OBVIOUS
<1>5. CASE K = 0
  <2> DEFINE g == [n \in 0..0 |-> a]
  <2>1. g \in [0..0 -> X] /\ g[0] = a /\ \A n \in 1..0 : g[n] = F[n][g[n - 1]]
    OBVIOUS
  <2>2. Reached(0)
    BY <2>1 DEF Reached
  <2> QED
    BY <1>4, <1>5, <2>2
<1>6. CASE K # 0
  <2>1. K - 1 \in Nat /\ K - 1 < K /\ K - 1 <= N /\ K \in 1..N
    BY <1>4, <1>6
  <2>2. Reached(K - 1)
    <3>1. <<K - 1, K>> \in OpToRel(<, Nat)
      BY <1>4, <2>1 DEF OpToRel
    <3>2. K - 1 \notin T
      BY <1>3, <3>1
    <3> QED
      BY <2>1, <3>2
  <2>3. PICK h \in [0..(K - 1) -> X] : h[0] = a /\ \A n \in 1..(K - 1) : h[n] = F[n][h[n - 1]]
    BY <2>2 DEF Reached
  <2> DEFINE g == [n \in 0..K |-> IF n = K THEN F[K][h[K - 1]] ELSE h[n]]
  <2>4. F[K][h[K - 1]] \in X
    BY <2>1, <2>3
  <2>5. g \in [0..K -> X]
    BY <1>4, <2>3, <2>4
  <2>6. g[0] = a
    BY <1>4, <1>6, <2>3
  <2>7. \A n \in 1..K : g[n] = F[n][g[n - 1]]
    <3> TAKE n \in 1..K
    <3>1. n - 1 \in 0..K /\ n - 1 # K /\ g[n - 1] = h[n - 1]
      BY <1>4
    <3>2. CASE n = K
      BY <3>1, <3>2, <1>4
    <3>3. CASE n # K
      <4>1. n \in 1..(K - 1) /\ g[n] = h[n]
        BY <3>3, <1>4
      <4> QED
        BY <4>1, <3>1, <2>3
    <3> QED
      BY <3>2, <3>3
  <2> HIDE DEF g
  <2> QED
    BY <2>5, <2>6, <2>7, <1>4 DEF Reached
<1> QED
  BY <1>5, <1>6
\* A set of numbers from 0 that holds 0 and with each of its numbers below N the next.
LEMMA Climb ==
    ASSUME NEW N \in Nat, NEW S, 0 \in S, \A n \in 1..N : n - 1 \in S => n \in S
    PROVE  \A n \in 0..N : n \in S
<1> DEFINE T == {n \in Nat : n <= N /\ n \notin S}
<1>1. SUFFICES ASSUME NEW k \in T PROVE FALSE
    OBVIOUS
<1>2. T \subseteq Nat
    OBVIOUS
<1>3. PICK m \in T : \A u \in T : ~ (<<u, m>> \in OpToRel(<, Nat))
    <2> HIDE DEF T
    <2> QED
        BY <1>1, <1>2, WFMin, NatLessThanWellFounded
<1>4. m \in Nat /\ m <= N /\ m \notin S /\ m # 0
    OBVIOUS
<1>5. m - 1 \in Nat /\ m - 1 <= N /\ m \in 1..N
    BY <1>4
<1>6. <<m - 1, m>> \in OpToRel(<, Nat)
    BY <1>4, <1>5 DEF OpToRel
<1>7. m - 1 \notin T
    BY <1>3, <1>6
<1> QED
    BY <1>4, <1>5, <1>7

\* The sum of a list is reached by adding one number after the other.
LEMMA Summed ==
    ASSUME NEW N \in Nat, NEW ns, Len(ns) = N, \A n \in 1..N : ns[n] \in Nat
    PROVE  \E g \in [0..N -> Nat] :
             /\ g[0] = 0 /\ \A n \in 1..N : g[n] = g[n - 1] + ns[n]
             /\ SumOf(ns) = g[N]
<1> DEFINE Step(f) == [n \in 0..N |-> IF n = 0 THEN 0 ELSE f[n - 1] + ns[n]]
           whole == CHOOSE f : f = Step(f)
           F == [n \in 1..N |-> [x \in Nat |-> x + ns[n]]]
<1>1. F \in [1..N -> [Nat -> Nat]]
    OBVIOUS
<1>2. \A n \in 1..N : \A x \in Nat : F[n][x] = x + ns[n]
    OBVIOUS
<1> HIDE DEF F
<1>3. PICK g \in [0..N -> Nat] : g[0] = 0 /\ \A n \in 1..N : g[n] = F[n][g[n - 1]]
    <2> DEFINE X == Nat
               zero == 0
    <2>1. zero \in X /\ F \in [1..N -> [X -> X]]
        BY <1>1
    <2> HIDE DEF Step, whole, X, zero
    <2>2. \E g \in [0..N -> X] : g[0] = zero /\ \A n \in 1..N : g[n] = F[n][g[n - 1]]
        BY <2>1, Iterated
    <2> QED
        BY <2>2 DEF X, zero
<1>4. \A n \in 1..N : g[n] = g[n - 1] + ns[n]
    <2> TAKE n \in 1..N
    <2>1. n - 1 \in 0..N
        OBVIOUS
    <2> QED
        BY <1>2, <1>3, <2>1
<1>5. g = Step(g)
    <2>1. \A n \in 0..N : g[n] = (IF n = 0 THEN 0 ELSE g[n - 1] + ns[n])
        BY <1>3, <1>4
    <2> QED
        BY <2>1
<1>6. whole = Step(whole)
    <2> HIDE DEF Step
    <2> QED
        BY <1>5
<1>7. \A n \in 0..N : whole[n] = (IF n = 0 THEN 0 ELSE whole[n - 1] + ns[n])
    BY <1>6
<1> DEFINE Same == {n \in Nat : n <= N /\ whole[n] = g[n]}
<1>8. 0 \in Same /\ \A n \in 1..N : n - 1 \in Same => n \in Same
    <2>1. whole[0] = 0
        <3> HIDE DEF whole
        <3> QED
            BY <1>7
    <2>2. ASSUME NEW n \in 1..N, n - 1 \in Same PROVE n \in Same
        <3> HIDE DEF whole
        <3>1. whole[n] = whole[n - 1] + ns[n] /\ whole[n - 1] = g[n - 1] /\ n \in Nat /\ n <= N
            BY <1>7, <2>2
        <3> QED
            BY <3>1, <1>4
    <2> HIDE DEF whole
    <2> QED
        BY <2>1, <2>2, <1>3
<1>9. whole[N] = g[N]
    <2>1. N \in Same
        <3> HIDE DEF Same
        <3>1. \A n \in 0..N : n \in Same
            BY <1>8, Climb
        <3> QED
            BY <3>1
    <2> QED
        BY <2>1
<1> QED
    BY <1>3, <1>4, <1>9 DEF SumOf

\* The rows of a well-formed artifact.
LEMMA MemberFormed ==
    ASSUME NEW a, Wellformed(a), NEW i \in 1..Len(a.members)
    PROVE  /\ Len(a.members) \in Nat
           /\ a.members[i] \in ToSet(a.members)
           /\ Len(RowsAt(a, i)) \in Nat /\ DOMAIN RowsAt(a, i) = 1..Len(RowsAt(a, i))
           /\ \A n \in 1..Len(RowsAt(a, i)) : RowsAt(a, i)[n] \in ToSet(RowsAt(a, i))
<1>1. Len(a.members) \in Nat /\ a.members[i] \in ToSet(a.members)
    BY DEF Wellformed, ToSet
<1>2. RowsAt(a, i) \in Seq(ToSet(RowsAt(a, i)))
    BY <1>1, BytesAssumption DEF Wellformed, RowsAt
<1> DEFINE rows == RowsAt(a, i)
           X == ToSet(RowsAt(a, i))
<1>3. rows \in Seq(X)
    BY <1>2
<1> HIDE DEF rows, X
<1>4. Len(rows) \in Nat /\ DOMAIN rows = 1..Len(rows) /\ \A n \in 1..Len(rows) : rows[n] \in X
    BY <1>3
<1> QED
    BY <1>1, <1>4 DEF rows, X

\* When every member has the rows it declares, the places of a table's rows are as many
\* as its members declare together.
LEMMA PlacesCounted ==
    ASSUME NEW a, Wellformed(a), NEW t,
           \A i \in Listing(a, t) : Len(RowsAt(a, i)) = a.members[i].count
    PROVE  /\ IsFiniteSet(Places(a, t))
           /\ Cardinality(Places(a, t))
                = SumOf([i \in 1..Len(a.members) |-> IF i \in Listing(a, t) THEN a.members[i].count ELSE 0])
<1> DEFINE N == Len(a.members)
           counts == [i \in 1..N |-> IF i \in Listing(a, t) THEN a.members[i].count ELSE 0]
           Upto(n) == UNION {{i} \X DOMAIN RowsAt(a, i) : i \in Listing(a, t) \cap (1..n)}
<1>1. N \in Nat
    BY DEF Wellformed
<1>2. \A i \in Listing(a, t) : i \in 1..N /\ a.members[i].count \in Nat /\ DOMAIN RowsAt(a, i) = 1..a.members[i].count
    BY MemberFormed DEF Listing
<1>3. counts \in [1..N -> Nat] /\ Len(counts) = N
    BY <1>1, <1>2
<1>4. \A i \in 1..N : counts[i] = (IF i \in Listing(a, t) THEN a.members[i].count ELSE 0)
    OBVIOUS
<1> HIDE DEF counts, N
<1>5. PICK g \in [0..N -> Nat] :
        g[0] = 0 /\ (\A n \in 1..N : g[n] = g[n - 1] + counts[n]) /\ SumOf(counts) = g[N]
    BY <1>1, <1>3, Summed
<1> DEFINE S == {n \in Nat : n <= N /\ IsFiniteSet(Upto(n)) /\ Cardinality(Upto(n)) = g[n]}
<1>6. 0 \in S
    <2>1. Upto(0) = {}
        OBVIOUS
    <2> HIDE DEF Upto
    <2>2. IsFiniteSet(Upto(0)) /\ Cardinality(Upto(0)) = 0
        BY <2>1, FS_EmptySet
    <2> QED
        BY <2>2, <1>1, <1>5
<1>7. ASSUME NEW n \in 1..N, n - 1 \in S PROVE n \in S
    <2> DEFINE before == Upto(n - 1)
    <2>1. IsFiniteSet(before) /\ Cardinality(before) = g[n - 1] /\ n \in Nat /\ n <= N /\ g[n - 1] \in Nat
        BY <1>1, <1>5, <1>7
    <2>2. CASE n \notin Listing(a, t)
        <3>1. Listing(a, t) \cap (1..n) = Listing(a, t) \cap (1..(n - 1))
            BY <2>2, <1>2
        <3>2. Upto(n) = before
            BY <3>1
        <3>3. g[n] = g[n - 1]
            BY <2>1, <2>2, <1>4, <1>5
        <3> QED
            BY <2>1, <3>2, <3>3
    <2>3. CASE n \in Listing(a, t)
        <3> DEFINE k == a.members[n].count
                   more == {n} \X (1..k)
        <3>1. k \in Nat /\ DOMAIN RowsAt(a, n) = 1..k
            BY <2>3, <1>2
        <3>2. Upto(n) = before \cup more
            <4>1. Listing(a, t) \cap (1..n) = (Listing(a, t) \cap (1..(n - 1))) \cup {n}
                BY <2>3, <1>2
            <4> QED
                BY <4>1, <3>1
        <3>3. before \cap more = {}
            OBVIOUS
        <3> HIDE DEF before, k
        <3>4. IsFiniteSet(more) /\ Cardinality(more) = k
            <4>1. IsFiniteSet(1..k) /\ Cardinality(1..k) = k
                BY <3>1, FS_Interval
            <4>2. IsFiniteSet({n}) /\ Cardinality({n}) = 1
                BY FS_Singleton
            <4> DEFINE one == {n}
                       all == 1..k
            <4>3. IsFiniteSet(one) /\ Cardinality(one) = 1 /\ IsFiniteSet(all) /\ Cardinality(all) = k
                BY <4>1, <4>2
            <4>4. more = one \X all
                OBVIOUS
            <4> HIDE DEF one, all, more
            <4>5. IsFiniteSet(one \X all) /\ Cardinality(one \X all) = Cardinality(one) * Cardinality(all)
                BY <4>3, FS_Product
            <4> QED
                BY <3>1, <4>3, <4>4, <4>5
        <3> HIDE DEF more
        <3>5. IsFiniteSet(before \cup more) /\ Cardinality(before \cup more) = g[n - 1] + k
            <4>1. Cardinality(before \cap more) = 0
                BY <3>3, FS_EmptySet
            <4>2. /\ IsFiniteSet(before \cup more)
                  /\ Cardinality(before \cup more) = Cardinality(before) + Cardinality(more) - Cardinality(before \cap more)
                BY <2>1, <3>4, FS_Union
            <4> QED
                BY <2>1, <3>1, <3>4, <4>1, <4>2
        <3>6. g[n] = g[n - 1] + k
            BY <2>3, <1>4, <1>5 DEF k
        <3> HIDE DEF Upto
        <3> QED
            BY <2>1, <3>2, <3>5, <3>6
    <2> QED
        BY <2>2, <2>3
<1>8. N \in S
    <2> HIDE DEF S
    <2>1. \A n \in 0..N : n \in S
        BY <1>1, <1>6, <1>7, Climb
    <2> QED
        BY <1>1, <2>1
<1>9. Upto(N) = Places(a, t)
    <2>1. Listing(a, t) \cap (1..N) = Listing(a, t)
        BY <1>2
    <2> QED
        BY <2>1 DEF Places
<1> QED
    BY <1>5, <1>8, <1>9 DEF counts, N

-----------------------------------------------------------------------------
(* The receipts.                                                           *)

\* What matching may have come to over the receipts H.
Matches(H) == [ok : BOOLEAN, used : SUBSET H]

\* What x says after n rows that found receipts, from m on.
Told(H, m, found, x, n) ==
    /\ x \in Matches(H)
    /\ x.used = m.used \cup UNION {found[k] : k \in 1..n}
    /\ x.ok =>
         /\ m.ok
         /\ \A k \in 1..n : found[k] # {} /\ found[k] \cap m.used = {}
         /\ \A k, l \in 1..n : k # l => found[k] \cap found[l] = {}

\* One row after the other takes its receipts: what is used in the end is all of them,
\* and if no row was refused, each had some, none used before and none of another row's.
LEMMA RowsMatch ==
    ASSUME NEW H, NEW L \in Nat, NEW found, \A n \in 1..L : found[n] \in SUBSET H,
           NEW m \in Matches(H),
           NEW after, after[0] = m, \A n \in 1..L : after[n] = MatchRow(after[n - 1], found[n])
    PROVE  \A n \in 0..L : Told(H, m, found, after[n], n)
<1> DEFINE S == {n \in 0..L : Told(H, m, found, after[n], n)}
<1>1. 0 \in S
    <2>1. Told(H, m, found, m, 0)
        BY DEF Told
    <2> QED
        BY <2>1
<1>2. ASSUME NEW n \in 1..L, n - 1 \in S PROVE n \in S
    <2> DEFINE x == after[n - 1]
               y == after[n]
    <2>1. y = MatchRow(x, found[n]) /\ n \in Nat /\ found[n] \in SUBSET H
        BY <1>2
    <2> HIDE DEF x, y
    <2>0. /\ x \in Matches(H)
          /\ x.used = m.used \cup UNION {found[k] : k \in 1..(n - 1)}
          /\ x.ok =>
               /\ m.ok
               /\ \A k \in 1..(n - 1) : found[k] # {} /\ found[k] \cap m.used = {}
               /\ \A k, l \in 1..(n - 1) : k # l => found[k] \cap found[l] = {}
        BY <1>2 DEF x, Told
    <2>2. /\ y.used = x.used \cup found[n]
          /\ y.ok <=> (x.ok /\ found[n] # {} /\ found[n] \cap x.used = {})
          /\ y \in Matches(H)
        BY <2>0, <2>1 DEF MatchRow, Matches
    <2>3. 1..n = (1..(n - 1)) \cup {n}
        BY <2>1
    <2>4. y.used = m.used \cup UNION {found[k] : k \in 1..n}
        BY <2>0, <2>2, <2>3
    <2>5. ASSUME y.ok
          PROVE  /\ m.ok
                 /\ \A k \in 1..n : found[k] # {} /\ found[k] \cap m.used = {}
                 /\ \A k, l \in 1..n : k # l => found[k] \cap found[l] = {}
        <3>1. /\ x.ok /\ found[n] # {} /\ found[n] \cap m.used = {}
              /\ \A k \in 1..(n - 1) : found[n] \cap found[k] = {}
            BY <2>0, <2>2, <2>5
        <3>2. /\ m.ok /\ \A k \in 1..(n - 1) : found[k] # {} /\ found[k] \cap m.used = {}
              /\ \A k, l \in 1..(n - 1) : k # l => found[k] \cap found[l] = {}
            BY <2>0, <3>1
        <3>3. \A k \in 1..n : k = n \/ k \in 1..(n - 1)
            BY <2>1
        <3>4. \A k \in 1..n : found[k] # {} /\ found[k] \cap m.used = {}
            BY <3>1, <3>2, <3>3
        <3>5. ASSUME NEW k \in 1..n, NEW l \in 1..n, k # l PROVE found[k] \cap found[l] = {}
            BY <3>1, <3>2, <3>3, <3>5
        <3> QED
            BY <3>2, <3>4, <3>5
    <2>6. Told(H, m, found, y, n)
        BY <2>2, <2>4, <2>5 DEF Told
    <2> QED
        BY <2>6 DEF y
<1>3. \A n \in 0..L : n \in S
    <2> HIDE DEF S
    <2> QED
        BY <1>1, <1>2, Climb
<1> QED
    BY <1>3

\* What the rows of member i find, place by place.
FoundAt(a, held, p) == AcceptedFor(held, a.members[p[1]].table, RecordAt(a, p))
PlacesIn(a, i) == {i} \X DOMAIN RowsAt(a, i)

\* The places in S each had receipts that no other of them had.
Served(a, held, S) ==
    /\ \A p \in S : FoundAt(a, held, p) # {}
    /\ \A p, q \in S : p # q => FoundAt(a, held, p) \cap FoundAt(a, held, q) = {}

\* A member's rows take receipts that no row before them had, nor another row of theirs.
LEMMA MemberMatches ==
    ASSUME NEW a, Wellformed(a), NEW held, NEW i \in 1..Len(a.members), NEW m \in Matches(held)
    PROVE  LET y == MatchMember(a, held, i, m) IN
           /\ y \in Matches(held)
           /\ y.used = m.used \cup UNION {FoundAt(a, held, p) : p \in PlacesIn(a, i)}
           /\ y.ok => /\ m.ok /\ Served(a, held, PlacesIn(a, i))
                      /\ \A p \in PlacesIn(a, i) : FoundAt(a, held, p) \cap m.used = {}
<1> DEFINE rows == RowsAt(a, i)
           L == Len(rows)
           t == a.members[i].table
           found == [n \in 1..L |-> AcceptedFor(held, t, rows[n])]
           X == Matches(held)
           F == [n \in 1..L |-> [x \in X |-> MatchRow(x, found[n])]]
           Step(f) == [n \in 0..L |-> IF n = 0 THEN m ELSE MatchRow(f[n - 1], AcceptedFor(held, t, rows[n]))]
           after == CHOOSE f : f = Step(f)
<1>1. L \in Nat /\ DOMAIN rows = 1..L
    BY MemberFormed
<1>2. \A n \in 1..L : found[n] = AcceptedFor(held, t, rows[n]) /\ found[n] \in SUBSET held
    BY DEF AcceptedFor
<1> HIDE DEF L, rows, found
<1>3. F \in [1..L -> [X -> X]] /\ \A n \in 1..L : \A x \in X : F[n][x] = MatchRow(x, found[n])
    <2>1. \A n \in 1..L : \A x \in X : MatchRow(x, found[n]) \in X
        BY <1>2 DEF MatchRow, Matches
    <2> HIDE DEF X
    <2> QED
        BY <2>1
<1> HIDE DEF F, X
<1>4. PICK g \in [0..L -> X] : g[0] = m /\ \A n \in 1..L : g[n] = F[n][g[n - 1]]
    <2>1. m \in X
        BY DEF X
    <2> HIDE DEF Step, after
    <2> QED
        BY <1>1, <1>3, <2>1, Iterated
<1>5. \A n \in 1..L : g[n] = MatchRow(g[n - 1], found[n])
    <2> TAKE n \in 1..L
    <2>1. n - 1 \in 0..L
        BY <1>1
    <2> HIDE DEF Step, after
    <2> QED
        BY <1>3, <1>4, <2>1
<1>6. g = Step(g)
    <2>1. \A n \in 0..L : g[n] = (IF n = 0 THEN m ELSE MatchRow(g[n - 1], AcceptedFor(held, t, rows[n])))
        BY <1>1, <1>2, <1>4, <1>5
    <2> QED
        BY <2>1
<1>7. after = Step(after)
    <2> HIDE DEF Step
    <2> QED
        BY <1>6
<1>8. after[0] = m /\ \A n \in 1..L : after[n] = MatchRow(after[n - 1], found[n])
    <2>1. \A n \in 0..L : after[n] = (IF n = 0 THEN m ELSE MatchRow(after[n - 1], AcceptedFor(held, t, rows[n])))
        BY <1>7
    <2>2. after[0] = m
        <3>1. 0 \in 0..L
            BY <1>1
        <3> HIDE DEF after
        <3> QED
            BY <2>1, <3>1
    <2>3. ASSUME NEW n \in 1..L PROVE after[n] = MatchRow(after[n - 1], found[n])
        <3>1. n \in 0..L /\ n # 0
            BY <1>1
        <3>2. found[n] = AcceptedFor(held, t, rows[n])
            BY <1>2
        <3> HIDE DEF after
        <3> QED
            BY <2>1, <3>1, <3>2
    <2> QED
        BY <2>2, <2>3
<1> DEFINE y == after[L]
<1>9. y = MatchMember(a, held, i, m)
    BY DEF MatchMember, L, rows
<1> HIDE DEF after, Step
<1>10. /\ y \in Matches(held)
       /\ y.used = m.used \cup UNION {found[k] : k \in 1..L}
       /\ y.ok => /\ m.ok
                  /\ \A k \in 1..L : found[k] # {} /\ found[k] \cap m.used = {}
                  /\ \A k, l \in 1..L : k # l => found[k] \cap found[l] = {}
    <2>1. L \in 0..L /\ L \in Nat
        BY <1>1
    <2>2. \A n \in 1..L : found[n] \in SUBSET held
        BY <1>2
    <2>3. after[0] = m /\ \A n \in 1..L : after[n] = MatchRow(after[n - 1], found[n])
        BY <1>8
    <2>4. \A n \in 0..L : Told(held, m, found, after[n], n)
        BY <2>1, <2>2, <2>3, RowsMatch
    <2> QED
        BY <2>1, <2>4 DEF Told
<1> HIDE DEF y
<1>11. \A n \in 1..L : <<i, n>> \in PlacesIn(a, i) /\ FoundAt(a, held, <<i, n>>) = found[n]
    BY <1>1, <1>2 DEF PlacesIn, FoundAt, RecordAt, rows
<1>12. \A p \in PlacesIn(a, i) : p[2] \in 1..L /\ p = <<i, p[2]>>
    BY <1>1 DEF PlacesIn, rows
<1>13. UNION {FoundAt(a, held, p) : p \in PlacesIn(a, i)} = UNION {found[k] : k \in 1..L}
    <2>1. \A p \in PlacesIn(a, i) : FoundAt(a, held, p) = found[p[2]] /\ p[2] \in 1..L
        BY <1>11, <1>12
    <2> QED
        BY <2>1, <1>11
<1>14. ASSUME y.ok
       PROVE  /\ m.ok /\ Served(a, held, PlacesIn(a, i))
              /\ \A p \in PlacesIn(a, i) : FoundAt(a, held, p) \cap m.used = {}
    <2>1. \A p \in PlacesIn(a, i) : FoundAt(a, held, p) = found[p[2]] /\ p[2] \in 1..L
        BY <1>11, <1>12
    <2>2. \A p, q \in PlacesIn(a, i) : p # q => p[2] # q[2]
        BY <1>12
    <2> QED
        BY <1>10, <1>14, <2>1, <2>2 DEF Served
<1> QED
    BY <1>9, <1>10, <1>13, <1>14

\* The places of the rows of the subject tables in the first n members.
SubjectsUpto(a, n) == UNION {PlacesIn(a, i) : i \in {k \in 1..n : a.members[k].table # ReceiptKey}}

\* Member after member.
LEMMA SubjectsMatch ==
    ASSUME NEW a, Wellformed(a), NEW held
    PROVE  LET y == Matched(a, held)
               S == SubjectsUpto(a, Len(a.members)) IN
           /\ y.used = UNION {FoundAt(a, held, p) : p \in S}
           /\ y.ok => Served(a, held, S)
<1> DEFINE N == Len(a.members)
           X == Matches(held)
           Subject(i) == a.members[i].table # ReceiptKey
           F == [i \in 1..N |-> [x \in X |-> IF a.members[i].table = ReceiptKey THEN x ELSE MatchMember(a, held, i, x)]]
           Step(f) == [i \in 0..N |-> IF i = 0 THEN Unused
                                      ELSE IF a.members[i].table = ReceiptKey THEN f[i - 1]
                                      ELSE MatchMember(a, held, i, f[i - 1])]
           after == CHOOSE f : f = Step(f)
           R(n) == SubjectsUpto(a, n)
<1>1. N \in Nat
    BY DEF Wellformed
<1>2. Unused \in X /\ Unused.used = {} /\ Unused.ok = TRUE
    BY DEF Unused, Matches
<1>3. \A i \in 1..N : \A x \in X : MatchMember(a, held, i, x) \in X
    BY MemberMatches
<1> HIDE DEF X, N
<1>4. /\ F \in [1..N -> [X -> X]]
      /\ \A i \in 1..N : \A x \in X : F[i][x] = (IF a.members[i].table = ReceiptKey THEN x ELSE MatchMember(a, held, i, x))
    BY <1>3
<1> HIDE DEF F
<1>5. PICK g \in [0..N -> X] : g[0] = Unused /\ \A n \in 1..N : g[n] = F[n][g[n - 1]]
    <2> HIDE DEF Step, after, R
    <2> QED
        BY <1>1, <1>2, <1>4, Iterated
<1>6. \A n \in 1..N : g[n] = (IF a.members[n].table = ReceiptKey THEN g[n - 1] ELSE MatchMember(a, held, n, g[n - 1]))
    <2> TAKE n \in 1..N
    <2>1. n - 1 \in 0..N
        BY <1>1
    <2> HIDE DEF Step, after, R
    <2> QED
        BY <1>4, <1>5, <2>1
<1>7. g = Step(g)
    <2>1. \A n \in 0..N : g[n] = (IF n = 0 THEN Unused
                                  ELSE IF a.members[n].table = ReceiptKey THEN g[n - 1]
                                  ELSE MatchMember(a, held, n, g[n - 1]))
        BY <1>1, <1>5, <1>6
    <2> QED
        BY <2>1
<1>8. after = Step(after)
    <2> HIDE DEF Step
    <2> QED
        BY <1>7
<1>9. /\ after[0] = Unused
      /\ \A n \in 1..N : after[n] = (IF Subject(n) THEN MatchMember(a, held, n, after[n - 1]) ELSE after[n - 1])
    <2>1. \A n \in 0..N : after[n] = (IF n = 0 THEN Unused
                                      ELSE IF a.members[n].table = ReceiptKey THEN after[n - 1]
                                      ELSE MatchMember(a, held, n, after[n - 1]))
        BY <1>8
    <2> HIDE DEF after
    <2> QED
        BY <1>1, <2>1
<1>10. after[N] = Matched(a, held)
    BY DEF Matched, N
<1> HIDE DEF after, Step, R
<1> DEFINE Paired(x, n) ==
             /\ x \in X
             /\ x.used = UNION {FoundAt(a, held, p) : p \in R(n)}
             /\ x.ok => Served(a, held, R(n))
           S == {n \in 0..N : Paired(after[n], n)}
<1>11. 0 \in S
    <2>1. R(0) = {}
        BY DEF R, SubjectsUpto
    <2>2. Paired(Unused, 0)
        BY <2>1, <1>2 DEF Served
    <2> HIDE DEF Paired
    <2> QED
        BY <1>1, <1>9, <2>2
<1>12. ASSUME NEW n \in 1..N, n - 1 \in S PROVE n \in S
    <2> DEFINE x == after[n - 1]
               y == after[n]
    <2>1. Paired(x, n - 1)
        BY <1>12
    <2>2. y = (IF Subject(n) THEN MatchMember(a, held, n, x) ELSE x) /\ n \in 0..N
        BY <1>1, <1>9
    <2> HIDE DEF x, y
    <2>3. R(n) = IF Subject(n) THEN R(n - 1) \cup PlacesIn(a, n) ELSE R(n - 1)
        <3>1. \A k \in 1..n : k = n \/ k \in 1..(n - 1)
            BY <1>1
        <3>2. n \in 1..n /\ \A k \in 1..(n - 1) : k \in 1..n
            BY <1>1
        <3>3. {k \in 1..n : Subject(k)} = IF Subject(n) THEN {k \in 1..(n - 1) : Subject(k)} \cup {n} ELSE {k \in 1..(n - 1) : Subject(k)}
            BY <3>1, <3>2
        <3> QED
            BY <3>3 DEF R, SubjectsUpto
    <2>4. CASE ~ Subject(n)
        <3>1. y = x /\ R(n) = R(n - 1)
            BY <2>2, <2>3, <2>4
        <3>2. Paired(y, n)
            BY <2>1, <3>1
        <3> HIDE DEF Paired
        <3> QED
            BY <2>2, <3>2 DEF y
    <2>5. CASE Subject(n)
        <3>1. y = MatchMember(a, held, n, x) /\ R(n) = R(n - 1) \cup PlacesIn(a, n)
            BY <2>2, <2>3, <2>5
        <3>2. /\ y \in X
              /\ y.used = x.used \cup UNION {FoundAt(a, held, p) : p \in PlacesIn(a, n)}
              /\ y.ok => /\ x.ok /\ Served(a, held, PlacesIn(a, n))
                         /\ \A p \in PlacesIn(a, n) : FoundAt(a, held, p) \cap x.used = {}
            <4>1. x \in Matches(held) /\ n \in 1..Len(a.members)
                BY <2>1 DEF X, N
            <4> HIDE DEF Paired
            <4> QED
                BY <3>1, <4>1, MemberMatches DEF X
        <3>3. y.used = UNION {FoundAt(a, held, p) : p \in R(n)}
            BY <2>1, <3>1, <3>2
        <3>4. ASSUME y.ok PROVE Served(a, held, R(n))
            <4>1. Served(a, held, R(n - 1)) /\ Served(a, held, PlacesIn(a, n))
                BY <2>1, <3>2, <3>4
            <4>2. \A p \in PlacesIn(a, n), q \in R(n - 1) : FoundAt(a, held, p) \cap FoundAt(a, held, q) = {}
                BY <2>1, <3>2, <3>4
            <4> QED
                BY <3>1, <4>1, <4>2 DEF Served
        <3>5. Paired(y, n)
            BY <3>2, <3>3, <3>4
        <3> HIDE DEF Paired
        <3> QED
            BY <2>2, <3>5 DEF y
    <2> QED
        BY <2>4, <2>5
<1>13. Paired(after[N], N)
    <2>1. \A n \in 0..N : n \in S
        <3> HIDE DEF S
        <3> QED
            BY <1>1, <1>11, <1>12, Climb
    <2> HIDE DEF Paired
    <2> QED
        BY <1>1, <2>1
<1> QED
    BY <1>10, <1>13 DEF R, N

\* Inserted receipts are told apart by their identity, and accepted ones by their subject.
LEMMA InsertedApart ==
    ASSUME NEW a, Inserted(a), Len(ReceiptRows(a)) \in Nat
    PROVE  LET rs == ReceiptRows(a) IN
           \A k, l \in 1..Len(rs) :
             \/ rs[k].id = rs[l].id
             \/ /\ rs[k].outcome = "accepted" /\ rs[l].outcome = "accepted"
                /\ rs[k].table = rs[l].table /\ rs[k].key = rs[l].key
             => k = l
<1> DEFINE rs == ReceiptRows(a)
           L == Len(rs)
           Like(k, l) ==
             \/ rs[k].id = rs[l].id
             \/ /\ rs[k].outcome = "accepted" /\ rs[l].outcome = "accepted"
                /\ rs[k].table = rs[l].table /\ rs[k].key = rs[l].key
<1>1. \A k, l \in 1..L : k < l => ~ Like(k, l)
    <2> SUFFICES ASSUME NEW k \in 1..L, NEW l \in 1..L, k < l, Like(k, l) PROVE FALSE
        OBVIOUS
    <2>1. rs[k] \in HeldBy(rs, l - 1)
        BY DEF HeldBy
    <2>2. Collides(HeldBy(rs, l - 1), rs[l])
        BY <2>1 DEF Collides
    <2> QED
        BY <2>2 DEF Inserted
<1>2. \A k, l \in 1..L : Like(k, l) => Like(l, k)
    OBVIOUS
<1> HIDE DEF rs
<1>3. ASSUME NEW k \in 1..L, NEW l \in 1..L, Like(k, l) PROVE k = l
    <2> HIDE DEF Like
    <2>1. ~ (k < l) /\ ~ (l < k)
        BY <1>1, <1>2, <1>3
    <2>2. k \in Int /\ l \in Int
        OBVIOUS
    <2> QED
        BY <2>1, <2>2
<1> QED
    BY <1>3 DEF rs

\* The subjects are the rows of the tables, each of the table its member is in.
LEMMA SubjectPlaces ==
    ASSUME NEW a, Wellformed(a), a.policies # Blank, Selectable(a)
    PROVE  LET S == SubjectsUpto(a, Len(a.members)) IN
           /\ \A t \in DOMAIN a.tables : \A p \in Places(a, t) : p \in S /\ a.members[p[1]].table = t
           /\ \A p \in S : \E t \in DOMAIN a.tables : p \in Places(a, t)
<1> DEFINE N == Len(a.members)
           S == SubjectsUpto(a, N)
<1>1. N \in Nat /\ DOMAIN a.tables = Grouped(a) \ {ReceiptKey}
    BY DEF Wellformed, Selectable, Subjects
<1>2. \A t, p : p \in Places(a, t) => p[1] \in 1..N /\ a.members[p[1]].table = t /\ p \in PlacesIn(a, p[1])
    BY DEF Places, Listing, PlacesIn
<1>3. ASSUME NEW t \in DOMAIN a.tables, NEW p \in Places(a, t)
      PROVE  p \in S /\ a.members[p[1]].table = t
    <2>1. p[1] \in {k \in 1..N : a.members[k].table # ReceiptKey} /\ p \in PlacesIn(a, p[1])
        BY <1>1, <1>2
    <2> QED
        BY <2>1, <1>2 DEF SubjectsUpto
<1>4. ASSUME NEW p \in S
      PROVE  \E t \in DOMAIN a.tables : p \in Places(a, t)
    <2>1. PICK i \in 1..N : a.members[i].table # ReceiptKey /\ p \in PlacesIn(a, i)
        BY DEF SubjectsUpto
    <2>2. a.members[i].table \in DOMAIN a.tables
        <3>1. a.members[i] \in ToSet(a.members)
            BY MemberFormed
        <3> QED
            BY <1>1, <2>1, <3>1 DEF Grouped
    <2>3. p \in Places(a, a.members[i].table)
        BY <2>1 DEF Places, Listing, PlacesIn
    <2> QED
        BY <2>2, <2>3
<1> QED
    BY <1>3, <1>4

LEMMA ReceiptsRight ==
    ASSUME NEW a, Wellformed(a), a.policies # Blank, Selectable(a), ReceiptsVerified(a)
    PROVE  ReceiptsExact(a)
<1> DEFINE rs == ReceiptRows(a)
           L == Len(rs)
           held == HeldBy(rs, L)
           S == SubjectsUpto(a, Len(a.members))
           accepted == {k \in DOMAIN rs : rs[k].outcome = "accepted"}
           About(r, t, row) == r.table = t /\ r.key = row.key /\ r.version = row
<1>1. L \in Nat /\ DOMAIN rs = 1..L
    <2>1. PICK i \in 1..Len(a.members) : Listing(a, ReceiptKey) = {i}
        BY DEF Selectable, ReceiptMemberOK
    <2>2. ReceiptMember(a) = a.members[i]
        BY <2>1 DEF ReceiptMember
    <2>3. rs = RowsAt(a, i)
        BY <2>2 DEF ReceiptRows, RowsAt
    <2> QED
        BY <2>3, MemberFormed
<1>2. Inserted(a) /\ Matched(a, held).ok /\ {h \in held : h.outcome = "accepted"} \subseteq Matched(a, held).used
    BY DEF ReceiptsVerified
<1>3. Matched(a, held).used = UNION {FoundAt(a, held, p) : p \in S} /\ Served(a, held, S)
    BY <1>2, SubjectsMatch
<1>4. \A k, l \in 1..L :
        \/ rs[k].id = rs[l].id
        \/ /\ rs[k].outcome = "accepted" /\ rs[l].outcome = "accepted"
           /\ rs[k].table = rs[l].table /\ rs[k].key = rs[l].key
        => k = l
    BY <1>1, <1>2, InsertedApart
<1>5. /\ \A t \in DOMAIN a.tables : \A p \in Places(a, t) : p \in S /\ a.members[p[1]].table = t
      /\ \A p \in S : \E t \in DOMAIN a.tables : p \in Places(a, t)
    BY SubjectPlaces
<1>6. \A t \in DOMAIN a.tables : \A p \in Places(a, t) :
        FoundAt(a, held, p) = {h \in held : h.outcome = "accepted" /\ About(h, t, RecordAt(a, p))}
    BY <1>5 DEF FoundAt, AcceptedFor
<1>7. \A h : h \in held <=> \E k \in 1..L : h = rs[k]
    BY DEF HeldBy
<1>8. \A k \in 1..L : ReceiptSound(a, rs[k])
    BY <1>2 DEF Inserted
<1> HIDE DEF rs, held, S
<1>9. ASSUME NEW t \in DOMAIN a.tables, NEW p \in Places(a, t)
      PROVE  Cardinality({k \in accepted : About(rs[k], t, RecordAt(a, p))}) = 1
    <2> DEFINE mine == {k \in accepted : About(rs[k], t, RecordAt(a, p))}
    <2>1. PICK h \in held : h.outcome = "accepted" /\ About(h, t, RecordAt(a, p))
        <3>1. FoundAt(a, held, p) # {}
            BY <1>3, <1>5 DEF Served
        <3> QED
            BY <3>1, <1>6
    <2>2. PICK k \in 1..L : h = rs[k]
        BY <1>7
    <2>3. k \in mine
        BY <1>1, <2>1, <2>2
    <2>4. \A l \in mine : l = k
        BY <1>1, <1>4, <2>1, <2>2
    <2>5. mine = {k}
        BY <2>3, <2>4
    <2> HIDE DEF mine
    <2> QED
        BY <2>5, FS_Singleton DEF mine
<1>10. ASSUME NEW k \in accepted
       PROVE  \E t \in DOMAIN a.tables : Cardinality({p \in Places(a, t) : About(rs[k], t, RecordAt(a, p))}) = 1
    <2>1. k \in 1..L /\ rs[k].outcome = "accepted" /\ rs[k] \in held
        BY <1>1, <1>7
    <2>2. PICK p \in S : rs[k] \in FoundAt(a, held, p)
        BY <1>2, <1>3, <2>1
    <2>3. PICK t \in DOMAIN a.tables : p \in Places(a, t)
        BY <1>5
    <2> DEFINE mine == {q \in Places(a, t) : About(rs[k], t, RecordAt(a, q))}
    <2>4. p \in mine
        BY <1>6, <2>2, <2>3
    <2>5. ASSUME NEW q \in mine PROVE q = p
        <3>1. q \in S /\ rs[k] \in FoundAt(a, held, q)
            BY <1>5, <1>6, <2>1
        <3> QED
            BY <1>3, <2>2, <3>1 DEF Served
    <2>6. mine = {p}
        BY <2>4, <2>5
    <2> HIDE DEF mine
    <2>7. Cardinality(mine) = 1
        BY <2>6, FS_Singleton
    <2> QED
        BY <2>7 DEF mine
<1>11. \A k \in DOMAIN rs : rs[k].sound
    BY <1>1, <1>8 DEF ReceiptSound
<1> QED
    BY <1>9, <1>10, <1>11 DEF ReceiptsExact, rs

\* An artifact that passes the checks is complete, agrees with its publication, has the
\* rows it declares where their keys say, and matches its receipts row for row.
LEMMA VerifiedTrustworthy ==
    ASSUME NEW a, Wellformed(a), Selectable(a), Verified(a)
    PROVE  Trustworthy(a)
<1>1. a.complete /\ IndexAgrees(a)
    BY DEF Selectable, Verified
<1>2. a.policies # Blank => ReceiptsExact(a)
    BY ReceiptsRight DEF Verified
<1>3. ASSUME NEW t \in DOMAIN a.tables
      PROVE  /\ Cardinality(Places(a, t)) = a.tables[t].rows
             /\ \A p \in Places(a, t) : a.members[p[1]].part \in {Blank, RecordAt(a, p).part}
    <2>1. TableSound(a, t)
        BY DEF Verified
    <2>2. \A i \in Listing(a, t) : MemberSound(a.members[i], a.tables[t])
        BY <2>1 DEF TableSound
    <2>3. \A i \in Listing(a, t) : Len(RowsAt(a, i)) = a.members[i].count
        BY <2>2 DEF MemberSound, RowsAt
    <2>4. Cardinality(Places(a, t)) = a.tables[t].rows
        <3>1. SumOf([i \in 1..Len(a.members) |-> IF i \in Listing(a, t) THEN a.members[i].count ELSE 0]) = a.tables[t].rows
            BY <2>1 DEF TableSound
        <3> QED
            BY <2>3, <3>1, PlacesCounted
    <2>5. ASSUME NEW p \in Places(a, t)
          PROVE  a.members[p[1]].part \in {Blank, RecordAt(a, p).part}
        <3> DEFINE i == p[1]
                   m == a.members[i]
        <3>1. i \in Listing(a, t) /\ i \in 1..Len(a.members) /\ p[2] \in DOMAIN RowsAt(a, i)
            BY DEF Places, Listing
        <3>2. CASE ~ a.tables[t].split
            BY <2>1, <3>1, <3>2 DEF TableSound
        <3>3. CASE a.tables[t].split
            <4>1. HoldsOnly(GBytes[m.digest], m.part)
                BY <2>2, <3>1, <3>3 DEF MemberSound
            <4>2. RecordAt(a, p) \in ToSet(GBytes[m.digest].rows)
                BY <3>1, MemberFormed DEF RecordAt, RowsAt
            <4>3. CASE \A r \in ToSet(GBytes[m.digest].rows) : r.part = m.part
                BY <4>2, <4>3
            <4>4. CASE StatisticsProve(GBytes[m.digest], m.part)
                <5>1. m.digest \in DOMAIN GBytes
                    BY <3>1, MemberFormed DEF Wellformed
                <5>2. PICK g \in ToSet(GBytes[m.digest].groups) : g.low = g.high /\ g.nulls = 0 => RecordAt(a, p).part = g.low
                    BY <4>2, <4>4, <5>1, BytesAssumption DEF StatisticsProve
                <5> QED
                    BY <4>4, <5>2 DEF StatisticsProve
            <4> QED
                BY <4>1, <4>3, <4>4 DEF HoldsOnly
        <3> QED
            BY <3>2, <3>3
    <2> QED
        BY <2>4, <2>5
<1> QED
    BY <1>1, <1>2, <1>3 DEF Trustworthy

-----------------------------------------------------------------------------
(* The layers of table-shaped states.                                      *)

\* A state's layers l, over the index and the membership of its base, hold the rows given:
\* each at its occurrence, every occurrence in the index under the state that had it first,
\* and the report counts add up.
Built(l, rows, was, old, s) ==
    /\ l.table = rows
    /\ l.membership = Mint(rows, l.columns)
    /\ DOMAIN l.index = DOMAIN old \cup Range(l.membership)
    /\ \A o \in DOMAIN l.index : l.index[o] = IF o \in DOMAIN old THEN old[o] ELSE s
    /\ l.counts.added = Cardinality(DOMAIN rows \ DOMAIN was)
    /\ l.counts.removed = Cardinality(DOMAIN was \ DOMAIN rows)
    /\ l.counts.changed = Cardinality({k \in DOMAIN rows \cap DOMAIN was : l.membership[k] # was[k]})
    /\ l.counts.generated = Cardinality(DOMAIN l.index \ DOMAIN old)

\* What a state can be built over: finite layers that agree.
Sound(l) ==
    /\ IsFiniteSet(DOMAIN l.table) /\ IsFiniteSet(DOMAIN l.index)
    /\ l.membership = Mint(l.table, l.columns)
    /\ Range(l.membership) \subseteq DOMAIN l.index

\* Occurrences tell rows apart.
LEMMA MintType ==
    ASSUME NEW table, NEW columns
    PROVE  /\ DOMAIN Mint(table, columns) = DOMAIN table
           /\ \A k \in DOMAIN table : Mint(table, columns)[k] = <<k, table[k], columns>>
           /\ IsFiniteSet(DOMAIN table) => IsFiniteSet(Range(Mint(table, columns)))
<1>1. /\ DOMAIN Mint(table, columns) = DOMAIN table
      /\ \A k \in DOMAIN table : Mint(table, columns)[k] = <<k, table[k], columns>>
    BY DEF Mint, Occurrence
<1>2. ASSUME IsFiniteSet(DOMAIN table) PROVE IsFiniteSet(Range(Mint(table, columns)))
    <2> DEFINE f == Mint(table, columns)
               T == Range(f)
    <2>1. f \in Surjection(DOMAIN table, T)
        <3>1. f = [k \in DOMAIN table |-> f[k]]
            BY DEF Mint
        <3>2. DOMAIN f = DOMAIN table
            BY <1>1
        <3> HIDE DEF f
        <3> QED
            BY <3>1, <3>2 DEF Surjection, Range
    <2> HIDE DEF f, T
    <2>2. IsFiniteSet(T)
        BY <1>2, <2>1, FS_Surjection
    <2> QED
        BY <2>2 DEF f, T
<1> QED
    BY <1>1, <1>2

\* What an index that lacks some occurrences gains.
Gains(index, old, minted, s) ==
    /\ DOMAIN index = DOMAIN old \cup Range(minted)
    /\ \A o \in DOMAIN index : index[o] = IF o \in DOMAIN old THEN old[o] ELSE s
    /\ IsFiniteSet(DOMAIN index)
    /\ Cardinality(DOMAIN index) - Cardinality(DOMAIN old) = Cardinality(DOMAIN index \ DOMAIN old)

LEMMA Appended ==
    ASSUME NEW old, IsFiniteSet(DOMAIN old), NEW minted, IsFiniteSet(Range(minted)), NEW s
    PROVE  Gains(AppendOccurrences(old, minted, s), old, minted, s)
<1> DEFINE index == AppendOccurrences(old, minted, s)
<1>1. /\ DOMAIN index = DOMAIN old \cup Range(minted)
      /\ \A o \in DOMAIN index : index[o] = IF o \in DOMAIN old THEN old[o] ELSE s
    BY DEF AppendOccurrences, Over
<1>2. IsFiniteSet(DOMAIN index)
    BY <1>1, FS_Union
<1>3. Cardinality(DOMAIN index) - Cardinality(DOMAIN old) = Cardinality(DOMAIN index \ DOMAIN old)
    <2> DEFINE D == DOMAIN index
               O == DOMAIN old
    <2>1. D \cap O = O
        BY <1>1
    <2>2. IsFiniteSet(D) /\ IsFiniteSet(O)
        BY <1>2
    <2> HIDE DEF D, O
    <2>3. Cardinality(D \ O) = Cardinality(D) - Cardinality(O)
        BY <2>1, <2>2, FS_Difference
    <2> QED
        BY <2>3 DEF D, O
<1> QED
    BY <1>1, <1>2, <1>3 DEF Gains

\* A first state.
LEMMA FirstBuilt ==
    ASSUME NEW table, table = [k \in DOMAIN table |-> table[k]], IsFiniteSet(DOMAIN table), NEW columns, NEW s
    PROVE  /\ Built(FirstLayers(table, columns, s), table, NoIndex, NoIndex, s)
           /\ Sound(FirstLayers(table, columns, s))
<1> DEFINE l == FirstLayers(table, columns, s)
           minted == Mint(table, columns)
           index == AppendOccurrences(NoIndex, minted, s)
<1>1. /\ l.table = table /\ l.columns = columns /\ l.membership = minted /\ l.index = index
      /\ l.counts.added = Cardinality(DOMAIN table) /\ l.counts.changed = 0 /\ l.counts.removed = 0
      /\ l.counts.generated = Cardinality(DOMAIN index) - Cardinality({})
    BY DEF FirstLayers, Layers, Counted
<1>2. DOMAIN NoIndex = {} /\ IsFiniteSet({}) /\ Cardinality({}) = 0
    BY FS_EmptySet DEF NoIndex
<1>3. DOMAIN minted = DOMAIN table /\ IsFiniteSet(Range(minted))
    BY MintType
<1>4. Gains(index, NoIndex, minted, s)
    BY <1>2, <1>3, Appended
<1> HIDE DEF l, minted, index
<1>5. DOMAIN table \ DOMAIN NoIndex = DOMAIN table /\ DOMAIN NoIndex \ DOMAIN table = {}
    BY <1>2
<1>6. {k \in DOMAIN table \cap DOMAIN NoIndex : l.membership[k] # NoIndex[k]} = {}
    BY <1>2
<1>7. Built(l, table, NoIndex, NoIndex, s)
    BY <1>1, <1>2, <1>4, <1>5, <1>6 DEF Built, Gains, minted
<1>8. Sound(l)
    BY <1>1, <1>3, <1>4 DEF Sound, Gains, minted
<1> QED
    BY <1>7, <1>8 DEF l

\* A revision of a finite function, key by key.
Revises(f, membership, fresh, gone) ==
    /\ f = [k \in DOMAIN f |-> f[k]]
    /\ DOMAIN f = DOMAIN fresh \cup (DOMAIN membership \ gone)
    /\ \A k \in DOMAIN f : f[k] = IF k \in DOMAIN fresh THEN fresh[k] ELSE membership[k]

LEMMA RevisedMap ==
    ASSUME NEW membership, NEW fresh, NEW gone
    PROVE  Revises(Revise(membership, fresh, gone), membership, fresh, gone)
BY DEF Revises, Revise, Over, Restrict

\* Two functions with equal domains and values are one.
LEMMA SameMap ==
    ASSUME NEW f, NEW g, f = [k \in DOMAIN f |-> f[k]], g = [k \in DOMAIN g |-> g[k]],
           DOMAIN f = DOMAIN g, \A k \in DOMAIN f : f[k] = g[k]
    PROVE  f = g
<1>1. [k \in DOMAIN f |-> f[k]] = [k \in DOMAIN g |-> g[k]]
    OBVIOUS
<1> QED
    BY <1>1

LEMMA MintMap ==
    ASSUME NEW table, NEW columns
    PROVE  Mint(table, columns) = [k \in DOMAIN Mint(table, columns) |-> Mint(table, columns)[k]]
BY DEF Mint

\* How many members a delta leaves behind, from the totals.
LEMMA LeftBehind ==
    ASSUME NEW B, NEW F, NEW T, IsFiniteSet(B), IsFiniteSet(T), F \subseteq T, T \ B \subseteq F
    PROVE  /\ (Cardinality(B) + Cardinality(F) - Cardinality(F \cap B)) - Cardinality(T) = Cardinality(B \ T)
           /\ Cardinality(F) - Cardinality(F \cap B) = Cardinality(T \ B)
<1>1. IsFiniteSet(F) /\ IsFiniteSet(B \ T)
    BY FS_Subset
<1>2. F \ B = T \ B
    OBVIOUS
<1>3. Cardinality(F \ B) = Cardinality(F) - Cardinality(F \cap B)
    BY <1>1, FS_Difference
<1>4. Cardinality(B \cup F) = Cardinality(B) + Cardinality(F) - Cardinality(B \cap F)
    BY <1>1, FS_Union
<1>5. B \cap F = F \cap B
    OBVIOUS
<1>6. B \cup F = (B \ T) \cup T /\ (B \ T) \cap T = {}
    OBVIOUS
<1>7. Cardinality((B \ T) \cup T) = Cardinality(B \ T) + Cardinality(T) - Cardinality((B \ T) \cap T)
    BY <1>1, FS_Union
<1>8. Cardinality({}) = 0
    BY FS_EmptySet
<1>9. /\ Cardinality(B) \in Nat /\ Cardinality(F) \in Nat /\ Cardinality(T) \in Nat
      /\ IsFiniteSet(F \cap B)
    BY <1>1, FS_CardinalityType, FS_Subset
<1>10. Cardinality(F \cap B) \in Nat /\ Cardinality(B \ T) \in Nat
    BY <1>1, <1>9, FS_CardinalityType
<1> DEFINE b == Cardinality(B)
           f == Cardinality(F)
           t == Cardinality(T)
           both == Cardinality(F \cap B)
           left == Cardinality(B \ T)
           all == Cardinality(B \cup F)
<1>11. all = b + f - both
    BY <1>4, <1>5
<1>12. all = left + t - 0
    BY <1>6, <1>7, <1>8
<1>13. b \in Nat /\ f \in Nat /\ t \in Nat /\ both \in Nat /\ left \in Nat
    BY <1>9, <1>10
<1>14. (b + f - both) - t = left
    <2> HIDE DEF b, f, t, both, left, all
    <2> QED
        BY <1>11, <1>12, <1>13
<1> QED
    BY <1>2, <1>3, <1>14

\* A generation over a base with the same columns.
LEMMA DeltaBuilt ==
    ASSUME NEW base, Sound(base), NEW table, table = [k \in DOMAIN table |-> table[k]], IsFiniteSet(DOMAIN table),
           NEW columns, columns = base.columns, NEW s
    PROVE  /\ Built(DeltaLayers(base, table, columns, s), table, base.membership, base.index, s)
           /\ Sound(DeltaLayers(base, table, columns, s))
<1> DEFINE l == DeltaLayers(base, table, columns, s)
           T == DOMAIN table
           B == DOMAIN base.table
           F == FreshKeys(base, table)
           fresh == Mint(Restrict(table, F), columns)
           gone == DOMAIN base.membership \ T
           membership == Revise(base.membership, fresh, gone)
           index == AppendOccurrences(base.index, fresh, s)
           minted == Mint(table, columns)
           removed == (Cardinality(DOMAIN base.membership) + Cardinality(DOMAIN fresh)
                         - Cardinality(DOMAIN fresh \cap DOMAIN base.membership)) - Cardinality(T)
<1>1. /\ l.table = table /\ l.columns = columns /\ l.membership = membership /\ l.index = index
      /\ l.counts.added = Cardinality(DOMAIN fresh) - Cardinality(DOMAIN fresh \cap DOMAIN base.membership)
      /\ l.counts.changed = Cardinality(DOMAIN fresh \cap DOMAIN base.membership)
      /\ l.counts.removed = removed
      /\ l.counts.generated = Cardinality(DOMAIN index) - Cardinality(DOMAIN base.index)
    BY DEF DeltaLayers, Layers, Counted
<1>2. /\ DOMAIN fresh = F /\ \A k \in F : fresh[k] = <<k, table[k], columns>>
      /\ IsFiniteSet(F)
    <2>1. F \subseteq T
        BY DEF FreshKeys
    <2>2. IsFiniteSet(F)
        BY <2>1, FS_Subset
    <2>3. DOMAIN Restrict(table, F) = F /\ \A k \in F : Restrict(table, F)[k] = table[k]
        BY DEF Restrict
    <2> QED
        BY <2>2, <2>3, MintType
<1>3. IsFiniteSet(Range(fresh))
    <2>1. DOMAIN Restrict(table, F) = F
        BY DEF Restrict
    <2> QED
        BY <1>2, <2>1, MintType
<1>4. /\ DOMAIN base.membership = B /\ \A k \in B : base.membership[k] = <<k, base.table[k], columns>>
      /\ IsFiniteSet(B) /\ IsFiniteSet(DOMAIN base.index)
      /\ Range(base.membership) \subseteq DOMAIN base.index
    BY MintType DEF Sound
<1>5. /\ F \subseteq T /\ T \ B \subseteq F
      /\ \A k \in F \cap B : base.table[k] # table[k]
      /\ \A k \in T \ F : k \in B /\ base.table[k] = table[k]
    BY DEF FreshKeys
<1>6. /\ DOMAIN minted = T /\ \A k \in T : minted[k] = <<k, table[k], columns>>
      /\ minted = [k \in DOMAIN minted |-> minted[k]]
    BY MintType, MintMap
<1>7. /\ membership = [k \in DOMAIN membership |-> membership[k]]
      /\ DOMAIN membership = DOMAIN fresh \cup (DOMAIN base.membership \ gone)
      /\ \A k \in DOMAIN membership : membership[k] = IF k \in DOMAIN fresh THEN fresh[k] ELSE base.membership[k]
    <2>1. Revises(membership, base.membership, fresh, gone)
        BY RevisedMap
    <2> HIDE DEF membership, fresh, gone
    <2> QED
        BY <2>1 DEF Revises
<1>8. Gains(index, base.index, fresh, s)
    BY <1>3, <1>4, Appended
<1>9. DOMAIN membership = T
    BY <1>2, <1>4, <1>5, <1>7
<1> HIDE DEF l, F, fresh, membership, index, minted
<1>10. membership = minted
    <2>1. \A k \in T : membership[k] = minted[k]
        BY <1>2, <1>4, <1>5, <1>6, <1>7, <1>9
    <2> QED
        BY <1>6, <1>7, <1>9, <2>1, SameMap
<1>11. /\ removed = Cardinality(DOMAIN base.membership \ T)
       /\ l.counts.added = Cardinality(T \ DOMAIN base.membership)
    <2>1. /\ (Cardinality(B) + Cardinality(F) - Cardinality(F \cap B)) - Cardinality(T) = Cardinality(B \ T)
          /\ Cardinality(F) - Cardinality(F \cap B) = Cardinality(T \ B)
        <3>1. IsFiniteSet(T) /\ IsFiniteSet(B) /\ F \subseteq T /\ T \ B \subseteq F
            BY <1>4, <1>5
        <3> HIDE DEF B, T
        <3> QED
            BY <3>1, LeftBehind
    <2> QED
        BY <2>1, <1>1, <1>2, <1>4
<1>12. {k \in T \cap DOMAIN base.membership : l.membership[k] # base.membership[k]} = DOMAIN fresh \cap DOMAIN base.membership
    <2>1. ASSUME NEW k \in T \cap B
          PROVE  l.membership[k] # base.membership[k] <=> k \in F
        <3>1. l.membership[k] = <<k, table[k], columns>> /\ base.membership[k] = <<k, base.table[k], columns>>
            BY <1>1, <1>4, <1>6, <1>10
        <3> QED
            BY <3>1, <1>5
    <2> QED
        BY <2>1, <1>2, <1>4, <1>5
<1>13. /\ Range(fresh) \subseteq Range(membership)
       /\ Range(membership) \subseteq Range(fresh) \cup Range(base.membership)
    BY <1>2, <1>4, <1>5, <1>7, <1>9 DEF Range
<1>14. DOMAIN index = DOMAIN base.index \cup Range(membership)
    BY <1>4, <1>8, <1>13 DEF Gains
<1>15. Built(l, table, base.membership, base.index, s)
    BY <1>1, <1>8, <1>10, <1>11, <1>12, <1>14 DEF Built, Gains, minted
<1>16. Sound(l)
    BY <1>1, <1>8, <1>10, <1>14 DEF Sound, Gains, minted
<1> QED
    BY <1>15, <1>16 DEF l

\* A generation whose rows are all minted anew.
LEMMA RemintBuilt ==
    ASSUME NEW base, Sound(base), NEW table, IsFiniteSet(DOMAIN table), NEW columns, NEW s
    PROVE  /\ Built(RemintLayers(base, table, columns, s), table, base.membership, base.index, s)
           /\ Sound(RemintLayers(base, table, columns, s))
<1> DEFINE l == RemintLayers(base, table, columns, s)
           T == DOMAIN table
           minted == Mint(table, columns)
           old == base.membership
           index == AppendOccurrences(base.index, minted, s)
<1>1. /\ l.table = table /\ l.columns = columns /\ l.membership = minted /\ l.index = index
      /\ l.counts.added = Cardinality(DOMAIN minted \ DOMAIN old)
      /\ l.counts.changed = Cardinality({k \in DOMAIN minted \cap DOMAIN old : minted[k] # old[k]})
      /\ l.counts.removed = Cardinality(DOMAIN old \ DOMAIN minted)
      /\ l.counts.generated = Cardinality(DOMAIN index) - Cardinality(DOMAIN base.index)
    BY DEF RemintLayers, Layers, Counted
<1>2. DOMAIN minted = T /\ IsFiniteSet(Range(minted)) /\ IsFiniteSet(DOMAIN base.index)
    BY MintType DEF Sound
<1>3. Gains(index, base.index, minted, s)
    BY <1>2, Appended
<1> HIDE DEF l, index
<1>4. Built(l, table, base.membership, base.index, s)
    BY <1>1, <1>2, <1>3 DEF Built, Gains
<1>5. Sound(l)
    BY <1>1, <1>2, <1>3 DEF Sound, Gains
<1> QED
    BY <1>4, <1>5 DEF l

\* What a derivation over a base means.
Derived(base, q) ==
    Over(q.rows, Restrict(base.table, {k \in DOMAIN base.table : k[1] \notin MembersNamed(q)}))

LEMMA DerivedBuilt ==
    ASSUME NEW base, Sound(base), NEW q, q.rows = [k \in DOMAIN q.rows |-> q.rows[k]], IsFiniteSet(DOMAIN q.rows),
           base.columns = q.columns, base.table = [k \in DOMAIN base.table |-> base.table[k]], NEW s
    PROVE  /\ Built(DerivedLayers(base, q, s), Derived(base, q), base.membership, base.index, s)
           /\ Sound(DerivedLayers(base, q, s))
<1> DEFINE l == DerivedLayers(base, q, s)
           D == DOMAIN q.rows
           B == DOMAIN base.table
           N == MembersNamed(q)
           columns == q.columns
           given == Mint(q.rows, columns)
           old == {k \in B : k[1] \in N}
           changed == {k \in DOMAIN given : k \notin old \/ base.membership[k] # given[k]}
           gone == old \ DOMAIN given
           fresh == Restrict(given, changed)
           table == Revise(base.table, Restrict(q.rows, changed), gone)
           membership == Revise(base.membership, fresh, gone)
           index == AppendOccurrences(base.index, fresh, s)
           rows == Derived(base, q)
           minted == Mint(rows, columns)
<1>1. /\ l.table = table /\ l.columns = columns /\ l.membership = membership /\ l.index = index
      /\ l.counts.added = Cardinality(changed \ old)
      /\ l.counts.changed = Cardinality(changed \cap old)
      /\ l.counts.removed = Cardinality(gone)
      /\ l.counts.generated = Cardinality(DOMAIN index) - Cardinality(DOMAIN base.index)
    BY DEF DerivedLayers, Layers, Counted
<1>2. /\ DOMAIN given = D /\ \A k \in D : given[k] = <<k, q.rows[k], columns>>
      /\ IsFiniteSet(Range(given))
    BY MintType
<1>3. /\ DOMAIN base.membership = B /\ \A k \in B : base.membership[k] = <<k, base.table[k], columns>>
      /\ IsFiniteSet(B) /\ IsFiniteSet(DOMAIN base.index)
      /\ Range(base.membership) \subseteq DOMAIN base.index
    BY MintType DEF Sound
<1>4. \A k \in D : k[1] \in N
    BY DEF MembersNamed
<1>5. /\ DOMAIN fresh = changed /\ \A k \in changed : fresh[k] = given[k]
      /\ DOMAIN Restrict(q.rows, changed) = changed
      /\ \A k \in changed : Restrict(q.rows, changed)[k] = q.rows[k]
    BY DEF Restrict
<1>6. /\ changed \subseteq D /\ gone = old \ D /\ old \subseteq B
      /\ \A k \in D \ changed : k \in old /\ base.membership[k] = given[k]
      /\ \A k \in changed \cap old : base.membership[k] # given[k]
      /\ D \cap B \subseteq old
    BY <1>2, <1>4
<1>7. /\ rows = [k \in DOMAIN rows |-> rows[k]]
      /\ DOMAIN rows = D \cup (B \ old)
      /\ \A k \in DOMAIN rows : rows[k] = IF k \in D THEN q.rows[k] ELSE base.table[k]
    BY DEF Derived, Over, Restrict
<1>8. /\ table = [k \in DOMAIN table |-> table[k]]
      /\ DOMAIN table = changed \cup (B \ gone)
      /\ \A k \in DOMAIN table : table[k] = IF k \in changed THEN Restrict(q.rows, changed)[k] ELSE base.table[k]
    <2>1. Revises(table, base.table, Restrict(q.rows, changed), gone)
        BY RevisedMap
    <2> HIDE DEF table, changed, gone
    <2> QED
        BY <2>1, <1>5 DEF Revises
<1>9. /\ membership = [k \in DOMAIN membership |-> membership[k]]
      /\ DOMAIN membership = changed \cup (B \ gone)
      /\ \A k \in DOMAIN membership : membership[k] = IF k \in changed THEN fresh[k] ELSE base.membership[k]
    <2>1. Revises(membership, base.membership, fresh, gone)
        BY RevisedMap
    <2> HIDE DEF membership, changed, fresh, gone
    <2> QED
        BY <2>1, <1>3, <1>5 DEF Revises
<1>10. /\ DOMAIN minted = DOMAIN rows /\ \A k \in DOMAIN rows : minted[k] = <<k, rows[k], columns>>
       /\ minted = [k \in DOMAIN minted |-> minted[k]]
    BY MintType, MintMap
<1>11. Range(fresh) \subseteq Range(given) /\ IsFiniteSet(Range(fresh))
    <2>1. Range(fresh) \subseteq Range(given)
        BY <1>2, <1>5, <1>6 DEF Range
    <2> QED
        BY <1>2, <2>1, FS_Subset
<1>12. Gains(index, base.index, fresh, s)
    BY <1>3, <1>11, Appended
<1> HIDE DEF l, D, B, N, given, old, changed, gone, fresh, table, membership, index, rows, minted
<1>13. DOMAIN table = DOMAIN rows /\ DOMAIN membership = DOMAIN rows
    BY <1>6, <1>7, <1>8, <1>9
<1>14. ASSUME NEW k \in DOMAIN rows
       PROVE  table[k] = rows[k] /\ membership[k] = minted[k]
    <2>1. CASE k \in changed
        BY <2>1, <1>2, <1>5, <1>6, <1>7, <1>8, <1>9, <1>10, <1>13
    <2>2. CASE k \in D \ changed
        <3>1. k \in old /\ k \in B /\ base.membership[k] = given[k]
            BY <2>2, <1>6
        <3>2. <<k, base.table[k], columns>> = <<k, q.rows[k], columns>>
            BY <2>2, <3>1, <1>2, <1>3
        <3>3. base.table[k] = q.rows[k]
            BY <3>2
        <3>4. rows[k] = q.rows[k] /\ table[k] = base.table[k]
            BY <2>2, <1>7, <1>8, <1>13
        <3>5. membership[k] = given[k] /\ given[k] = <<k, q.rows[k], columns>>
            BY <2>2, <3>1, <1>2, <1>9, <1>13
        <3>6. minted[k] = <<k, rows[k], columns>>
            BY <1>10
        <3> QED
            BY <3>3, <3>4, <3>5, <3>6
    <2>3. CASE k \notin D
        BY <2>3, <1>3, <1>6, <1>7, <1>8, <1>9, <1>10, <1>13
    <2> QED
        BY <2>1, <2>2, <2>3
<1>15. table = rows
    BY <1>7, <1>8, <1>13, <1>14, SameMap
<1>16. membership = minted
    BY <1>9, <1>10, <1>13, <1>14, SameMap
<1>17. /\ changed \ old = DOMAIN rows \ B
       /\ gone = B \ DOMAIN rows
    BY <1>6, <1>7
<1>18. {k \in DOMAIN rows \cap DOMAIN base.membership : l.membership[k] # base.membership[k]} = changed \cap old
    <2>1. ASSUME NEW k \in DOMAIN rows, k \in B
          PROVE  membership[k] # base.membership[k] <=> k \in changed \cap old
        <3>1. CASE k \in changed
            BY <3>1, <2>1, <1>5, <1>6, <1>9, <1>13
        <3>2. CASE k \notin changed
            BY <3>2, <1>9, <1>13
        <3> QED
            BY <3>1, <3>2
    <2> QED
        BY <2>1, <1>1, <1>3, <1>6, <1>7
<1>19. /\ Range(fresh) \subseteq Range(membership)
       /\ Range(membership) \subseteq Range(fresh) \cup Range(base.membership)
    BY <1>3, <1>5, <1>6, <1>9 DEF Range
<1>20. DOMAIN index = DOMAIN base.index \cup Range(membership)
    BY <1>3, <1>12, <1>19 DEF Gains
<1>21. IsFiniteSet(DOMAIN table)
    <2>1. IsFiniteSet(D \cup B) /\ DOMAIN table \subseteq D \cup B
        BY <1>3, <1>6, <1>8, FS_Union DEF D
    <2> QED
        BY <2>1, FS_Subset
<1>22. Built(l, rows, base.membership, base.index, s)
    BY <1>1, <1>3, <1>12, <1>15, <1>16, <1>17, <1>18, <1>20 DEF Built, Gains, minted
<1>23. Sound(l)
    BY <1>1, <1>12, <1>15, <1>16, <1>20, <1>21 DEF Sound, Gains, minted
<1> QED
    BY <1>22, <1>23 DEF l, rows

\* The table of an artifact that passed the checks.
LEMMA TableRight ==
    ASSUME NEW s \in Pins, Selectable(GArtifact[s]), Verified(GArtifact[s]), KeysApart(GArtifact[s])
    PROVE  /\ s \in TrustworthyPins
           /\ PinTable[s] = [k \in DOMAIN PinTable[s] |-> PinTable[s][k]]
           /\ IsFiniteSet(DOMAIN PinTable[s])
           /\ Cardinality(DOMAIN PinTable[s]) = GArtifact[s].tables[GTable].rows
<1> DEFINE a == GArtifact[s]
           P == Places(a, GTable)
           K == {RecordAt(a, p).key : p \in P}
           f == [p \in P |-> RecordAt(a, p).key]
<1>1. Wellformed(a) /\ Selectable(a) /\ Verified(a) /\ KeysApart(a)
    BY ArtifactsAssumption DEF Pins
<1>2. Trustworthy(a) /\ GTable \in DOMAIN a.tables
    BY <1>1, VerifiedTrustworthy DEF Selectable
<1>3. s \in TrustworthyPins /\ s \in VerifiedPins
    BY <1>1, <1>2 DEF TrustworthyPins, VerifiedPins
<1>4. IsFiniteSet(P) /\ Cardinality(P) = a.tables[GTable].rows
    <2>1. \A i \in Listing(a, GTable) : Len(RowsAt(a, i)) = a.members[i].count
        BY <1>1, <1>2 DEF Verified, TableSound, MemberSound, RowsAt
    <2>2. IsFiniteSet(P)
        BY <1>1, <2>1, PlacesCounted
    <2> QED
        BY <1>2, <2>2 DEF Trustworthy
<1>5. f \in Bijection(P, K)
    <2>1. \A p, q \in P : f[p] = f[q] => p = q
        BY <1>1 DEF KeysApart
    <2>2. \A k \in K : \E p \in P : f[p] = k
        OBVIOUS
    <2>3. f \in [P -> K]
        OBVIOUS
    <2> HIDE DEF f, P, K
    <2> QED
        BY <2>1, <2>2, <2>3 DEF Bijection, Injection, IsInjective, Surjection
<1>6. IsFiniteSet(K) /\ Cardinality(K) = a.tables[GTable].rows
    <2> HIDE DEF f, P, K
    <2> QED
        BY <1>4, <1>5, FS_Bijection DEF ExistsBijection
<1>7. PinTable[s] = TableOf(a)
    BY <1>3 DEF PinTable
<1>8. TableOf(a) = [k \in DOMAIN TableOf(a) |-> TableOf(a)[k]] /\ DOMAIN TableOf(a) = K
    <2> DEFINE g(k) == LET r == RecordAt(a, CHOOSE p \in P : RecordAt(a, p).key = k) IN <<r.val, r.part>>
    <2>1. TableOf(a) = [k \in K |-> g(k)]
        BY DEF TableOf
    <2> HIDE DEF K, g
    <2> QED
        BY <2>1
<1> QED
    BY <1>3, <1>6, <1>7, <1>8

-----------------------------------------------------------------------------
\* What a state holds, given its base.
RowsMeant(u, base, s) ==
    IF u.kind = "admitted" THEN PinTable[s] ELSE IF u.base = Blank THEN u.request.rows ELSE Derived(base, u.request)

\* A state is what its call was given, over its base, and can be built over.
Stands(u, base, s) ==
    /\ Built(u, RowsMeant(u, base, s), IF u.base = Blank THEN NoIndex ELSE base.membership,
             IF u.base = Blank THEN NoIndex ELSE base.index, s)
    /\ Sound(u) /\ u.table = [k \in DOMAIN u.table |-> u.table[k]]
    /\ u.kind = "admitted" =>
          s \in TrustworthyPins /\ Cardinality(DOMAIN PinTable[s]) = GArtifact[s].tables[GTable].rows

\* What a call has found out at each of its steps.
Found(t) ==
    /\ t.pc \in {"stage", "admit", "layers", "failed"} => t.name \in SelectablePins
    /\ t.pc \in {"admit", "layers", "failed"} => t.name \in VerifiedPins
    /\ t.pc = "layers" /\ t.base # Blank => Published(t.base)
    /\ t.pc = "derive" =>
          /\ t.request \in Requests /\ t.base = t.request.base
          /\ t.base # Blank => Published(t.base) /\ states[t.base].columns = t.request.columns

TablesInv ==
    /\ offered \in GOffers \cup {Blank}
    /\ \A s \in DOMAIN states :
          /\ Stands(states[s], states[states[s].base], s)
          /\ states[s].base # Blank => Published(states[s].base)
    /\ \A c \in Callers : Found(gcall[c])

LEMMA TablesStart == GenerationInit => TablesInv
<1> SUFFICES ASSUME GenerationInit PROVE TablesInv
    OBVIOUS
<1>1. DOMAIN states = {} /\ offered \in GOffers \cup {Blank} /\ \A c \in Callers : gcall[c] = Resting
    BY DEF GenerationInit
<1> QED
    BY <1>1, RestingTyped DEF TablesInv, Found

\* A step that publishes nothing, when what the call found is so.
LEMMA TablesCall ==
    ASSUME TablesInv, GenerationInv, NEW c \in Callers, NEW t, Steps(c, t), UNCHANGED <<states, offered>>, Found(t)
    PROVE  TablesInv'
<1>1. /\ gcall'[c] = t /\ \A e \in Callers \ {c} : gcall'[e] = gcall[e]
      /\ states' = states /\ offered' = offered
    BY DEF GenerationInv, GenerationTypeOK, Steps
<1>2. \A e \in Callers : Found(gcall'[e])
    BY <1>1 DEF TablesInv
<1>3. \A e \in Callers : Found(gcall[e])'
    BY <1>1, <1>2 DEF Found, Published
<1> QED
    BY <1>1, <1>3 DEF TablesInv, Published

\* A call that ends has nothing left to know.
LEMMA TablesEnd ==
    ASSUME TablesInv, GenerationInv, NEW c \in Callers, NEW t \in GenerationCall,
           NEW outcome \in {"refused", "done", "retry", "stale"}, Steps(c, Ended(t, outcome)), UNCHANGED <<states, offered>>
    PROVE  TablesInv'
<1>1. PICK x : x = Ended(t, outcome)
    OBVIOUS
<1>2. x.pc = "idle"
    BY <1>1, EndedTyped
<1>3. Found(x)
    BY <1>2 DEF Found
<1> QED
    BY <1>1, <1>3, TablesCall

LEMMA TablesAdmission ==
    ASSUME TablesInv, GenerationInv, NEW c \in Callers, NEW ok \in BOOLEAN,
           SelectRetained(c, ok) \/ Stage(c, ok) \/ OpenAdmission(c) \/ FailPublish(c) \/ AskAgain(c)
    PROVE  TablesInv'
<1>1. PICK t \in GenerationCall : t = gcall[c]
    BY DEF GenerationInv, GenerationTypeOK
<1>2. UNCHANGED <<states, offered>> /\ Found(t)
    BY <1>1 DEF SelectRetained, Stage, OpenAdmission, FailPublish, AskAgain, NothingWritten, TablesInv
<1>3. ASSUME NEW pc \in {"stage", "admit", "failed"}, To(c, pc), t.name \in SelectablePins,
             pc # "stage" => t.name \in VerifiedPins
      PROVE  TablesInv'
    <2>1. PICK x : x = [t EXCEPT !.pc = pc]
        OBVIOUS
    <2>2. x.pc = pc /\ x.name = t.name
        BY <2>1 DEF GenerationCall
    <2>3. Found(x)
        BY <1>3, <2>2 DEF Found
    <2> QED
        BY <1>1, <1>2, <1>3, <2>1, <2>3, TablesCall DEF To
<1>4. ASSUME NEW outcome \in {"refused", "retry"}, Ends(c, outcome)
      PROVE  TablesInv'
    BY <1>1, <1>2, <1>4, TablesEnd DEF Ends
<1>5. CASE SelectRetained(c, ok)
    <2>1. \/ Ends(c, "refused")
          \/ t.name \in SelectablePins /\ To(c, "stage")
          \/ Steps(c, [t EXCEPT !.pc = "reuse", !.base = states[t.name].base])
        BY <1>1, <1>5 DEF SelectRetained
    <2>2. ASSUME Steps(c, [t EXCEPT !.pc = "reuse", !.base = states[t.name].base])
          PROVE  TablesInv'
        <3>1. PICK x : x = [t EXCEPT !.pc = "reuse", !.base = states[t.name].base]
            OBVIOUS
        <3>2. x.pc = "reuse"
            BY <3>1 DEF GenerationCall
        <3>3. Found(x)
            BY <3>2 DEF Found
        <3> QED
            BY <1>2, <2>2, <3>1, <3>3, TablesCall
    <2> QED
        BY <2>1, <2>2, <1>3, <1>4
<1>6. CASE Stage(c, ok)
    <2>1. t.pc = "stage" /\ (Ends(c, "refused") \/ (To(c, "admit") /\ t.name \in VerifiedPins))
        BY <1>1, <1>6 DEF Stage, Judged, In
    <2>2. t.name \in SelectablePins
        BY <1>2, <2>1 DEF Found
    <2> QED
        BY <2>1, <2>2, <1>3, <1>4
<1>7. CASE OpenAdmission(c)
    <2>1. /\ t.pc = "admit"
          /\ \/ Ends(c, "retry")
             \/ Steps(c, [t EXCEPT !.pc = "layers", !.base = IF t.dataset = Blank THEN Blank ELSE heads[t.dataset]])
        BY <1>1, <1>7 DEF OpenAdmission, In
    <2>2. t.name \in SelectablePins /\ t.name \in VerifiedPins
        BY <1>2, <2>1 DEF Found
    <2>3. PICK b : b = IF t.dataset = Blank THEN Blank ELSE heads[t.dataset]
        OBVIOUS
    <2>4. b # Blank => Published(b)
        BY <2>3 DEF GenerationInv, HeadInv, GenerationCall, Targets
    <2>5. PICK x : x = [t EXCEPT !.pc = "layers", !.base = b]
        OBVIOUS
    <2>6. x.pc = "layers" /\ x.name = t.name /\ x.base = b
        BY <2>5 DEF GenerationCall
    <2>7. Found(x)
        BY <2>2, <2>4, <2>6 DEF Found
    <2>8. ASSUME Steps(c, x) PROVE TablesInv'
        BY <1>2, <2>7, <2>8, TablesCall
    <2> QED
        BY <2>1, <2>3, <2>5, <2>8, <1>4
<1>8. CASE FailPublish(c) \/ AskAgain(c)
    <2>1. \/ t.pc = "layers" /\ To(c, "failed")
          \/ Ends(c, "retry") \/ Ends(c, "refused")
        BY <1>1, <1>8 DEF FailPublish, AskAgain, In
    <2>2. t.pc = "layers" => t.name \in SelectablePins /\ t.name \in VerifiedPins
        BY <1>2 DEF Found
    <2> QED
        BY <2>1, <2>2, <1>3, <1>4
<1> QED
    BY <1>5, <1>6, <1>7, <1>8

LEMMA TablesResolve ==
    ASSUME TablesInv, GenerationInv, NEW c \in Callers, NEW p \in Pins, NEW d \in GTargets[p], Resolve(c, p, d)
    PROVE  TablesInv'
<1>1. PICK x : x = [Resting EXCEPT !.pc = "select", !.id = gcalls + 1, !.name = p, !.dataset = d]
    OBVIOUS
<1>2. x.pc = "select"
    BY <1>1 DEF Resting
<1>3. Found(x)
    BY <1>2 DEF Found
<1> QED
    BY <1>1, <1>3, TablesCall DEF Resolve, NothingWritten

LEMMA TablesDerive ==
    ASSUME TablesInv, GenerationInv, NEW c \in Callers, NEW b \in GBatches, NEW q \in GRequests[b], Derive(c, b, q)
    PROVE  TablesInv'
<1>1. PICK judged : judged = Judgement(b, q)
    OBVIOUS
<1>2. PICK x : x = [Resting EXCEPT !.pc = judged, !.id = gcalls + 1, !.name = b, !.dataset = q.dataset,
                                   !.base = q.base, !.request = Bound(q)]
    OBVIOUS
<1>3. Steps(c, IF judged \in {"advance", "derive"} THEN x ELSE Ended(x, judged)) /\ UNCHANGED <<states, offered>>
    BY <1>1, <1>2 DEF Derive, NothingWritten
<1>4. /\ judged \in {"advance", "refused", "stale", "derive"}
      /\ judged = "derive" => Derivable(q)
    BY <1>1 DEF Judgement
<1>5. x.pc = judged /\ x.base = q.base /\ x.request = Bound(q)
    BY <1>2 DEF Resting
<1>6. CASE judged \in {"advance", "derive"}
    <2>1. Bound(q) \in Requests /\ Bound(q).base = q.base /\ Bound(q).columns = q.columns
        BY DEF Requests, Bound
    <2>2. judged = "derive" /\ q.base # Blank => Published(q.base) /\ states[q.base].columns = q.columns
        BY <1>4 DEF Derivable
    <2>3. Found(x)
        BY <1>5, <1>6, <2>1, <2>2 DEF Found
    <2> QED
        BY <1>3, <1>6, <2>3, TablesCall
<1>7. CASE judged \in {"refused", "stale"}
    <2>1. PICK y : y = Ended(x, judged)
        OBVIOUS
    <2>2. y.pc = "idle"
        BY <1>2, <1>7, <2>1, RestingTyped DEF Ended, Resting
    <2>3. Found(y)
        BY <2>2 DEF Found
    <2> QED
        BY <1>3, <1>7, <2>1, <2>3, TablesCall
<1> QED
    BY <1>4, <1>6, <1>7

\* A published state stays, and stands for the same.
LEMMA TablesPublish ==
    ASSUME TablesInv, GenerationInv, NEW c \in Callers, NEW n, ~ Published(n), NEW u, Publish(n, u), To(c, "advance"),
           UNCHANGED offered, u.base # Blank => Published(u.base), Stands(u, states[u.base], n)
    PROVE  TablesInv'
<1>1. /\ DOMAIN states' = DOMAIN states \cup {n} /\ states'[n] = u
      /\ \A s \in DOMAIN states : s # n /\ states'[s] = states[s]
    BY DEF Publish, Published
<1>2. PICK t \in GenerationCall : t = gcall[c]
    BY DEF GenerationInv, GenerationTypeOK
<1>3. PICK x : x = [t EXCEPT !.pc = "advance"]
    OBVIOUS
<1>4. x.pc = "advance"
    BY <1>3 DEF GenerationCall
<1>5. gcall'[c] = x /\ \A e \in Callers \ {c} : gcall'[e] = gcall[e]
    BY <1>2, <1>3 DEF GenerationInv, GenerationTypeOK, To, Steps
<1>6. ASSUME NEW v, NEW s, Stands(v, states[v.base], s), v.base # Blank => Published(v.base)
      PROVE  Stands(v, states'[v.base], s)
    <2>1. v.base # Blank => states'[v.base] = states[v.base]
        BY <1>1, <1>6 DEF Published
    <2> QED
        BY <1>6, <2>1 DEF Stands, RowsMeant
<1>7. ASSUME NEW s \in DOMAIN states'
      PROVE  /\ Stands(states'[s], states'[states'[s].base], s)
             /\ states'[s].base # Blank => states'[s].base \in DOMAIN states'
    <2>1. CASE s = n
        BY <2>1, <1>1, <1>6 DEF Published
    <2>2. CASE s \in DOMAIN states
        <3>1. PICK v : v = states[s]
            OBVIOUS
        <3>2. Stands(v, states[v.base], s) /\ (v.base # Blank => Published(v.base))
            BY <2>2, <3>1 DEF TablesInv
        <3>3. states'[s] = v
            BY <1>1, <2>2, <3>1
        <3> QED
            BY <1>1, <1>6, <3>2, <3>3 DEF Published
    <2> QED
        BY <1>1, <2>1, <2>2
<1>8. ASSUME NEW e \in Callers PROVE Found(gcall[e])'
    <2>1. CASE e = c
        BY <1>4, <1>5, <2>1 DEF Found
    <2>2. CASE e # c
        <3>1. PICK y : y = gcall[e]
            OBVIOUS
        <3>2. Found(y) /\ gcall'[e] = y
            BY <1>5, <2>2, <3>1 DEF TablesInv
        <3>3. Found(y)'
            BY <1>1, <3>2 DEF Found, Published
        <3> QED
            BY <3>2, <3>3
    <2> QED
        BY <2>1, <2>2
<1> QED
    BY <1>7, <1>8 DEF TablesInv, Published

\* Layers that are right make a unit that is.
LEMMA UnitStands ==
    ASSUME NEW l, NEW c, NEW spelling, NEW kind, NEW base, NEW s, NEW rows, NEW was, NEW old,
           Built(l, rows, was, old, s), Sound(l), rows = [k \in DOMAIN rows |-> rows[k]],
           was = IF gcall[c].base = Blank THEN NoIndex ELSE base.membership,
           old = IF gcall[c].base = Blank THEN NoIndex ELSE base.index,
           rows = IF kind = "admitted" THEN PinTable[s]
                  ELSE IF gcall[c].base = Blank THEN gcall[c].request.rows ELSE Derived(base, gcall[c].request),
           kind = "admitted" => s \in TrustworthyPins
                                /\ Cardinality(DOMAIN PinTable[s]) = GArtifact[s].tables[GTable].rows
    PROVE  Stands(Unit(l, c, spelling, kind), base, s)
<1>1. PICK u : u = Unit(l, c, spelling, kind)
    OBVIOUS
<1>2. /\ u.table = l.table /\ u.columns = l.columns /\ u.membership = l.membership /\ u.index = l.index
      /\ u.counts = l.counts /\ u.kind = kind /\ u.base = gcall[c].base /\ u.request = gcall[c].request
    BY <1>1 DEF Unit
<1>3. RowsMeant(u, base, s) = rows
    BY <1>2 DEF RowsMeant
<1>4. Built(u, rows, was, old, s)
    BY <1>2 DEF Built
<1>5. Sound(u)
    BY <1>2 DEF Sound
<1>6. u.table = [k \in DOMAIN u.table |-> u.table[k]]
    BY <1>4 DEF Built
<1>7. /\ was = IF u.base = Blank THEN NoIndex ELSE base.membership
      /\ old = IF u.base = Blank THEN NoIndex ELSE base.index
      /\ u.kind = "admitted" => s \in TrustworthyPins
                                /\ Cardinality(DOMAIN PinTable[s]) = GArtifact[s].tables[GTable].rows
    BY <1>2
<1>8. Stands(u, base, s)
    BY <1>3, <1>4, <1>5, <1>6, <1>7 DEF Stands
<1> QED
    BY <1>1, <1>8

LEMMA PublishedAdmission ==
    ASSUME TablesInv, GenerationInv, NEW c \in Callers, PublishAdmission(c)
    PROVE  TablesInv'
<1>1. PICK t \in GenerationCall : t = gcall[c]
    BY DEF GenerationInv, GenerationTypeOK
<1>2. PICK s, b, a : s = t.name /\ b = t.base /\ a = GArtifact[t.name]
    OBVIOUS
<1>3. t.pc = "layers" /\ UNCHANGED offered /\ Found(t) /\ CallInv(t)
    BY <1>1 DEF PublishAdmission, In, TablesInv, GenerationInv, CallsInv
<1>4. /\ s \in SelectablePins /\ s \in VerifiedPins
      /\ b # Blank => Published(b)
    BY <1>2, <1>3 DEF Found
<1>5. CASE UNCHANGED states /\ Ends(c, "refused")
    BY <1>1, <1>3, <1>5, TablesEnd DEF Ends
<1>6. CASE UNCHANGED states /\ To(c, "failed")
    <2>1. PICK x : x = [t EXCEPT !.pc = "failed"]
        OBVIOUS
    <2>2. x.pc = "failed" /\ x.name = s
        BY <1>2, <2>1 DEF GenerationCall
    <2>3. Found(x)
        BY <1>4, <2>2 DEF Found
    <2> QED
        BY <1>1, <1>3, <1>6, <2>1, <2>3, TablesCall DEF To
<1>7. CASE /\ Extends(a, b) /\ ~ Published(s) /\ To(c, "advance")
           /\ Publish(s, Unit(LayersFor(s, b), c, KeyRule(a), "admitted"))
    <2> DEFINE T == PinTable[s]
               columns == a.tables[GTable].columns
               l == LayersFor(s, b)
               was == IF b = Blank THEN NoIndex ELSE states[b].membership
               old == IF b = Blank THEN NoIndex ELSE states[b].index
    <2>1. s \in Pins /\ Selectable(GArtifact[s]) /\ Verified(GArtifact[s]) /\ KeysApart(GArtifact[s])
        BY <1>2, <1>4, <1>7 DEF SelectablePins, VerifiedPins, Extends
    <2>2. /\ s \in TrustworthyPins
          /\ T = [k \in DOMAIN T |-> T[k]] /\ IsFiniteSet(DOMAIN T)
          /\ Cardinality(DOMAIN T) = GArtifact[s].tables[GTable].rows
        BY <2>1, TableRight
    <2>3. Built(l, T, was, old, s) /\ Sound(l)
        <3>1. CASE b = Blank
            <4>1. l = FirstLayers(T, columns, s) /\ was = NoIndex /\ old = NoIndex
                BY <1>2, <3>1 DEF LayersFor
            <4> HIDE DEF T, columns, l, was, old
            <4> QED
                BY <2>2, <4>1, FirstBuilt
        <3>2. CASE b # Blank
            <4>1. PICK base : base = states[b]
                OBVIOUS
            <4>2. Sound(base)
                BY <1>4, <3>2, <4>1 DEF TablesInv, Stands, Published
            <4>3. /\ was = base.membership /\ old = base.index
                  /\ l = IF base.columns = columns THEN DeltaLayers(base, T, columns, s)
                         ELSE RemintLayers(base, T, columns, s)
                BY <1>2, <3>2, <4>1 DEF LayersFor, AdmittedLayers
            <4> HIDE DEF T, columns, l, was, old
            <4>4. CASE base.columns = columns
                BY <2>2, <4>2, <4>3, <4>4, DeltaBuilt
            <4>5. CASE base.columns # columns
                BY <2>2, <4>2, <4>3, <4>5, RemintBuilt
            <4> QED
                BY <4>4, <4>5
        <3> QED
            BY <3>1, <3>2
    <2>4. PICK u : u = Unit(l, c, KeyRule(a), "admitted")
        OBVIOUS
    <2>5. gcall[c].base = b
        BY <1>1, <1>2
    <2>6. Stands(u, states[b], s)
        <3>1. T = IF "admitted" = "admitted" THEN PinTable[s]
                  ELSE IF gcall[c].base = Blank THEN gcall[c].request.rows ELSE Derived(states[b], gcall[c].request)
            OBVIOUS
        <3>2. /\ was = IF gcall[c].base = Blank THEN NoIndex ELSE states[b].membership
              /\ old = IF gcall[c].base = Blank THEN NoIndex ELSE states[b].index
            BY <2>5
        <3>3. "admitted" = "admitted" => s \in TrustworthyPins
                                         /\ Cardinality(DOMAIN PinTable[s]) = GArtifact[s].tables[GTable].rows
            BY <2>2
        <3>4. T = [k \in DOMAIN T |-> T[k]]
            BY <2>2
        <3> HIDE DEF T, l, was, old
        <3> QED
            BY <2>3, <2>4, <3>1, <3>2, <3>3, <3>4, UnitStands
    <2>7. u.base = b
        BY <2>4, <2>5 DEF Unit
    <2> HIDE DEF l
    <2>8. Publish(s, u)
        BY <1>7, <2>4 DEF l
    <2> QED
        BY <1>3, <1>4, <1>7, <2>6, <2>7, <2>8, TablesPublish
<1> QED
    BY <1>1, <1>2, <1>5, <1>6, <1>7 DEF PublishAdmission

LEMMA PublishedDerivation ==
    ASSUME TablesInv, GenerationInv, NEW c \in Callers, PublishDerivation(c)
    PROVE  TablesInv'
<1>1. PICK t \in GenerationCall : t = gcall[c]
    BY DEF GenerationInv, GenerationTypeOK
<1>2. PICK s, b, q : s = t.name /\ b = t.base /\ q = t.request
    OBVIOUS
<1>3. t.pc = "derive" /\ UNCHANGED offered /\ Found(t) /\ CallInv(t)
    BY <1>1 DEF PublishDerivation, In, TablesInv, GenerationInv, CallsInv
<1>4. /\ q \in Requests /\ b = q.base /\ ~ Published(s)
      /\ b # Blank => Published(b) /\ states[b].columns = q.columns
    BY <1>2, <1>3 DEF Found, CallInv
<1>5. q.rows = [k \in DOMAIN q.rows |-> q.rows[k]] /\ IsFiniteSet(DOMAIN q.rows)
    BY <1>4, CallsAssumption DEF Requests, Bound
<1> DEFINE l == IF b = Blank THEN FirstLayers(q.rows, q.columns, s) ELSE DerivedLayers(states[b], q, s)
           rows == IF b = Blank THEN q.rows ELSE Derived(states[b], q)
           was == IF b = Blank THEN NoIndex ELSE states[b].membership
           old == IF b = Blank THEN NoIndex ELSE states[b].index
<1>6. CASE UNCHANGED states /\ Ends(c, "refused")
    BY <1>1, <1>3, <1>6, TablesEnd DEF Ends
<1>7. CASE Publish(s, Unit(l, c, Blank, "derived")) /\ To(c, "advance")
    <2>1. Built(l, rows, was, old, s) /\ Sound(l) /\ rows = [k \in DOMAIN rows |-> rows[k]]
        <3>1. CASE b = Blank
            <4>1. l = FirstLayers(q.rows, q.columns, s) /\ rows = q.rows /\ was = NoIndex /\ old = NoIndex
                BY <3>1
            <4> HIDE DEF l, rows, was, old
            <4> QED
                BY <1>5, <4>1, FirstBuilt
        <3>2. CASE b # Blank
            <4>1. PICK base : base = states[b]
                OBVIOUS
            <4>2. Sound(base) /\ base.columns = q.columns /\ base.table = [k \in DOMAIN base.table |-> base.table[k]]
                BY <1>4, <3>2, <4>1 DEF TablesInv, Stands, Published
            <4>3. /\ l = DerivedLayers(base, q, s) /\ rows = Derived(base, q)
                  /\ was = base.membership /\ old = base.index
                BY <3>2, <4>1
            <4>4. Derived(base, q) = [k \in DOMAIN Derived(base, q) |-> Derived(base, q)[k]]
                BY DEF Derived, Over
            <4> HIDE DEF l, rows, was, old
            <4>5. /\ Built(DerivedLayers(base, q, s), Derived(base, q), base.membership, base.index, s)
                  /\ Sound(DerivedLayers(base, q, s))
                BY <1>5, <4>2, DerivedBuilt
            <4> QED
                BY <4>3, <4>4, <4>5
        <3> QED
            BY <3>1, <3>2
    <2>2. PICK u : u = Unit(l, c, Blank, "derived")
        OBVIOUS
    <2>3. gcall[c].base = b /\ gcall[c].request = q
        BY <1>1, <1>2
    <2>4. /\ rows = IF "derived" = "admitted" THEN PinTable[s]
                    ELSE IF gcall[c].base = Blank THEN gcall[c].request.rows ELSE Derived(states[b], gcall[c].request)
          /\ was = IF gcall[c].base = Blank THEN NoIndex ELSE states[b].membership
          /\ old = IF gcall[c].base = Blank THEN NoIndex ELSE states[b].index
          /\ "derived" # "admitted"
        BY <2>3
    <2>5. u.base = b
        BY <2>2, <2>3 DEF Unit
    <2> HIDE DEF l, rows, was, old
    <2>6. Stands(u, states[b], s)
        BY <2>1, <2>2, <2>4, UnitStands
    <2>7. Publish(s, u)
        BY <1>7, <2>2
    <2> QED
        BY <1>3, <1>4, <1>7, <2>5, <2>6, <2>7, TablesPublish
<1>8. (Publish(s, Unit(l, c, Blank, "derived")) /\ To(c, "advance")) \/ (UNCHANGED states /\ Ends(c, "refused"))
    BY <1>1, <1>2, <1>4 DEF PublishDerivation
<1> QED
    BY <1>6, <1>7, <1>8

\* A removed state is as it was, but for being there.
LEMMA TablesRemoval ==
    ASSUME TablesInv, GenerationInv, NEW n \in DOMAIN states, RemoveState(n)
    PROVE  TablesInv'
<1>1. PICK u : u = [states[n] EXCEPT !.there = FALSE]
    OBVIOUS
<1>2. /\ u.table = states[n].table /\ u.columns = states[n].columns /\ u.membership = states[n].membership
      /\ u.index = states[n].index /\ u.counts = states[n].counts /\ u.kind = states[n].kind
      /\ u.base = states[n].base /\ u.request = states[n].request
    <2>1. Formed(states[n])
        BY DEF GenerationInv, UnitsInv
    <2> QED
        BY <1>1, <2>1 DEF Formed
<1>3. /\ DOMAIN states' = DOMAIN states /\ states'[n] = u
      /\ \A x \in DOMAIN states \ {n} : states'[x] = states[x]
      /\ gcall' = gcall /\ offered' = offered
    BY <1>1 DEF RemoveState
<1>4. \A s \in DOMAIN states :
          /\ states'[s].table = states[s].table /\ states'[s].columns = states[s].columns
          /\ states'[s].membership = states[s].membership /\ states'[s].index = states[s].index
          /\ states'[s].counts = states[s].counts /\ states'[s].kind = states[s].kind
          /\ states'[s].base = states[s].base /\ states'[s].request = states[s].request
    BY <1>2, <1>3
<1>5. ASSUME NEW s \in DOMAIN states
      PROVE  Stands(states'[s], states'[states'[s].base], s) /\ (states'[s].base # Blank => states'[s].base \in DOMAIN states)
    <2>1. PICK v, w : v = states[s] /\ w = states'[s]
        OBVIOUS
    <2>2. Stands(v, states[v.base], s) /\ (v.base # Blank => v.base \in DOMAIN states)
        BY <2>1 DEF TablesInv, Published
    <2>3. /\ w.table = v.table /\ w.columns = v.columns /\ w.membership = v.membership /\ w.index = v.index
          /\ w.counts = v.counts /\ w.kind = v.kind /\ w.base = v.base /\ w.request = v.request
        BY <1>4, <2>1
    <2>4. v.base # Blank =>
              /\ states'[v.base].table = states[v.base].table
              /\ states'[v.base].membership = states[v.base].membership
              /\ states'[v.base].index = states[v.base].index
        BY <1>4, <2>2
    <2>5. RowsMeant(w, states'[w.base], s) = RowsMeant(v, states[v.base], s)
        BY <2>3, <2>4 DEF RowsMeant, Derived
    <2>6. /\ (IF w.base = Blank THEN NoIndex ELSE states'[w.base].membership)
               = (IF v.base = Blank THEN NoIndex ELSE states[v.base].membership)
          /\ (IF w.base = Blank THEN NoIndex ELSE states'[w.base].index)
               = (IF v.base = Blank THEN NoIndex ELSE states[v.base].index)
        BY <2>3, <2>4
    <2>7. ASSUME NEW rows, NEW was, NEW old, Built(v, rows, was, old, s) PROVE Built(w, rows, was, old, s)
        BY <2>3, <2>7 DEF Built
    <2>8. Sound(v) => Sound(w)
        BY <2>3 DEF Sound
    <2>9. Stands(w, states'[w.base], s)
        BY <2>2, <2>3, <2>5, <2>6, <2>7, <2>8 DEF Stands
    <2> QED
        BY <2>1, <2>2, <2>3, <2>9
<1>6. ASSUME NEW e \in Callers PROVE Found(gcall[e])'
    <2>1. PICK y : y = gcall[e]
        OBVIOUS
    <2>2. Found(y)
        BY <2>1 DEF TablesInv
    <2>3. Found(y)'
        BY <1>3, <1>4, <2>2 DEF Found, Published
    <2> QED
        BY <1>3, <2>1, <2>3
<1> QED
    BY <1>3, <1>5, <1>6 DEF TablesInv, Published

LEMMA TablesStep == TablesInv /\ GenerationInv /\ [GenerationNext]_gvars => TablesInv'
<1> SUFFICES ASSUME TablesInv, GenerationInv, [GenerationNext]_gvars PROVE TablesInv'
    OBVIOUS
<1>1. ASSUME NEW c \in Callers, NEW p \in Pins, NEW d \in GTargets[p], Resolve(c, p, d) PROVE TablesInv'
    BY <1>1, TablesResolve
<1>2. ASSUME NEW c \in Callers, NEW b \in GBatches, NEW q \in GRequests[b], Derive(c, b, q) PROVE TablesInv'
    BY <1>2, TablesDerive
<1>3. ASSUME NEW c \in Callers, NEW ok \in BOOLEAN, SelectRetained(c, ok) \/ Stage(c, ok) PROVE TablesInv'
    BY <1>3, TablesAdmission
<1>4. ASSUME NEW c \in Callers, OpenAdmission(c) \/ FailPublish(c) \/ AskAgain(c) PROVE TablesInv'
    <2>1. TRUE \in BOOLEAN
        OBVIOUS
    <2> QED
        BY <1>4, <2>1, TablesAdmission
<1>5. ASSUME NEW c \in Callers, PublishAdmission(c) \/ PublishDerivation(c) PROVE TablesInv'
    BY <1>5, PublishedAdmission, PublishedDerivation
<1>6. ASSUME NEW c \in Callers, Advance(c) \/ Killed(c) PROVE TablesInv'
    <2>1. gcall[c] \in GenerationCall
        BY DEF GenerationInv, GenerationTypeOK
    <2>2. \E outcome \in {"refused", "done", "stale"} : Ends(c, outcome)
        BY <1>6 DEF Advance, Killed
    <2>3. UNCHANGED <<states, offered>>
        BY <1>6 DEF Advance, Killed, NothingWritten
    <2> QED
        BY <2>1, <2>2, <2>3, TablesEnd DEF Ends
<1>7. ASSUME NEW s \in DOMAIN states, RemoveState(s) PROVE TablesInv'
    BY <1>7, TablesRemoval
<1>8. CASE UNCHANGED gvars
    BY <1>8 DEF gvars, TablesInv, Found, Published
<1> QED
    BY <1>1, <1>2, <1>3, <1>4, <1>5, <1>6, <1>7, <1>8 DEF GenerationNext

\* Every published table state, however many generations and derivations it was built over, holds the
\* rows its artifact or request means at their occurrences, with an index of first states and counts
\* that add up; and an artifact that passes the checks is complete, agrees with its publication and
\* matches its receipts row for row.
THEOREM GenerationsAreExact == GenerationSpec => []GenerationExact
<1>1. TablesInv => GenerationExact
    <2> SUFFICES ASSUME TablesInv PROVE GenerationExact
        OBVIOUS
    <2>1. offered # Blank /\ Selectable(offered) /\ Verified(offered) => Trustworthy(offered)
        BY ArtifactsAssumption, VerifiedTrustworthy DEF TablesInv
    <2>2. ASSUME NEW s \in DOMAIN states
          PROVE  LET u == states[s]
                     old == Inherited(s)
                     rows == Meant(s)
                     was == IF u.base = Blank THEN NoIndex ELSE states[u.base].membership
                 IN  /\ u.table = rows
                     /\ u.membership = Mint(rows, u.columns)
                     /\ DOMAIN u.index = DOMAIN old \cup Range(u.membership)
                     /\ \A o \in DOMAIN u.index : u.index[o] = IF o \in DOMAIN old THEN old[o] ELSE s
                     /\ u.counts.added = Cardinality(DOMAIN rows \ DOMAIN was)
                     /\ u.counts.removed = Cardinality(DOMAIN was \ DOMAIN rows)
                     /\ u.counts.changed = Cardinality({k \in DOMAIN rows \cap DOMAIN was : u.membership[k] # was[k]})
                     /\ u.counts.generated = Cardinality(DOMAIN u.index \ DOMAIN old)
                     /\ u.kind = "admitted" =>
                           s \in TrustworthyPins /\ Cardinality(DOMAIN rows) = GArtifact[s].tables[GTable].rows
        <3>1. PICK u : u = states[s]
            OBVIOUS
        <3>2. PICK old, rows, was : /\ old = Inherited(s) /\ rows = Meant(s)
                                    /\ was = IF u.base = Blank THEN NoIndex ELSE states[u.base].membership
            OBVIOUS
        <3>3. Stands(u, states[u.base], s)
            BY <3>1 DEF TablesInv
        <3>4. rows = RowsMeant(u, states[u.base], s)
            BY <3>1, <3>2 DEF Meant, RowsMeant, Derived
        <3>5. old = IF u.base = Blank THEN NoIndex ELSE states[u.base].index
            BY <3>1, <3>2 DEF Inherited
        <3>6. Built(u, rows, was, old, s)
            BY <3>2, <3>3, <3>4, <3>5 DEF Stands
        <3>7. u.kind = "admitted" =>
                  s \in TrustworthyPins /\ Cardinality(DOMAIN rows) = GArtifact[s].tables[GTable].rows
            BY <3>3, <3>4 DEF Stands, RowsMeant
        <3>8. /\ u.table = rows
              /\ u.membership = Mint(rows, u.columns)
              /\ DOMAIN u.index = DOMAIN old \cup Range(u.membership)
              /\ \A o \in DOMAIN u.index : u.index[o] = IF o \in DOMAIN old THEN old[o] ELSE s
              /\ u.counts.added = Cardinality(DOMAIN rows \ DOMAIN was)
              /\ u.counts.removed = Cardinality(DOMAIN was \ DOMAIN rows)
              /\ u.counts.changed = Cardinality({k \in DOMAIN rows \cap DOMAIN was : u.membership[k] # was[k]})
              /\ u.counts.generated = Cardinality(DOMAIN u.index \ DOMAIN old)
            BY <3>6 DEF Built
        <3> QED
            BY <3>1, <3>2, <3>7, <3>8
    <2> QED
        BY <2>1, <2>2 DEF GenerationExact
<1> QED
    BY GenerationStarts, GenerationStep, TablesStart, TablesStep, <1>1, PTL DEF GenerationSpec
=============================================================================
