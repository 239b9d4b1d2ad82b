------------------------------ MODULE StatesProof ------------------------------
(***************************************************************************)
(* Keyed states, reuse of results and selections over states, each for     *)
(* every value of its constants.                                           *)
(*                                                                         *)
(* States: a state's representations agree with one another, since each    *)
(* was checked against an available one; a revision was computed from what *)
(* its base means; and so along a chain of certificates a key that no      *)
(* revision touches keeps its occurrence.                                  *)
(*                                                                         *)
(* Selections: the rows of a nearer selection, with those of the keys      *)
(* certified to be touched since, are the rows of the state; and counts of *)
(* what is compared are equal when the counts of those keys are.           *)
(*                                                                         *)
(* Reuse: while a session is open nothing is removed, so that inputs,      *)
(* evidence and comparisons only grow; what a session read under a version *)
(* of a result is therefore still so while the result has that version;    *)
(* and a removal leaves alone what a standing choice rests on.             *)
(***************************************************************************)
EXTENDS States, Reuse, Selections, FiniteSetTheorems, SequenceTheorems, WellFoundedInduction, TLAPS

(* Keyed states.                                                           *)

\* An entity layer or none; a revision or none.
Entities == {Absence} \cup SUBSET Occs
Numbers == {Absence} \cup Nat

Reps == [state : StateIds, members : Membership, entities : Entities,
         revision : Numbers, there : BOOLEAN]
Revs == [base : StateIds, result : StateIds, edits : Edits, was : Membership, there : BOOLEAN]

Typed(rs, vs, m, cs) ==
    /\ rs \in Seq(Reps) /\ vs \in Seq(Revs)
    /\ m \in [StateIds -> Nat \cup {Absence}]
    /\ cs \subseteq (DOMAIN rs) \X (DOMAIN vs)

\* What a representation holds.
HoldsOwn(r) == r.entities = Absence \/ Used(r.members) \subseteq r.entities

\* A state means one membership.
OneMeaning(rs) == \A i, j \in DOMAIN rs : rs[i].state = rs[j].state => rs[i].members = rs[j].members

\* A revision was computed from what its base means, and a certificate names what it gives.
RevisionsRight(rs, vs, cs) ==
    /\ \A j \in DOMAIN vs : /\ \E i \in DOMAIN rs : rs[i].state = vs[j].base
                            /\ \A i \in DOMAIN rs : rs[i].state = vs[j].base => rs[i].members = vs[j].was
    /\ \A c \in cs : /\ c[1] \in DOMAIN rs /\ c[2] \in DOMAIN vs
                     /\ rs[c[1]].members = Resolved(vs[c[2]].was, vs[c[2]].edits)

MainsRight(rs, m) == \A s \in StateIds : (\E i \in DOMAIN rs : rs[i].state = s /\ rs[i].there) =>
                        m[s] \in DOMAIN rs /\ rs[m[s]].state = s /\ rs[m[s]].there

\* What holds of every history of states.
Histories(rs, vs, m, cs) ==
    /\ Typed(rs, vs, m, cs)
    /\ \A i \in DOMAIN rs : HoldsOwn(rs[i])
    /\ OneMeaning(rs)
    /\ RevisionsRight(rs, vs, cs)
    /\ MainsRight(rs, m)

StatesInv == Histories(reps, revs, main, certs)

-----------------------------------------------------------------------------
\* Iteration.

\* A function that starts at a and goes on by F exists.
LEMMA Iterated ==
    ASSUME NEW X, NEW a \in X, NEW N \in Nat, NEW F \in [1..N -> [X -> X]]
    PROVE  \E g \in [0..N -> X] : g[0] = a /\ \A n \in 1..N : g[n] = F[n][g[n - 1]]
<1> DEFINE Good(M) == \E g \in [0..M -> X] : g[0] = a /\ \A n \in 1..M : g[n] = F[n][g[n - 1]]
           T == {M \in Nat : M <= N /\ ~ Good(M)}
<1>1. SUFFICES ASSUME ~ Good(N) PROVE FALSE
  OBVIOUS
<1> HIDE DEF Good
<1>2. N \in T /\ T \subseteq Nat
  BY <1>1
<1>3. PICK M \in T : \A u \in T : ~ (<<u, M>> \in OpToRel(<, Nat))
  <2> HIDE DEF T
  <2> QED
    BY <1>2, WFMin, NatLessThanWellFounded
<1>4. M \in Nat /\ M <= N /\ ~ Good(M)
  OBVIOUS
<1>5. CASE M = 0
  <2> DEFINE g == [n \in 0..0 |-> a]
  <2>1. g \in [0..0 -> X] /\ g[0] = a /\ \A n \in 1..0 : g[n] = F[n][g[n - 1]]
    OBVIOUS
  <2>2. Good(0)
    BY <2>1 DEF Good
  <2> QED
    BY <1>4, <1>5, <2>2
<1>6. CASE M # 0
  <2>1. M - 1 \in Nat /\ M - 1 < M /\ M - 1 <= N /\ M \in 1..N
    BY <1>4, <1>6
  <2>2. Good(M - 1)
    <3>1. <<M - 1, M>> \in OpToRel(<, Nat)
      BY <1>4, <2>1 DEF OpToRel
    <3>2. M - 1 \notin T
      BY <1>3, <3>1
    <3> QED
      BY <2>1, <3>2
  <2>3. PICK h \in [0..(M - 1) -> X] : h[0] = a /\ \A n \in 1..(M - 1) : h[n] = F[n][h[n - 1]]
    BY <2>2 DEF Good
  <2> DEFINE g == [n \in 0..M |-> IF n = M THEN F[M][h[M - 1]] ELSE h[n]]
  <2>4. F[M][h[M - 1]] \in X
    BY <2>1, <2>3
  <2>5. g \in [0..M -> X]
    BY <1>4, <2>3, <2>4
  <2>6. g[0] = a
    BY <1>4, <1>6, <2>3
  <2>7. \A n \in 1..M : g[n] = F[n][g[n - 1]]
    <3> TAKE n \in 1..M
    <3>1. n - 1 \in 0..M /\ n - 1 # M /\ g[n - 1] = h[n - 1]
      BY <1>4
    <3>2. CASE n = M
      BY <3>1, <3>2, <1>4
    <3>3. CASE n # M
      <4>1. n \in 1..(M - 1) /\ g[n] = h[n]
        BY <3>3, <1>4
      <4> QED
        BY <4>1, <3>1, <2>3
    <3> QED
      BY <3>2, <3>3
  <2> HIDE DEF g
  <2> QED
    BY <2>5, <2>6, <2>7, <1>4 DEF Good
<1> QED
  BY <1>5, <1>6

-----------------------------------------------------------------------------
\* Edits.

\* The memberships that edits lead to, one after the other.
LEMMA AppliedSteps ==
    ASSUME NEW base \in Membership, NEW edits \in Edits
    PROVE  \E g \in [0..Len(edits) -> Membership] :
             /\ g[0] = base /\ Applied(base, edits) = g[Len(edits)]
             /\ \A n \in 1..Len(edits) : g[n] = [g[n - 1] EXCEPT ![edits[n].key] = edits[n].occ]
<1> DEFINE N == Len(edits)
           F == [n \in 1..N |-> [m \in Membership |-> [m EXCEPT ![edits[n].key] = edits[n].occ]]]
           body(f) == [i \in 0..N |-> IF i = 0 THEN base ELSE [f[i - 1] EXCEPT ![edits[i].key] = edits[i].occ]]
           after[i \in 0..N] == IF i = 0 THEN base ELSE [after[i - 1] EXCEPT ![edits[i].key] = edits[i].occ]
<1>1. N \in Nat /\ \A n \in 1..N : edits[n].key \in MemberKeys /\ edits[n].occ \in Occs \cup {Absence}
  BY StatesAssumption DEF Edits
<1>2. F \in [1..N -> [Membership -> Membership]]
  BY <1>1 DEF Membership
<1>3. PICK g \in [0..N -> Membership] : g[0] = base /\ \A n \in 1..N : g[n] = F[n][g[n - 1]]
  <2> HIDE DEF F, N
  <2> QED
    BY <1>1, <1>2, Iterated
<1>4. \A n \in 1..N : g[n] = [g[n - 1] EXCEPT ![edits[n].key] = edits[n].occ]
  <2> TAKE n \in 1..N
  <2>1. g[n - 1] \in Membership
    BY <1>1
  <2> QED
    BY <1>3, <2>1
<1>5. g = body(g)
  <2> HIDE DEF N, F
  <2>1. \A i \in 0..N : g[i] = IF i = 0 THEN base ELSE [g[i - 1] EXCEPT ![edits[i].key] = edits[i].occ]
    <3> TAKE i \in 0..N
    <3>1. CASE i = 0
      BY <3>1, <1>3
    <3>2. CASE i # 0
      <4>1. i \in 1..N
        BY <3>2, <1>1
      <4> QED
        BY <4>1, <3>2, <1>4
    <3> QED
      BY <3>1, <3>2
  <2> QED
    BY <2>1
<1>6. after = body(after)
  BY <1>5
<1>7. Applied(base, edits) = after[N]
  BY DEF Applied
<1> HIDE DEF after, F, N
<1>8. \A n \in 0..N : after[n] = IF n = 0 THEN base ELSE [after[n - 1] EXCEPT ![edits[n].key] = edits[n].occ]
  BY <1>6
<1> DEFINE T == {n \in Nat : n <= N /\ after[n] # g[n]}
<1>9. T = {}
  <2> SUFFICES ASSUME T # {} PROVE FALSE
    OBVIOUS
  <2>1. PICK n \in T : \A u \in T : ~ (<<u, n>> \in OpToRel(<, Nat))
    BY WFMin, NatLessThanWellFounded
  <2>2. n \in Nat /\ n \in 0..N /\ after[n] # g[n]
    BY <1>1
  <2>3. n # 0
    BY <2>2, <1>3, <1>8
  <2>4. n \in 1..N /\ n - 1 \in Nat /\ n - 1 <= N /\ n - 1 < n
    BY <2>2, <2>3, <1>1
  <2>5. after[n - 1] = g[n - 1]
    <3>1. <<n - 1, n>> \in OpToRel(<, Nat)
      BY <2>2, <2>4 DEF OpToRel
    <3> QED
      BY <2>1, <2>4, <3>1
  <2>6. after[n] = [after[n - 1] EXCEPT ![edits[n].key] = edits[n].occ]
    BY <1>8, <2>2, <2>3
  <2>7. g[n] = [g[n - 1] EXCEPT ![edits[n].key] = edits[n].occ]
    BY <1>4, <2>4
  <2>8. after[n] = g[n]
    BY <2>5, <2>6, <2>7
  <2> QED
    BY <2>2, <2>8
<1>10. after[N] = g[N]
  BY <1>1, <1>9
<1> QED
  BY <1>3, <1>4, <1>7, <1>10 DEF N

\* The latest edit of a key that is edited.
LEMMA LatestThere ==
    ASSUME NEW edits \in Edits, NEW k \in Touched(edits)
    PROVE  \E i \in DOMAIN edits : /\ edits[i].key = k /\ Latest(edits, k) = edits[i]
                                   /\ \A j \in DOMAIN edits : edits[j].key = k => j <= i
<1>1. Len(edits) \in Nat /\ DOMAIN edits = 1..Len(edits)
  BY StatesAssumption DEF Edits
<1> DEFINE N == Len(edits)
           T == {n \in Nat : n <= N /\ N - n \in DOMAIN edits /\ edits[N - n].key = k}
<1>2. T # {}
  <2>1. PICK i \in DOMAIN edits : edits[i].key = k
    BY DEF Touched
  <2>2. N - i \in Nat /\ N - (N - i) = i /\ N - i <= N
    BY <1>1
  <2> QED
    BY <2>1, <2>2
<1>3. PICK n \in T : \A u \in T : ~ (<<u, n>> \in OpToRel(<, Nat))
  BY <1>2, WFMin, NatLessThanWellFounded
<1>4. N - n \in DOMAIN edits /\ edits[N - n].key = k /\ \A j \in DOMAIN edits : edits[j].key = k => j <= N - n
  <2> SUFFICES ASSUME NEW j \in DOMAIN edits, edits[j].key = k, ~ (j <= N - n) PROVE FALSE
    OBVIOUS
  <2>1. j \in Nat /\ n \in Nat /\ n <= N /\ j <= N
    BY <1>1
  <2>2. N - j \in Nat /\ N - j < n /\ N - (N - j) = j /\ N - j <= N
    BY <1>1, <2>1
  <2>3. N - j \in T
    BY <2>2
  <2>4. <<N - j, n>> \in OpToRel(<, Nat)
    BY <2>1, <2>2 DEF OpToRel
  <2> QED
    BY <1>3, <2>3, <2>4
<1> DEFINE i == CHOOSE i \in DOMAIN edits :
                    edits[i].key = k /\ \A j \in DOMAIN edits : edits[j].key = k => j <= i
<1>5. i \in DOMAIN edits /\ edits[i].key = k /\ \A j \in DOMAIN edits : edits[j].key = k => j <= i
  BY <1>4
<1> QED
  BY <1>5 DEF Latest

\* One query over the edits resolves to what they mean one after the other.
LEMMA AppliedResolved ==
    ASSUME NEW base \in Membership, NEW edits \in Edits
    PROVE  Applied(base, edits) = Resolved(base, edits) /\ Resolved(base, edits) \in Membership
<1> DEFINE N == Len(edits)
<1>1. N \in Nat /\ DOMAIN edits = 1..N
      /\ \A n \in 1..N : edits[n].key \in MemberKeys /\ edits[n].occ \in Occs \cup {Absence}
  BY StatesAssumption DEF Edits
<1>2. PICK g \in [0..N -> Membership] :
             /\ g[0] = base /\ Applied(base, edits) = g[N]
             /\ \A n \in 1..N : g[n] = [g[n - 1] EXCEPT ![edits[n].key] = edits[n].occ]
  BY AppliedSteps
<1> HIDE DEF N
<1>3. \A n \in 1..N, k \in MemberKeys : g[n][k] = IF edits[n].key = k THEN edits[n].occ ELSE g[n - 1][k]
  <2> TAKE n \in 1..N, k \in MemberKeys
  <2>1. g[n - 1] \in Membership
    BY <1>1, <1>2
  <2> QED
    BY <2>1, <1>2 DEF Membership
<1>4. ASSUME NEW k \in MemberKeys, NEW i \in 0..N, \A j \in (i + 1)..N : edits[j].key # k
      PROVE  g[N][k] = g[i][k]
  <2> DEFINE T == {n \in Nat : i <= n /\ n <= N /\ g[n][k] # g[i][k]}
  <2>1. SUFFICES ASSUME T # {} PROVE FALSE
    BY <1>1, <1>4
  <2>2. PICK n \in T : \A u \in T : ~ (<<u, n>> \in OpToRel(<, Nat))
    BY <2>1, WFMin, NatLessThanWellFounded
  <2>3. n \in Nat /\ i <= n /\ n <= N /\ n # i /\ i \in Nat
    BY <1>1, <1>4
  <2>4. n \in 1..N /\ n \in (i + 1)..N /\ n - 1 \in Nat /\ i <= n - 1 /\ n - 1 <= N /\ n - 1 < n
    BY <1>1, <2>3
  <2>5. g[n - 1][k] = g[n][k]
    BY <1>3, <1>4, <2>4
  <2>6. n - 1 \in T
    BY <2>4, <2>5
  <2>7. <<n - 1, n>> \in OpToRel(<, Nat)
    BY <2>3, <2>4 DEF OpToRel
  <2> QED
    BY <2>2, <2>6, <2>7
<1>5. \A k \in MemberKeys : g[N][k] = IF k \in Touched(edits) THEN Latest(edits, k).occ ELSE base[k]
  <2> TAKE k \in MemberKeys
  <2>1. CASE k \in Touched(edits)
    <3>1. PICK i \in DOMAIN edits : /\ edits[i].key = k /\ Latest(edits, k) = edits[i]
                                    /\ \A j \in DOMAIN edits : edits[j].key = k => j <= i
      BY <2>1, LatestThere
    <3>2. i \in 1..N /\ i \in 0..N /\ \A j \in (i + 1)..N : edits[j].key # k
      BY <1>1, <3>1
    <3>3. g[N][k] = g[i][k]
      BY <1>4, <3>2
    <3> QED
      BY <1>3, <2>1, <3>1, <3>2, <3>3
  <2>2. CASE k \notin Touched(edits)
    <3>1. 0 \in 0..N /\ \A j \in (0 + 1)..N : edits[j].key # k
      BY <1>1, <2>2 DEF Touched
    <3> QED
      BY <1>2, <1>4, <2>2, <3>1
  <2> QED
    BY <2>1, <2>2
<1>6. g[N] \in Membership
  BY <1>1, <1>2
<1>7. g[N] = Resolved(base, edits)
  BY <1>5, <1>6 DEF Membership, Resolved
<1> QED
  BY <1>2, <1>6, <1>7
-----------------------------------------------------------------------------
\* Differences.

\* What a choice of certificates gives.
LEMMA Picked ==
    ASSUME NEW pick \in Picks, NEW s \in StateIds, pick[s] # Absence
    PROVE  \E c \in certs : c[2] = pick[s] /\ reps[c[1]].state = s
<1>1. pick[s] \in IF Certified(s) = {} THEN {Absence} ELSE Certified(s)
  BY DEF Picks
<1>2. pick[s] \in Certified(s)
  BY <1>1
<1> QED
  BY <1>2 DEF Certified

\* A revision's fields.
LEMMA RevisionFields ==
    ASSUME StatesInv, NEW j \in DOMAIN revs
    PROVE  /\ revs[j].base \in StateIds /\ revs[j].edits \in Edits /\ revs[j].was \in Membership
<1>1. revs \in Seq(Revs)
  BY DEF StatesInv, Histories, Typed
<1>2. revs[j] \in Revs
  <2> HIDE DEF Revs
  <2> QED
    BY <1>1
<1> HIDE DEF Edits, Membership, StateIds
<1> QED
  BY <1>2 DEF Revs

\* A certificate names a revision.
LEMMA CertNames == ASSUME StatesInv, NEW c \in certs PROVE c[1] \in DOMAIN reps /\ c[2] \in DOMAIN revs
  BY DEF StatesInv, Histories, RevisionsRight

\* A way that one state's certificate leads to the next.
Ways(pick, new) ==
    {w \in Seq(StateIds) :
        /\ Len(w) >= 1 /\ w[1] = new
        /\ \A i \in 1..(Len(w) - 1) : pick[w[i]] # Absence /\ w[i + 1] = revs[pick[w[i]]].base}

LEMMA WalkWay ==
    ASSUME StatesInv, NEW pick \in Picks, NEW new \in StateIds, NEW old \in StateIds
    PROVE  Walk(pick, new, old) \in Ways(pick, new)
<1> DEFINE X == Ways(pick, new)
           next(n, w) == IF Last(w) = old \/ Len(w) < n \/ pick[Last(w)] = Absence THEN w
                         ELSE Append(w, revs[pick[Last(w)]].base)
           F == [n \in 1..MaxStates |-> [w \in X |-> next(n, w)]]
           body(f) == [n \in 0..MaxStates |->
                          IF n = 0 THEN <<new>>
                          ELSE LET w == f[n - 1]
                                   s == Last(w)
                               IN  IF s = old \/ Len(w) < n \/ pick[s] = Absence THEN w
                                   ELSE Append(w, revs[pick[s]].base)]
           step[n \in 0..MaxStates] ==
               IF n = 0 THEN <<new>>
               ELSE LET w == step[n - 1]
                        s == Last(w)
                    IN  IF s = old \/ Len(w) < n \/ pick[s] = Absence THEN w
                        ELSE Append(w, revs[pick[s]].base)
<1>1. MaxStates \in Nat
  BY StatesAssumption
<1>2. <<new>> \in X
  <2>1. <<new>> \in Seq(StateIds) /\ Len(<<new>>) = 1 /\ <<new>>[1] = new
    OBVIOUS
  <2>2. \A i \in 1..(1 - 1) : FALSE
    OBVIOUS
  <2> QED
    BY <2>1, <2>2 DEF Ways
<1>3. ASSUME NEW n \in 1..MaxStates, NEW w \in X PROVE next(n, w) \in X
  <2> DEFINE s == Last(w)
             v == Append(w, revs[pick[s]].base)
  <2>1. w \in Seq(StateIds) /\ Len(w) >= 1 /\ Len(w) \in Nat /\ w[1] = new /\ s = w[Len(w)] /\ s \in StateIds
    BY DEF Ways, Last
  <2>2. CASE pick[s] = Absence
    BY <2>2
  <2>3. CASE pick[s] # Absence
    <3>1. PICK c \in certs : c[2] = pick[s] /\ reps[c[1]].state = s
      BY <2>1, <2>3, Picked
    <3>2. revs[pick[s]].base \in StateIds
      BY <3>1, CertNames, RevisionFields
    <3> HIDE DEF s
    <3>3. v \in Seq(StateIds) /\ Len(v) = Len(w) + 1 /\ v[Len(w) + 1] = revs[pick[s]].base
          /\ \A i \in 1..Len(w) : v[i] = w[i]
      BY <2>1, <3>2
    <3>4. v[1] = new
      BY <2>1, <3>3
    <3>5. ASSUME NEW i \in 1..(Len(v) - 1) PROVE pick[v[i]] # Absence /\ v[i + 1] = revs[pick[v[i]]].base
      <4>1. CASE i = Len(w)
        BY <4>1, <2>1, <2>3, <3>3
      <4>2. CASE i # Len(w)
        <5>1. i \in 1..(Len(w) - 1) /\ i \in 1..Len(w) /\ i + 1 \in 1..Len(w)
          BY <4>2, <2>1, <3>3
        <5> QED
          BY <5>1, <3>3 DEF Ways
      <4> QED
        BY <4>1, <4>2
    <3>6. Len(v) >= 1
      BY <2>1, <3>3
    <3>7. v \in X
      <4> HIDE DEF v
      <4> QED
        BY <3>3, <3>4, <3>5, <3>6 DEF Ways
    <3> QED
      BY <3>7 DEF s
  <2> QED
    BY <2>2, <2>3
<1>4. F \in [1..MaxStates -> [X -> X]]
  <2> HIDE DEF X, next
  <2> QED
    BY <1>3
<1>5. PICK g \in [0..MaxStates -> X] : g[0] = <<new>> /\ \A n \in 1..MaxStates : g[n] = F[n][g[n - 1]]
  <2> DEFINE a == <<new>>
  <2> HIDE DEF F, X, step, body, next, a
  <2>1. \E g \in [0..MaxStates -> X] : g[0] = a /\ \A n \in 1..MaxStates : g[n] = F[n][g[n - 1]]
    <3>1. a \in X
      BY <1>2 DEF a
    <3> QED
      BY <1>1, <3>1, <1>4, Iterated
  <2>2. a = <<new>>
    BY DEF a
  <2> QED
    BY <2>1, <2>2
<1>6. \A n \in 1..MaxStates : g[n] = next(n, g[n - 1])
  <2> TAKE n \in 1..MaxStates
  <2> HIDE DEF X, next
  <2>1. g[n - 1] \in X
    BY <1>1
  <2> QED
    BY <1>5, <2>1
<1>7. g = body(g)
  <2> HIDE DEF X, F
  <2>1. \A i \in 0..MaxStates : g[i] = IF i = 0 THEN <<new>> ELSE next(i, g[i - 1])
    <3> TAKE i \in 0..MaxStates
    <3> HIDE DEF next
    <3>1. CASE i = 0
      BY <3>1, <1>5
    <3>2. CASE i # 0
      <4>1. i \in 1..MaxStates
        BY <3>2, <1>1
      <4> QED
        BY <4>1, <3>2, <1>6
    <3> QED
      BY <3>1, <3>2
  <2>2. body(g) = [i \in 0..MaxStates |-> IF i = 0 THEN <<new>> ELSE next(i, g[i - 1])]
    OBVIOUS
  <2> HIDE DEF next, body
  <2> QED
    BY <2>1, <2>2
<1>8. step = body(step)
  <2> HIDE DEF X, F
  <2> QED
    BY <1>7
<1>9. Walk(pick, new, old) = step[MaxStates]
  BY DEF Walk
<1> HIDE DEF step, X, F
<1>10. \A n \in 0..MaxStates : step[n] = IF n = 0 THEN <<new>> ELSE next(n, step[n - 1])
  BY <1>8
<1> HIDE DEF next, body
<1> DEFINE T == {n \in Nat : n <= MaxStates /\ step[n] # g[n]}
<1>11. T = {}
  <2> SUFFICES ASSUME T # {} PROVE FALSE
    OBVIOUS
  <2>1. PICK n \in T : \A u \in T : ~ (<<u, n>> \in OpToRel(<, Nat))
    BY WFMin, NatLessThanWellFounded
  <2>2. n \in Nat /\ n \in 0..MaxStates /\ step[n] # g[n]
    BY <1>1
  <2>3. n # 0
    BY <2>2, <1>5, <1>10
  <2>4. n \in 1..MaxStates /\ n - 1 \in Nat /\ n - 1 <= MaxStates /\ n - 1 < n
    BY <2>2, <2>3, <1>1
  <2>5. step[n - 1] = g[n - 1]
    <3>1. <<n - 1, n>> \in OpToRel(<, Nat)
      BY <2>2, <2>4 DEF OpToRel
    <3> QED
      BY <2>1, <2>4, <3>1
  <2>6. step[n] = next(n, step[n - 1])
    BY <1>10, <2>2, <2>3
  <2>7. g[n] = next(n, g[n - 1])
    BY <1>6, <2>4
  <2> QED
    BY <2>2, <2>5, <2>6, <2>7
<1>12. step[MaxStates] = g[MaxStates]
  BY <1>1, <1>11
<1>13. g[MaxStates] \in X
  BY <1>1
<1> QED
  BY <1>9, <1>12, <1>13 DEF X

\* Along a way, a key that no revision touches keeps its occurrence.
LEMMA Untouched ==
    ASSUME StatesInv, NEW pick \in Picks, NEW new \in StateIds, NEW w \in Ways(pick, new),
           NEW k \in MemberKeys, \A i \in 1..(Len(w) - 1) : k \notin Touched(revs[pick[w[i]]].edits),
           NEW a \in DOMAIN reps, reps[a].state = new,
           NEW b \in DOMAIN reps, reps[b].state = Last(w)
    PROVE  reps[a].members[k] = reps[b].members[k]
<1> DEFINE Same(n) == \A j \in DOMAIN reps : reps[j].state = w[n] => reps[j].members[k] = reps[a].members[k]
           T == {n \in Nat : n >= 1 /\ n <= Len(w) /\ ~ Same(n)}
<1>1. w \in Seq(StateIds) /\ Len(w) \in Nat /\ Len(w) >= 1 /\ w[1] = new /\ Last(w) = w[Len(w)]
      /\ \A i \in 1..(Len(w) - 1) : pick[w[i]] # Absence /\ w[i + 1] = revs[pick[w[i]]].base
  BY DEF Ways, Last
<1>2. Same(1)
  BY <1>1 DEF StatesInv, Histories, OneMeaning
<1>3. ASSUME NEW n \in 1..(Len(w) - 1), Same(n) PROVE Same(n + 1)
  <2>1. w[n] \in StateIds /\ pick[w[n]] # Absence /\ w[n + 1] = revs[pick[w[n]]].base
    BY <1>1
  <2>2. PICK c \in certs : c[2] = pick[w[n]] /\ reps[c[1]].state = w[n]
    BY <2>1, Picked
  <2> DEFINE v == revs[c[2]]
  <2>3. c[1] \in DOMAIN reps /\ c[2] \in DOMAIN revs /\ reps[c[1]].members = Resolved(v.was, v.edits)
        /\ \A j \in DOMAIN reps : reps[j].state = v.base => reps[j].members = v.was
    BY DEF StatesInv, Histories, RevisionsRight
  <2>4. k \notin Touched(v.edits)
    BY <2>2
  <2>5. reps[c[1]].members[k] = v.was[k]
    BY <2>3, <2>4 DEF Resolved
  <2> QED
    BY <1>3, <2>1, <2>2, <2>3, <2>5
<1> HIDE DEF Same
<1>4. T = {}
  <2> SUFFICES ASSUME T # {} PROVE FALSE
    OBVIOUS
  <2>1. PICK n \in T : \A u \in T : ~ (<<u, n>> \in OpToRel(<, Nat))
    BY WFMin, NatLessThanWellFounded
  <2>2. n \in Nat /\ n >= 1 /\ n <= Len(w) /\ ~ Same(n)
    OBVIOUS
  <2>3. n # 1
    BY <1>2, <2>2
  <2>4. n - 1 \in Nat /\ n - 1 >= 1 /\ n - 1 <= Len(w) /\ n - 1 < n /\ n - 1 \in 1..(Len(w) - 1) /\ (n - 1) + 1 = n
    BY <1>1, <2>2, <2>3
  <2>5. Same(n - 1)
    <3>1. <<n - 1, n>> \in OpToRel(<, Nat)
      BY <2>2, <2>4 DEF OpToRel
    <3> QED
      BY <2>1, <2>4, <3>1
  <2> QED
    BY <1>3, <2>2, <2>4, <2>5
<1>5. Same(Len(w))
  BY <1>1, <1>4
<1> QED
  BY <1>1, <1>5 DEF Same

\* The layers read of a readable state are those of one of its representations.
LEMMA LayersOf ==
    ASSUME NEW s \in StateIds, Readable(s)
    PROVE  \E i \in DOMAIN reps : Layers(s) = reps[i] /\ reps[i].state = s
<1> DEFINE i == IF main[s] \in Bulk(s) THEN main[s] ELSE CHOOSE i \in Bulk(s) : TRUE
<1>1. i \in Bulk(s)
  BY DEF Readable
<1> QED
  BY <1>1 DEF Layers, Bulk, There, OfState

LEMMA ChangesRead ==
    ASSUME StatesInv
    PROVE  ChangesExact
<1> SUFFICES ASSUME NEW new \in StateIds, NEW old \in StateIds, Readable(new), Readable(old), NEW pick \in Picks
             PROVE  Differing(pick, new, old) = Difference(new, old)
  BY DEF ChangesExact
<1> DEFINE w == Walk(pick, new, old)
<1>1. w \in Ways(pick, new)
  BY WalkWay
<1>2. PICK a \in DOMAIN reps : Layers(new) = reps[a] /\ reps[a].state = new
  BY LayersOf
<1>3. PICK b \in DOMAIN reps : Layers(old) = reps[b] /\ reps[b].state = old
  BY LayersOf
<1>4. ChangedKeys(pick, new, old) = IF Last(w) # old THEN MemberKeys
                                    ELSE UNION {Touched(revs[pick[w[i]]].edits) : i \in 1..(Len(w) - 1)}
  BY DEF ChangedKeys
<1> HIDE DEF w
<1>5. CASE Last(w) # old
  BY <1>4, <1>5 DEF Differing, Difference
<1>6. CASE Last(w) = old
  <2>1. ASSUME NEW i \in 1..(Len(w) - 1) PROVE Touched(revs[pick[w[i]]].edits) \subseteq MemberKeys
    <3>1. w[i] \in StateIds /\ pick[w[i]] # Absence
      BY <1>1 DEF Ways
    <3>2. PICK c \in certs : c[2] = pick[w[i]] /\ reps[c[1]].state = w[i]
      BY <3>1, Picked
    <3>3. revs[pick[w[i]]].edits \in Edits
      BY <3>2, CertNames, RevisionFields
    <3> QED
      BY <3>3, StatesAssumption DEF Edits, Touched
  <2>2. \A k \in ChangedKeys(pick, new, old) : k \in MemberKeys
    BY <1>4, <1>6, <2>1
  <2>3. ASSUME NEW k \in MemberKeys, k \notin ChangedKeys(pick, new, old)
        PROVE  Layers(new).members[k] = Layers(old).members[k]
    <3>1. \A i \in 1..(Len(w) - 1) : k \notin Touched(revs[pick[w[i]]].edits)
      BY <1>4, <1>6, <2>3
    <3> QED
      BY <1>1, <1>2, <1>3, <1>6, <3>1, Untouched
  <2> QED
    BY <2>2, <2>3 DEF Differing, Difference
<1> QED
  BY <1>5, <1>6

\* What the invariant says of the states.
LEMMA StatesInvExact == StatesInv => StatesExact
<1> SUFFICES ASSUME StatesInv PROVE StatesExact
  OBVIOUS
<1>1. \A i \in DOMAIN reps : Inline(i) \/ Used(reps[i].members) \subseteq reps[i].entities
  BY DEF StatesInv, Histories, HoldsOwn, Inline
<1>2. \A i, j \in DOMAIN reps : reps[i].state = reps[j].state => reps[i].members = reps[j].members
  BY DEF StatesInv, Histories, OneMeaning
<1>3. ASSUME NEW c \in certs PROVE reps[c[1]].members = Applied(revs[c[2]].was, revs[c[2]].edits)
  <2>1. c[2] \in DOMAIN revs /\ reps[c[1]].members = Resolved(revs[c[2]].was, revs[c[2]].edits)
    BY DEF StatesInv, Histories, RevisionsRight
  <2>2. revs[c[2]].was \in Membership /\ revs[c[2]].edits \in Edits
    BY <2>1, RevisionFields
  <2> QED
    BY <2>1, <2>2, AppliedResolved
<1>4. ASSUME NEW s \in StateIds, There(s) # {} PROVE main[s] \in There(s)
  <2>1. \E i \in DOMAIN reps : reps[i].state = s /\ reps[i].there
    BY <1>4 DEF There, OfState
  <2>2. main[s] \in DOMAIN reps /\ reps[main[s]].state = s /\ reps[main[s]].there
    BY <2>1 DEF StatesInv, Histories, MainsRight
  <2> QED
    BY <2>2 DEF There, OfState
<1>5. ChangesExact
  BY ChangesRead
<1> QED
  BY <1>1, <1>2, <1>3, <1>4, <1>5 DEF StatesExact
-----------------------------------------------------------------------------
\* Steps.

\* A new representation that agrees with its state's.
LEMMA Published ==
    ASSUME StatesInv, NEW r \in Reps, r.there = TRUE, HoldsOwn(r), Agreeing(r.state, r.members)
    PROVE  LET rs == Append(reps, r)
               m == [main EXCEPT ![r.state] = Len(reps) + 1]
           IN  /\ Histories(rs, revs, m, certs)
               /\ Len(rs) = Len(reps) + 1 /\ DOMAIN rs = DOMAIN reps \cup {Len(rs)}
               /\ \A i \in DOMAIN reps : rs[i] = reps[i]
               /\ rs[Len(rs)] = r
<1> DEFINE n == Len(reps) + 1
           rs == Append(reps, r)
           m == [main EXCEPT ![r.state] = n]
<1>1. /\ reps \in Seq(Reps) /\ revs \in Seq(Revs) /\ main \in [StateIds -> Nat \cup {Absence}]
      /\ certs \subseteq (DOMAIN reps) \X (DOMAIN revs)
  BY DEF StatesInv, Histories, Typed
<1>2. /\ \A i \in DOMAIN reps : HoldsOwn(reps[i])
      /\ OneMeaning(reps) /\ RevisionsRight(reps, revs, certs) /\ MainsRight(reps, main)
  BY DEF StatesInv, Histories
<1>3. r.state \in StateIds
  <2> HIDE DEF StateIds, Membership
  <2> QED
    BY DEF Reps
<1>4. /\ rs \in Seq(Reps) /\ Len(rs) = n /\ DOMAIN rs = DOMAIN reps \cup {n} /\ n \notin DOMAIN reps
      /\ \A i \in DOMAIN reps : rs[i] = reps[i]
      /\ rs[n] = r /\ n \in Nat
  <2> HIDE DEF Reps
  <2> QED
    BY <1>1
<1>5. \A i \in DOMAIN reps : reps[i].state = r.state => reps[i].members = r.members
  <2> TAKE i \in DOMAIN reps
  <2> HAVE reps[i].state = r.state
  <2>1. i \in OfState(r.state)
    BY DEF OfState
  <2>2. PICK j \in There(r.state) : TRUE
    BY <2>1 DEF Agreeing
  <2>3. j \in DOMAIN reps /\ reps[j].state = r.state /\ reps[j].members = r.members
    BY <2>1 DEF Agreeing, There, OfState
  <2> QED
    BY <1>2, <2>3 DEF OneMeaning
<1> HIDE DEF rs, n
<1>6. Typed(rs, revs, m, certs)
  <2>1. m \in [StateIds -> Nat \cup {Absence}]
    BY <1>1, <1>4
  <2>2. certs \subseteq (DOMAIN rs) \X (DOMAIN revs)
    BY <1>1, <1>4
  <2> QED
    BY <1>1, <1>4, <2>1, <2>2 DEF Typed
<1>7. \A i \in DOMAIN rs : HoldsOwn(rs[i])
  BY <1>2, <1>4
<1>8. OneMeaning(rs)
  BY <1>2, <1>4, <1>5 DEF OneMeaning
<1>9. RevisionsRight(rs, revs, certs)
  <2>1. ASSUME NEW j \in DOMAIN revs
        PROVE  /\ \E i \in DOMAIN rs : rs[i].state = revs[j].base
               /\ \A i \in DOMAIN rs : rs[i].state = revs[j].base => rs[i].members = revs[j].was
    <3>1. PICK k \in DOMAIN reps : reps[k].state = revs[j].base
      BY <1>2 DEF RevisionsRight
    <3>2. \A i \in DOMAIN reps : reps[i].state = revs[j].base => reps[i].members = revs[j].was
      BY <1>2 DEF RevisionsRight
    <3> QED
      BY <1>4, <1>5, <3>1, <3>2
  <2>2. \A c \in certs : /\ c[1] \in DOMAIN reps /\ c[2] \in DOMAIN revs
                         /\ reps[c[1]].members = Resolved(revs[c[2]].was, revs[c[2]].edits)
    BY <1>2 DEF RevisionsRight
  <2> QED
    BY <1>4, <2>1, <2>2 DEF RevisionsRight
<1>10. MainsRight(rs, m)
  <2> SUFFICES ASSUME NEW s \in StateIds, NEW i \in DOMAIN rs, rs[i].state = s, rs[i].there
               PROVE  m[s] \in DOMAIN rs /\ rs[m[s]].state = s /\ rs[m[s]].there
    BY DEF MainsRight
  <2>1. CASE s = r.state
    BY <1>1, <1>3, <1>4, <2>1
  <2>2. CASE s # r.state
    <3>1. i \in DOMAIN reps /\ reps[i].state = s /\ reps[i].there
      BY <1>4, <2>2
    <3>2. main[s] \in DOMAIN reps /\ reps[main[s]].state = s /\ reps[main[s]].there
      BY <1>2, <3>1 DEF MainsRight
    <3> QED
      BY <1>1, <1>4, <2>2, <3>2
  <2> QED
    BY <2>1, <2>2
<1>11. Histories(rs, revs, m, certs)
  BY <1>6, <1>7, <1>8, <1>9, <1>10 DEF Histories
<1> QED
  BY <1>4, <1>11 DEF rs, n

\* The occurrences a membership uses.
LEMMA UsedTyped == ASSUME NEW m \in Membership PROVE Used(m) \in SUBSET Occs
  BY DEF Used, Membership

\* A representation is made of its fields.
LEMMA RepTyped ==
    ASSUME NEW s \in StateIds, NEW m \in Membership, NEW e \in Entities, NEW v \in Numbers
    PROVE  Rep(s, m, e, v) \in Reps
<1> HIDE DEF StateIds, Membership
<1> QED
  BY DEF Rep, Reps

\* The fields of a representation.
LEMMA RepFields ==
    ASSUME StatesInv, NEW i \in DOMAIN reps
    PROVE  /\ reps[i] \in Reps /\ reps[i].state \in StateIds /\ reps[i].members \in Membership
           /\ reps[i].entities \in Entities /\ reps[i].revision \in Numbers
           /\ HoldsOwn(reps[i])
<1>1. reps \in Seq(Reps) /\ HoldsOwn(reps[i])
  BY DEF StatesInv, Histories, Typed
<1>2. reps[i] \in Reps
  <2> HIDE DEF Reps
  <2> QED
    BY <1>1
<1> HIDE DEF Membership, StateIds
<1> QED
  BY <1>1, <1>2 DEF Reps

\* The layers that are read hold every occurrence they address.
LEMMA LayersTyped ==
    ASSUME StatesInv, NEW s \in StateIds, Readable(s)
    PROVE  /\ Layers(s).members \in Membership /\ Layers(s).entities \in SUBSET Occs
           /\ Used(Layers(s).members) \subseteq Layers(s).entities
           /\ Layers(s).revision \in Numbers
           /\ \E i \in DOMAIN reps : Layers(s) = reps[i] /\ reps[i].state = s
<1> DEFINE i == IF main[s] \in Bulk(s) THEN main[s] ELSE CHOOSE i \in Bulk(s) : TRUE
<1>1. i \in Bulk(s) /\ Layers(s) = reps[i]
  BY DEF Readable, Layers
<1>2. i \in DOMAIN reps /\ reps[i].state = s /\ reps[i].entities # Absence
  BY <1>1 DEF Bulk, Inline, There, OfState
<1> QED
  BY <1>1, <1>2, RepFields DEF HoldsOwn, Entities

\* Publishing a representation of a known or a new state.
LEMMA PublishKeeps ==
    ASSUME StatesInv, NEW s \in StateIds, NEW m \in Membership, NEW e \in Entities,
           NEW v \in Numbers, e = Absence \/ Used(m) \subseteq e,
           Publish(Rep(s, m, e, v)), UNCHANGED <<revs, certs>>
    PROVE  StatesInv'
<1> DEFINE r == Rep(s, m, e, v)
<1>1. r \in Reps /\ r.state = s /\ r.members = m /\ r.there = TRUE /\ r.entities = e
  <2>1. r \in Reps
    BY RepTyped
  <2>2. r.state = s /\ r.members = m /\ r.there = TRUE /\ r.entities = e
    BY DEF Rep
  <2> QED
    BY <2>1, <2>2
<1>2. HoldsOwn(r)
  BY <1>1 DEF HoldsOwn
<1>3. Agreeing(r.state, r.members) /\ reps' = Append(reps, r) /\ main' = [main EXCEPT ![r.state] = Len(reps')]
  BY DEF Publish
<1> HIDE DEF r
<1>4. /\ Histories(Append(reps, r), revs, [main EXCEPT ![r.state] = Len(reps) + 1], certs)
      /\ Len(Append(reps, r)) = Len(reps) + 1
  BY <1>1, <1>2, <1>3, Published
<1>5. Histories(reps', revs', main', certs')
  BY <1>3, <1>4
<1> QED
  BY <1>5 DEF StatesInv

\* What edits resolve to is held by the united entities.
LEMMA UnitedHolds ==
    ASSUME NEW b, b.members \in Membership, b.entities \in SUBSET Occs, Used(b.members) \subseteq b.entities,
           NEW edits \in Edits
    PROVE  /\ United(b, edits) \in SUBSET Occs
           /\ Used(Resolved(b.members, edits)) \subseteq United(b, edits)
<1>1. \A i \in DOMAIN edits : edits[i].key \in MemberKeys /\ edits[i].occ \in Occs \cup {Absence}
  BY StatesAssumption DEF Edits
<1>2. United(b, edits) \in SUBSET Occs
  BY <1>1 DEF United
<1>3. ASSUME NEW o \in Used(Resolved(b.members, edits)) PROVE o \in United(b, edits)
  <2>1. PICK k \in MemberKeys : o = Resolved(b.members, edits)[k] /\ o # Absence
    BY DEF Used
  <2>2. CASE k \in Touched(edits)
    <3>1. PICK i \in DOMAIN edits : Latest(edits, k) = edits[i]
      BY <2>2, LatestThere
    <3> QED
      BY <2>1, <2>2, <3>1 DEF Resolved, United
  <2>3. CASE k \notin Touched(edits)
    <3>1. o = b.members[k]
      BY <2>1, <2>3 DEF Resolved
    <3> QED
      BY <2>1, <3>1 DEF Used, United
  <2> QED
    BY <2>2, <2>3
<1> QED
  BY <1>2, <1>3

LEMMA ReviseKeeps ==
    ASSUME StatesInv, NEW base \in StateIds, NEW result \in StateIds, NEW edits \in Edits, Revise(base, result, edits)
    PROVE  StatesInv'
<1> DEFINE b == Layers(base)
           n == Len(revs) + 1
           e == United(b, edits)
           r == Rep(result, Resolved(b.members, edits), e, n)
           v == [base |-> base, result |-> result, edits |-> edits, was |-> b.members, there |-> TRUE]
           rs == Append(reps, r)
           vs == Append(revs, v)
           m == [main EXCEPT ![r.state] = Len(reps) + 1]
<1>1. /\ Readable(base) /\ Publish(r) /\ revs' = vs /\ certs' = certs \cup {<<Len(reps) + 1, n>>}
  BY DEF Revise
<1>2. /\ b.members \in Membership /\ b.entities \in SUBSET Occs /\ Used(b.members) \subseteq b.entities
      /\ \E i \in DOMAIN reps : b = reps[i] /\ reps[i].state = base
  BY <1>1, LayersTyped
<1> HIDE DEF b
<1>3. Resolved(b.members, edits) \in Membership
  BY <1>2, AppliedResolved
<1>4. e \in SUBSET Occs /\ Used(Resolved(b.members, edits)) \subseteq e
  BY <1>2, UnitedHolds
<1>5. revs \in Seq(Revs) /\ n \in Nat
  <2>1. revs \in Seq(Revs)
    BY DEF StatesInv, Histories, Typed
  <2> HIDE DEF Revs
  <2> QED
    BY <2>1
<1> HIDE DEF e, n
<1>6. r \in Reps /\ r.state = result /\ r.members = Resolved(b.members, edits) /\ r.there = TRUE /\ r.entities = e
  <2>1. e \in Entities /\ n \in Numbers
    BY <1>4, <1>5 DEF Entities, Numbers
  <2>2. r \in Reps
    BY <1>3, <2>1, RepTyped
  <2>3. r.state = result /\ r.members = Resolved(b.members, edits) /\ r.there = TRUE /\ r.entities = e
    BY DEF Rep
  <2> QED
    BY <2>2, <2>3
<1>7. HoldsOwn(r)
  BY <1>4, <1>6 DEF HoldsOwn
<1>8. Agreeing(r.state, r.members) /\ reps' = rs /\ main' = [main EXCEPT ![r.state] = Len(reps')]
  BY <1>1 DEF Publish
<1>9. v \in Revs /\ v.base = base /\ v.edits = edits /\ v.was = b.members
  <2> HIDE DEF StateIds, Membership, Edits
  <2> QED
    BY <1>2 DEF Revs
<1> HIDE DEF r, v
<1>10. /\ Histories(rs, revs, m, certs)
       /\ Len(rs) = Len(reps) + 1 /\ DOMAIN rs = DOMAIN reps \cup {Len(rs)}
       /\ \A i \in DOMAIN reps : rs[i] = reps[i]
       /\ rs[Len(rs)] = r
  BY <1>6, <1>7, <1>8, Published
<1>11. /\ vs \in Seq(Revs) /\ Len(vs) = n /\ DOMAIN vs = DOMAIN revs \cup {n} /\ n \notin DOMAIN revs
       /\ \A i \in DOMAIN revs : vs[i] = revs[i]
       /\ vs[n] = v
  <2> HIDE DEF Revs
  <2> QED
    BY <1>5, <1>9 DEF n
<1> DEFINE cs == certs \cup {<<Len(reps) + 1, n>>}
<1> HIDE DEF rs, vs, m
<1>12. /\ Typed(rs, revs, m, certs) /\ \A i \in DOMAIN rs : HoldsOwn(rs[i])
       /\ OneMeaning(rs) /\ RevisionsRight(rs, revs, certs) /\ MainsRight(rs, m)
  BY <1>10 DEF Histories
<1>13. Typed(rs, vs, m, cs)
  <2>1. cs \subseteq (DOMAIN rs) \X (DOMAIN vs)
    BY <1>10, <1>11, <1>12 DEF Typed
  <2> QED
    BY <1>11, <1>12, <2>1 DEF Typed
<1>14. RevisionsRight(rs, vs, cs)
  <2>1. ASSUME NEW j \in DOMAIN vs
        PROVE  /\ \E i \in DOMAIN rs : rs[i].state = vs[j].base
               /\ \A i \in DOMAIN rs : rs[i].state = vs[j].base => rs[i].members = vs[j].was
    <3>1. CASE j \in DOMAIN revs
      BY <1>11, <1>12, <3>1 DEF RevisionsRight
    <3>2. CASE j = n
      <4>1. PICK i \in DOMAIN reps : b = reps[i] /\ reps[i].state = base
        BY <1>2
      <4>2. i \in DOMAIN rs /\ rs[i].state = base /\ rs[i].members = b.members
        BY <1>10, <4>1
      <4>3. vs[j].base = base /\ vs[j].was = b.members
        BY <1>9, <1>11, <3>2
      <4> QED
        BY <1>12, <4>2, <4>3 DEF OneMeaning
    <3> QED
      BY <1>11, <3>1, <3>2
  <2>2. ASSUME NEW c \in cs
        PROVE  /\ c[1] \in DOMAIN rs /\ c[2] \in DOMAIN vs
               /\ rs[c[1]].members = Resolved(vs[c[2]].was, vs[c[2]].edits)
    <3>1. CASE c \in certs
      <4>1. c[1] \in DOMAIN rs /\ c[2] \in DOMAIN revs
            /\ rs[c[1]].members = Resolved(revs[c[2]].was, revs[c[2]].edits)
        BY <1>12, <3>1 DEF RevisionsRight
      <4> QED
        BY <1>11, <4>1
    <3>2. CASE c = <<Len(reps) + 1, n>>
      <4>1. c[1] = Len(rs) /\ c[2] = n
        BY <1>10, <3>2
      <4> QED
        BY <1>6, <1>9, <1>10, <1>11, <4>1
    <3> QED
      BY <3>1, <3>2
  <2> HIDE DEF cs
  <2> QED
    BY <2>1, <2>2 DEF RevisionsRight
<1>15. Histories(rs, vs, m, cs)
  BY <1>12, <1>13, <1>14 DEF Histories
<1>16. reps' = rs /\ revs' = vs /\ main' = m /\ certs' = cs
  BY <1>1, <1>8, <1>10 DEF rs, vs, m
<1> QED
  BY <1>15, <1>16 DEF StatesInv

\* Only availability changes.
LEMMA AvailabilityKeeps ==
    ASSUME StatesInv, NEW rs, NEW vs, NEW m,
           rs \in Seq(Reps), vs \in Seq(Revs), m \in [StateIds -> Nat \cup {Absence}],
           DOMAIN rs = DOMAIN reps, DOMAIN vs = DOMAIN revs,
           \A i \in DOMAIN reps : /\ rs[i].state = reps[i].state /\ rs[i].members = reps[i].members
                                  /\ rs[i].entities = reps[i].entities,
           \A j \in DOMAIN revs : /\ vs[j].base = revs[j].base /\ vs[j].was = revs[j].was
                                  /\ vs[j].edits = revs[j].edits,
           MainsRight(rs, m)
    PROVE  Histories(rs, vs, m, certs)
<1>1. /\ certs \subseteq (DOMAIN reps) \X (DOMAIN revs)
      /\ \A i \in DOMAIN reps : HoldsOwn(reps[i])
      /\ OneMeaning(reps) /\ RevisionsRight(reps, revs, certs)
  BY DEF StatesInv, Histories, Typed
<1>2. Typed(rs, vs, m, certs)
  BY <1>1 DEF Typed
<1>3. \A i \in DOMAIN rs : HoldsOwn(rs[i])
  BY <1>1 DEF HoldsOwn
<1>4. OneMeaning(rs)
  BY <1>1 DEF OneMeaning
<1>5. RevisionsRight(rs, vs, certs)
  <2>1. \A j \in DOMAIN vs : /\ \E i \in DOMAIN rs : rs[i].state = vs[j].base
                             /\ \A i \in DOMAIN rs : rs[i].state = vs[j].base => rs[i].members = vs[j].was
    BY <1>1 DEF RevisionsRight
  <2>2. \A c \in certs : /\ c[1] \in DOMAIN rs /\ c[2] \in DOMAIN vs
                         /\ rs[c[1]].members = Resolved(vs[c[2]].was, vs[c[2]].edits)
    BY <1>1 DEF RevisionsRight
  <2> QED
    BY <2>1, <2>2 DEF RevisionsRight
<1> QED
  BY <1>2, <1>3, <1>4, <1>5 DEF Histories

LEMMA RetireKeeps ==
    ASSUME StatesInv, NEW gone, Retire(gone),
           \A s \in StateIds : (\E i \in DOMAIN reps : reps[i].state = s /\ reps[i].there /\ i \notin gone)
                                => main[s] \notin gone
    PROVE  StatesInv'
<1> DEFINE rs == [i \in DOMAIN reps |-> [reps[i] EXCEPT !.there = @ /\ i \notin gone]]
           needed == Needed(rs)
           vs == [j \in DOMAIN revs |-> [revs[j] EXCEPT !.there = @ /\ j \in needed]]
<1>1. reps \in Seq(Reps) /\ revs \in Seq(Revs) /\ main \in [StateIds -> Nat \cup {Absence}] /\ MainsRight(reps, main)
  BY DEF StatesInv, Histories, Typed
<1>2. ASSUME NEW i \in DOMAIN reps
      PROVE  /\ rs[i] \in Reps /\ rs[i].state = reps[i].state /\ rs[i].members = reps[i].members
             /\ rs[i].entities = reps[i].entities /\ rs[i].there = (reps[i].there /\ i \notin gone)
  <2>1. reps[i] \in Reps
    BY RepFields
  <2>2. rs[i] = [reps[i] EXCEPT !.there = reps[i].there /\ i \notin gone]
    OBVIOUS
  <2> HIDE DEF rs, StateIds, Membership
  <2> QED
    BY <2>1, <2>2 DEF Reps
<1>3. ASSUME NEW j \in DOMAIN revs
      PROVE  /\ vs[j] \in Revs /\ vs[j].base = revs[j].base /\ vs[j].was = revs[j].was /\ vs[j].edits = revs[j].edits
  <2>1. revs[j] \in Revs
    <3> HIDE DEF Revs
    <3> QED
      BY <1>1
  <2> HIDE DEF needed
  <2>2. vs[j] = [revs[j] EXCEPT !.there = revs[j].there /\ j \in needed]
    OBVIOUS
  <2> HIDE DEF vs, StateIds, Membership, Edits
  <2> QED
    BY <2>1, <2>2 DEF Revs
<1>4. DOMAIN rs = DOMAIN reps /\ DOMAIN vs = DOMAIN revs
  OBVIOUS
<1>5. reps' = rs /\ revs' = vs /\ main' = main /\ certs' = certs
  <2>1. reps' = rs /\ main' = main /\ certs' = certs /\ revs' = [i \in DOMAIN revs |-> [revs[i] EXCEPT !.there = @ /\ i \in Needed(reps')]]
    BY DEF Retire
  <2> HIDE DEF rs
  <2> QED
    BY <2>1
<1> HIDE DEF rs, vs
<1>6. rs \in Seq(Reps) /\ vs \in Seq(Revs)
  <2>1. Len(reps) \in Nat /\ DOMAIN reps = 1..Len(reps) /\ Len(revs) \in Nat /\ DOMAIN revs = 1..Len(revs)
    <3> HIDE DEF Reps, Revs
    <3> QED
      BY <1>1
  <2>2. rs = [i \in 1..Len(reps) |-> rs[i]] /\ vs = [j \in 1..Len(revs) |-> vs[j]]
    BY <2>1 DEF rs, vs
  <2>3. \A i \in 1..Len(reps) : rs[i] \in Reps
    BY <1>2, <2>1
  <2>4. \A j \in 1..Len(revs) : vs[j] \in Revs
    BY <1>3, <2>1
  <2> HIDE DEF Reps, Revs
  <2>5. rs \in Seq(Reps)
    BY <2>1, <2>2, <2>3
  <2>6. vs \in Seq(Revs)
    BY <2>1, <2>2, <2>4
  <2> QED
    BY <2>5, <2>6
<1>7. MainsRight(rs, main)
  <2> SUFFICES ASSUME NEW s \in StateIds, NEW i \in DOMAIN rs, rs[i].state = s, rs[i].there
               PROVE  main[s] \in DOMAIN rs /\ rs[main[s]].state = s /\ rs[main[s]].there
    BY DEF MainsRight
  <2>1. i \in DOMAIN reps /\ reps[i].state = s /\ reps[i].there /\ i \notin gone
    BY <1>2, <1>4
  <2>2. main[s] \in DOMAIN reps /\ reps[main[s]].state = s /\ reps[main[s]].there
    BY <1>1, <2>1 DEF MainsRight
  <2>3. main[s] \notin gone
    BY <2>1
  <2> QED
    BY <1>2, <1>4, <2>2, <2>3
<1>8. Histories(rs, vs, main, certs)
  <2> HIDE DEF Reps, Revs
  <2> QED
    BY <1>1, <1>2, <1>3, <1>4, <1>6, <1>7, AvailabilityKeeps
<1> QED
  BY <1>5, <1>8 DEF StatesInv

LEMMA RestoreKeeps ==
    ASSUME StatesInv, NEW k \in DOMAIN reps, Restore(k)
    PROVE  StatesInv'
<1> DEFINE r == reps[k]
           rs == [reps EXCEPT ![k].there = TRUE]
           vs == [j \in DOMAIN revs |-> [revs[j] EXCEPT !.there = @ \/ j = r.revision]]
           m == [main EXCEPT ![r.state] = k]
<1>1. reps \in Seq(Reps) /\ revs \in Seq(Revs) /\ main \in [StateIds -> Nat \cup {Absence}] /\ MainsRight(reps, main)
  BY DEF StatesInv, Histories, Typed
<1>2. ASSUME NEW i \in DOMAIN reps
      PROVE  /\ rs[i] \in Reps /\ rs[i].state = reps[i].state /\ rs[i].members = reps[i].members
             /\ rs[i].entities = reps[i].entities /\ rs[i].there = (reps[i].there \/ i = k)
  <2>1. reps[i] \in Reps /\ reps[i].there \in BOOLEAN
    <3>1. reps[i] \in Reps
      BY RepFields
    <3> HIDE DEF StateIds, Membership
    <3> QED
      BY <3>1 DEF Reps
  <2>2. rs[i] = [reps[i] EXCEPT !.there = reps[i].there \/ i = k]
    <3>1. CASE i = k
      BY <3>1
    <3>2. CASE i # k
      <4>1. rs[i] = reps[i]
        BY <3>2
      <4> HIDE DEF rs, StateIds, Membership
      <4> QED
        BY <4>1, <3>2, <2>1 DEF Reps
    <3> QED
      BY <3>1, <3>2
  <2> HIDE DEF rs, StateIds, Membership
  <2> QED
    BY <2>1, <2>2 DEF Reps
<1>3. ASSUME NEW j \in DOMAIN revs
      PROVE  /\ vs[j] \in Revs /\ vs[j].base = revs[j].base /\ vs[j].was = revs[j].was /\ vs[j].edits = revs[j].edits
  <2>1. revs[j] \in Revs
    <3> HIDE DEF Revs
    <3> QED
      BY <1>1
  <2> HIDE DEF r
  <2>2. vs[j] = [revs[j] EXCEPT !.there = revs[j].there \/ j = r.revision]
    OBVIOUS
  <2> HIDE DEF vs, StateIds, Membership, Edits
  <2> QED
    BY <2>1, <2>2 DEF Revs
<1>4. DOMAIN rs = DOMAIN reps /\ DOMAIN vs = DOMAIN revs
  OBVIOUS
<1>5. reps' = rs /\ revs' = vs /\ main' = m /\ certs' = certs
  BY DEF Restore
<1>6. r.state \in StateIds /\ k \in Nat
  <2>1. k \in Nat
    <3> HIDE DEF Reps
    <3> QED
      BY <1>1
  <2> QED
    BY <2>1, RepFields
<1> HIDE DEF rs, vs
<1>7. rs \in Seq(Reps) /\ vs \in Seq(Revs)
  <2>1. Len(reps) \in Nat /\ DOMAIN reps = 1..Len(reps) /\ Len(revs) \in Nat /\ DOMAIN revs = 1..Len(revs)
    <3> HIDE DEF Reps, Revs
    <3> QED
      BY <1>1
  <2>2. rs = [i \in 1..Len(reps) |-> rs[i]] /\ vs = [j \in 1..Len(revs) |-> vs[j]]
    <3> HIDE DEF Reps
    <3> QED
      BY <2>1, <1>1 DEF rs, vs
  <2>3. \A i \in 1..Len(reps) : rs[i] \in Reps
    BY <1>2, <2>1
  <2>4. \A j \in 1..Len(revs) : vs[j] \in Revs
    BY <1>3, <2>1
  <2> HIDE DEF Reps, Revs
  <2>5. rs \in Seq(Reps)
    BY <2>1, <2>2, <2>3
  <2>6. vs \in Seq(Revs)
    BY <2>1, <2>2, <2>4
  <2> QED
    BY <2>5, <2>6
<1>8. MainsRight(rs, m)
  <2> SUFFICES ASSUME NEW s \in StateIds, NEW i \in DOMAIN rs, rs[i].state = s, rs[i].there
               PROVE  m[s] \in DOMAIN rs /\ rs[m[s]].state = s /\ rs[m[s]].there
    BY DEF MainsRight
  <2>1. CASE s = r.state
    BY <1>1, <1>2, <1>4, <2>1
  <2>2. CASE s # r.state
    <3>1. i \in DOMAIN reps /\ reps[i].state = s /\ reps[i].there
      BY <1>2, <1>4, <2>2
    <3>2. main[s] \in DOMAIN reps /\ reps[main[s]].state = s /\ reps[main[s]].there
      BY <1>1, <3>1 DEF MainsRight
    <3>3. m[s] = main[s]
      BY <1>1, <2>2
    <3> QED
      BY <1>2, <1>4, <3>2, <3>3
  <2> QED
    BY <2>1, <2>2
<1>9. m \in [StateIds -> Nat \cup {Absence}]
  BY <1>1, <1>6
<1>10. Histories(rs, vs, m, certs)
  <2> HIDE DEF Reps, Revs, m
  <2> QED
    BY <1>1, <1>2, <1>3, <1>4, <1>7, <1>8, <1>9, AvailabilityKeeps
<1> QED
  BY <1>5, <1>10 DEF StatesInv

LEMMA StatesStart == StatesInit => StatesInv
<1> SUFFICES ASSUME StatesInit PROVE Histories(reps, revs, main, certs)
  BY DEF StatesInv
<1>1. reps = <<>> /\ revs = <<>> /\ certs = {} /\ main = [s \in StateIds |-> Absence]
  BY DEF StatesInit
<1>2. Typed(reps, revs, main, certs)
  BY <1>1 DEF Typed
<1>3. DOMAIN reps = {} /\ DOMAIN revs = {}
  BY <1>1
<1>4. OneMeaning(reps) /\ RevisionsRight(reps, revs, certs) /\ MainsRight(reps, main)
  BY <1>1, <1>3 DEF OneMeaning, RevisionsRight, MainsRight
<1> QED
  BY <1>2, <1>3, <1>4 DEF Histories

LEMMA StatesStep == StatesInv /\ [StatesNext]_svars => StatesInv'
<1> SUFFICES ASSUME StatesInv, [StatesNext]_svars PROVE StatesInv'
  OBVIOUS
<1>1. ASSUME NEW s \in Named, NEW m \in Membership, Declare(s, m) PROVE StatesInv'
  <2>1. s \in StateIds
    BY DEF Named
  <2> QED
    BY <1>1, <2>1, PublishKeeps DEF Declare, Entities, Numbers
<1>2. ASSUME NEW s \in Named, NEW m \in Membership, Create(s, m) PROVE StatesInv'
  <2>1. s \in StateIds
    BY DEF Named
  <2> QED
    BY <1>2, <2>1, UsedTyped, PublishKeeps DEF Create, Entities, Numbers
<1>3. ASSUME NEW i \in DOMAIN reps, Materialize(i) PROVE StatesInv'
  <2> DEFINE r == reps[i]
  <2>1. Publish(Rep(r.state, r.members, Used(r.members), Absence)) /\ UNCHANGED <<revs, certs>>
    BY <1>3 DEF Materialize
  <2>2. r.state \in StateIds /\ r.members \in Membership
    BY RepFields
  <2> HIDE DEF r
  <2>3. Used(r.members) \in Entities /\ Absence \in Numbers
    BY <2>2, UsedTyped DEF Entities, Numbers
  <2> QED
    BY <2>1, <2>2, <2>3, PublishKeeps
<1>4. ASSUME NEW i \in DOMAIN reps, RemoveRepresentation(i) PROVE StatesInv'
  <2>1. Retire({i}) /\ main[reps[i].state] # i
    BY <1>4 DEF RemoveRepresentation
  <2>2. MainsRight(reps, main)
    BY DEF StatesInv, Histories
  <2>3. \A s \in StateIds : (\E j \in DOMAIN reps : reps[j].state = s /\ reps[j].there /\ j \notin {i})
                                => main[s] \notin {i}
    BY <2>1, <2>2 DEF MainsRight
  <2> QED
    BY <2>1, <2>3, RetireKeeps
<1>5. ASSUME NEW i \in DOMAIN reps, Restore(i) PROVE StatesInv'
  BY <1>5, RestoreKeeps
<1>6. ASSUME NEW base \in StateIds, NEW result \in Named, NEW edits \in Edits, Revise(base, result, edits)
      PROVE  StatesInv'
  <2>1. result \in StateIds
    BY DEF Named
  <2> QED
    BY <1>6, <2>1, ReviseKeeps
<1>7. ASSUME NEW s \in StateIds, Checkpoint(s) PROVE StatesInv'
  <2> DEFINE b == Layers(s)
  <2>1. Readable(s) /\ Publish(Rep(s, b.members, Used(b.members), b.revision)) /\ UNCHANGED <<revs, certs>>
    BY <1>7 DEF Checkpoint
  <2>2. b.members \in Membership /\ b.revision \in Numbers
    BY <2>1, LayersTyped
  <2> HIDE DEF b
  <2>3. Used(b.members) \in Entities
    BY <2>2, UsedTyped DEF Entities
  <2> QED
    BY <2>1, <2>2, <2>3, PublishKeeps
<1>8. ASSUME NEW s \in StateIds, RemoveState(s) PROVE StatesInv'
  <2>1. Retire(There(s))
    BY <1>8 DEF RemoveState
  <2>2. MainsRight(reps, main)
    BY DEF StatesInv, Histories
  <2>3. \A t \in StateIds : (\E j \in DOMAIN reps : reps[j].state = t /\ reps[j].there /\ j \notin There(s))
                                => main[t] \notin There(s)
    BY <2>2 DEF MainsRight, There, OfState
  <2> QED
    BY <2>1, <2>3, RetireKeeps
<1>9. CASE UNCHANGED svars
  BY <1>9 DEF svars, StatesInv
<1> QED
  BY <1>1, <1>2, <1>3, <1>4, <1>5, <1>6, <1>7, <1>8, <1>9 DEF StatesNext

\* States mean one membership, and changes are read exactly.
THEOREM StatesMeanOne == StatesSpec => []StatesExact
<1>1. StatesInit => StatesInv
  BY StatesStart
<1>2. StatesInv /\ [StatesNext]_svars => StatesInv'
  BY StatesStep
<1>3. StatesInv => StatesExact
  BY StatesInvExact
<1> QED
  BY <1>1, <1>2, <1>3, PTL DEF StatesSpec

-----------------------------------------------------------------------------
(* Selections.                                                             *)

Occupants == SelOccs \cup {Nil}
ChangeSets == UNION {[D -> SelRows \cup {Nil}] : D \in SUBSET SelKeys}
Values == UNION {[D -> SelRows] : D \in SUBSET SelKeys}

\* The plan of state s over the retained selection of state b.
Planned(s, b, changes) ==
    [state |-> s, base |-> b, rows |-> FullRows(mem[b]), evidence |-> Evidence(FullRows(mem[b])), changes |-> changes]
Plans == {Planned(s, b, c) : s \in Sel, b \in Sel, c \in ChangeSets \cup {Nil}}

\* The history: a certified revision names every key in which a state differs from the one before.
History ==
    /\ mem \in [Sel -> [SelKeys -> Occupants]]
    /\ defn \in Definitions
    /\ edited \in [Sel -> {Nil} \cup SUBSET SelKeys]
    /\ \A s \in Sel \ {1} : edited[s] # Nil => \A k \in SelKeys \ edited[s] : mem[s][k] = mem[s - 1][k]

\* A plan over an earlier state leads to what its state selects.
PlanRight(p) == p.base <= p.state /\ Merged(p) = FullRows(mem[p.state])

SelInv ==
    /\ History
    /\ DOMAIN kept = Sel
    /\ \A s \in Sel : kept[s] # Nil =>
          kept[s].rows = FullRows(mem[s]) /\ kept[s].evidence = Evidence(FullRows(mem[s]))
    /\ plans \in Seq(Plans)
    /\ \A i \in DOMAIN plans : PlanRight(plans[i])

-----------------------------------------------------------------------------
\* Rows.

LEMMA RowTyped ==
    ASSUME NEW k \in SelKeys, NEW o \in Occupants
    PROVE  SelRow(k, o) \in SelRows
<1>1. MemberBytes(k, o) \in Seq(SelFields) \X Seq(SelKeys) \X Seq(SelOccs)
  <2> DEFINE a == IF o = Nil THEN <<>> ELSE <<SelField(o)>>
             b == IF defn.material THEN <<k>> ELSE <<>>
             c == IF defn.identity /\ o # Nil THEN <<o>> ELSE <<>>
  <2>1. a \in Seq(SelFields)
    <3>1. o # Nil => SelField(o) \in SelFields
      BY DEF SelFields, Occupants
    <3> QED
      BY <3>1
  <2>2. b \in Seq(SelKeys)
    OBVIOUS
  <2>3. c \in Seq(SelOccs)
    BY DEF Occupants
  <2>4. MemberBytes(k, o) = <<a, b, c>>
    BY DEF MemberBytes
  <2> HIDE DEF a, b, c
  <2> QED
    BY <2>1, <2>2, <2>3, <2>4
<1>2. SortKey(o) \in SelFields \cup {0}
  BY DEF SortKey, SelFields, Occupants
<1> QED
  BY <1>1, <1>2 DEF SelRow, SelRows, Occupants

LEMMA RowFields ==
    ASSUME NEW k, NEW o
    PROVE  SelRow(k, o).occ = o
  BY DEF SelRow

LEMMA SelectableKeys ==
    ASSUME defn \in Definitions
    PROVE  Selectable \subseteq SelKeys
  BY SelectionAssumption DEF Selectable, Scoped

LEMMA FullTyped ==
    ASSUME defn \in Definitions, NEW m \in [SelKeys -> Occupants]
    PROVE  FullRows(m) \in Values /\ DOMAIN FullRows(m) \subseteq Selectable
<1> DEFINE D == {x \in Selectable : Scoped \/ m[x] # Nil}
<1>1. D \in SUBSET SelKeys
  BY SelectableKeys
<1>2. \A k \in D : SelRow(k, m[k]) \in SelRows
  BY <1>1, RowTyped
<1>3. FullRows(m) = [k \in D |-> SelRow(k, m[k])]
  BY DEF FullRows
<1> HIDE DEF D
<1>4. FullRows(m) \in [D -> SelRows]
  BY <1>2, <1>3
<1>5. FullRows(m) \in Values
  BY <1>1, <1>4 DEF Values
<1>6. DOMAIN FullRows(m) = D
  BY <1>3
<1> QED
  BY <1>5, <1>6 DEF D

\* Only a row has the row's fields; a removal is none.
LEMMA ChangesTyped ==
    ASSUME History, NEW s \in Sel, NEW K \in SUBSET Selectable
    PROVE  Changes(s, K) \in ChangeSets /\ Changes(s, K) # Nil
<1>1. K \in SUBSET SelKeys
  BY SelectableKeys DEF History
<1>2. mem[s] \in [SelKeys -> Occupants]
  BY DEF History
<1>3. \A k \in K : (IF mem[s][k] = Nil /\ ~ Scoped THEN Nil ELSE SelRow(k, mem[s][k])) \in SelRows \cup {Nil}
  BY <1>1, <1>2, RowTyped
<1>4. Changes(s, K) \in [K -> SelRows \cup {Nil}]
  BY <1>3 DEF Changes
<1> QED
  BY <1>1, <1>4, SelectionAssumption DEF ChangeSets

-----------------------------------------------------------------------------
\* The history of states.

\* A key that no certified revision between two states edited is the same in both.
LEMMA UneditedSame ==
    ASSUME History, NEW b \in Sel, NEW s \in Sel, b <= s, NEW k \in SelKeys \ EditedKeys(s, b)
    PROVE  mem[s][k] = mem[b][k]
<1>0. Generations \in Nat
  BY SelectionAssumption
<1>1. \A t \in (b + 1)..s : edited[t] # Nil /\ k \notin edited[t]
  BY DEF EditedKeys
<1> DEFINE T == {t \in Nat : b <= t /\ t <= s /\ mem[t][k] # mem[b][k]}
<1>2. SUFFICES ASSUME T # {} PROVE FALSE
  BY <1>0 DEF Sel
<1>3. T \subseteq Nat
  OBVIOUS
<1>4. PICK t \in T : \A u \in T : ~ (<<u, t>> \in OpToRel(<, Nat))
  BY <1>2, <1>3, WFMin, NatLessThanWellFounded
<1>5. t \in Nat /\ b <= t /\ t <= s /\ mem[t][k] # mem[b][k]
  OBVIOUS
<1>6. b \in Nat /\ s \in Nat /\ 1 <= b /\ s <= Generations
  BY <1>0 DEF Sel
<1>7. b < t /\ t \in (b + 1)..s /\ t \in Sel \ {1} /\ t - 1 \in Nat /\ b <= t - 1 /\ t - 1 <= s
  BY <1>0, <1>5, <1>6 DEF Sel
<1>8. mem[t][k] = mem[t - 1][k]
  BY <1>1, <1>7 DEF History
<1>9. t - 1 \in T
  BY <1>5, <1>7, <1>8
<1>10. <<t - 1, t>> \in OpToRel(<, Nat)
  BY <1>5, <1>7 DEF OpToRel
<1> QED
  BY <1>4, <1>9, <1>10

-----------------------------------------------------------------------------
\* Deltas.

\* The rows of an ancestor under the changed ones are those of the whole state.
LEMMA DeltaExact ==
    ASSUME History, NEW b \in Sel, NEW s \in Sel, b <= s, NEW p, p.rows = FullRows(mem[b]),
           NEW q, q.rows = FullRows(mem[b]), q.changes = Changes(s, Addresses(s, p, b))
    PROVE  Merged(q) = FullRows(mem[s])
<1> DEFINE m == mem[s]
           old == mem[b]
           A == Addresses(s, p, b)
           R == FullRows(old)
           ch == [k \in A |-> IF m[k] = Nil /\ ~ Scoped THEN Nil ELSE SelRow(k, m[k])]
           put == {k \in A : ch[k] # Nil}
           D == {x \in Selectable : Scoped \/ m[x] # Nil}
           E == {x \in Selectable : Scoped \/ old[x] # Nil}
<1>1. m \in [SelKeys -> Occupants] /\ old \in [SelKeys -> Occupants] /\ Selectable \subseteq SelKeys
  BY SelectableKeys DEF History
<1>2. DOMAIN R = E /\ \A k \in E : R[k] = SelRow(k, old[k])
  BY DEF FullRows
<1>3. A \in SUBSET Selectable
  BY DEF Addresses
<1>4. q.changes = ch /\ q.changes # Nil
  BY <1>3, ChangesTyped DEF Changes
<1>5. \A k \in A : ch[k] # Nil <=> Scoped \/ m[k] # Nil
  BY <1>1, <1>3, RowTyped, SelectionAssumption
<1>6. \A k \in Selectable : k \in E => R[k].occ = old[k]
  BY <1>2, RowFields
<1>7. \A k \in Selectable \ A : m[k] = old[k]
  <2> SUFFICES ASSUME NEW k \in Selectable \ A, m[k] # old[k] PROVE FALSE
    OBVIOUS
  <2>1. k \in EditedKeys(s, b)
    BY <1>1, UneditedSame
  <2>2. (IF k \in DOMAIN p.rows THEN p.rows[k].occ ELSE Nil) = old[k]
    <3>1. CASE k \in E
      BY <3>1, <1>2, <1>6
    <3>2. CASE k \notin E
      BY <3>2, <1>2
    <3> QED
      BY <3>1, <3>2
  <2> QED
    BY <2>1, <2>2 DEF Addresses
<1>8. Merged(q) = [k \in (E \ A) \cup put |-> IF k \in put THEN ch[k] ELSE R[k]]
  <2> HIDE DEF ch, A, E, R
  <2>1. DOMAIN ch = A
    BY DEF ch
  <2> QED
    BY <1>2, <1>4, <2>1 DEF Merged, R
<1>9. (E \ A) \cup put = D
  <2> HIDE DEF A, ch
  <2>1. \A k \in Selectable : k \in (E \ A) \cup put <=> k \in D
    BY <1>3, <1>5, <1>7
  <2> QED
    BY <2>1, <1>3
<1>10. \A k \in D : (IF k \in put THEN ch[k] ELSE R[k]) = SelRow(k, m[k])
  <2> SUFFICES ASSUME NEW k \in D PROVE (IF k \in put THEN ch[k] ELSE R[k]) = SelRow(k, m[k])
    OBVIOUS
  <2>1. CASE k \in put
    BY <2>1
  <2>2. CASE k \notin put
    <3>1. k \in E \ A
      BY <2>2, <1>9
    <3> QED
      BY <3>1, <2>2, <1>2, <1>7
  <2> QED
    BY <2>1, <2>2
<1>11. FullRows(m) = [k \in D |-> SelRow(k, m[k])]
  BY DEF FullRows
<1> HIDE DEF put, ch, R, D, E, A, m
<1> QED
  BY <1>8, <1>9, <1>10, <1>11 DEF m
-----------------------------------------------------------------------------
\* Evidence.

\* How often a function takes a value.
Times(f, c) == Cardinality({k \in DOMAIN f : f[k] = c})

LEMMA TimesNat ==
    ASSUME NEW f, IsFiniteSet(DOMAIN f), NEW c
    PROVE  /\ IsFiniteSet({k \in DOMAIN f : f[k] = c}) /\ Times(f, c) \in Nat
           /\ c \in Range(f) <=> Times(f, c) # 0
<1>1. IsFiniteSet({k \in DOMAIN f : f[k] = c})
  BY FS_Subset
<1>2. c \in Range(f) <=> {k \in DOMAIN f : f[k] = c} # {}
  BY DEF Range
<1> QED
  BY <1>1, <1>2, FS_CardinalityType, FS_EmptySet DEF Times

\* Two families of codes are counted alike exactly when they have each code equally often.
LEMMA CountedAlike ==
    ASSUME NEW f, IsFiniteSet(DOMAIN f), NEW g, IsFiniteSet(DOMAIN g)
    PROVE  Counted(f) = Counted(g) <=> \A c : Times(f, c) = Times(g, c)
<1>1. Counted(f) = [c \in Range(f) |-> Times(f, c)] /\ Counted(g) = [c \in Range(g) |-> Times(g, c)]
  BY DEF Counted, Times
<1>2. ASSUME Counted(f) = Counted(g), NEW c PROVE Times(f, c) = Times(g, c)
  <2>1. Range(f) = Range(g)
    BY <1>1, <1>2
  <2>2. CASE c \in Range(f)
    BY <1>1, <1>2, <2>1, <2>2
  <2>3. CASE c \notin Range(f)
    BY <2>1, <2>3, TimesNat
  <2> QED
    BY <2>2, <2>3
<1>3. ASSUME \A c : Times(f, c) = Times(g, c) PROVE Counted(f) = Counted(g)
  <2>1. Range(f) = Range(g)
    <3>1. \A c : c \in Range(f) <=> c \in Range(g)
      BY <1>3, TimesNat
    <3> QED
      BY <3>1
  <2> QED
    BY <1>1, <1>3, <2>1
<1> QED
  BY <1>2, <1>3

\* The parts of a family over two disjoint sets add up.
LEMMA TimesSplit ==
    ASSUME NEW f, NEW g, NEW S, IsFiniteSet(S), NEW T, IsFiniteSet(T), S \cap T = {},
           DOMAIN f = S \cup T, DOMAIN g = T, \A k \in T : f[k] = g[k], NEW c
    PROVE  Times(f, c) = Cardinality({k \in S : f[k] = c}) + Times(g, c)
<1> DEFINE A == {k \in S : f[k] = c}
           B == {k \in T : g[k] = c}
<1>1. IsFiniteSet(A) /\ IsFiniteSet(B)
  BY FS_Subset
<1>2. {k \in DOMAIN f : f[k] = c} = A \cup B /\ A \cap B = {}
  OBVIOUS
<1>3. Cardinality(A) \in Nat /\ Cardinality(B) \in Nat /\ Cardinality(A \cap B) = 0
  BY <1>1, <1>2, FS_CardinalityType, FS_EmptySet
<1>4. Cardinality(A \cup B) = Cardinality(A) + Cardinality(B) - Cardinality(A \cap B)
  BY <1>1, FS_Union
<1>5. Times(f, c) = Cardinality(A \cup B) /\ Times(g, c) = Cardinality(B)
  BY <1>2 DEF Times
<1> HIDE DEF A, B
<1>6. Times(f, c) = Cardinality(A) + Times(g, c)
  BY <1>3, <1>4, <1>5
<1> QED
  BY <1>6 DEF A

LEMMA FamiliesOf ==
    ASSUME NEW rows
    PROVE  /\ DOMAIN Codes(rows) = DOMAIN rows /\ \A k \in DOMAIN rows : Codes(rows)[k] = rows[k].code
           /\ DOMAIN Sorts(rows) = DOMAIN rows /\ \A k \in DOMAIN rows : Sorts(rows)[k] = rows[k].sort
           /\ Codes(rows) = [k \in DOMAIN rows |-> Codes(rows)[k]] /\ Sorts(rows) = [k \in DOMAIN rows |-> Sorts(rows)[k]]
  BY DEF Codes, Sorts

\* When the changed rows cancel out, the retained evidence is that of the rows under them.
LEMMA CancelledSame ==
    ASSUME NEW p, p.rows \in Values, p.changes \in ChangeSets, p.changes # Nil, Cancels(p)
    PROVE  Evidence(Merged(p)) = Evidence(p.rows)
<1> DEFINE R == p.rows
           ch == p.changes
           E == DOMAIN R
           A == DOMAIN ch
           put == {k \in A : ch[k] # Nil}
           old == [k \in A \cap E |-> R[k]]
           new == [k \in put |-> ch[k]]
           M == Merged(p)
<1>1. E \subseteq SelKeys /\ A \subseteq SelKeys /\ IsFiniteSet(E) /\ IsFiniteSet(A)
  BY FS_Subset, SelectionAssumption DEF Values, ChangeSets
<1>2. IsFiniteSet(put) /\ IsFiniteSet(E \ A) /\ IsFiniteSet(A \cap E) /\ put \subseteq A
  BY <1>1, FS_Subset
<1>3. M = [k \in (E \ A) \cup put |-> IF k \in put THEN ch[k] ELSE R[k]]
  BY DEF Merged
<1>4. IF defn.order = Nil THEN Counted(Codes(old)) = Counted(Codes(new))
      ELSE Codes(old) = Codes(new) /\ Sorts(old) = Sorts(new)
  BY DEF Cancels
<1>5. DOMAIN old = A \cap E /\ DOMAIN new = put /\ DOMAIN M = (E \ A) \cup put
  BY <1>3
<1>6. /\ \A k \in A \cap E : old[k] = R[k]
      /\ \A k \in put : new[k] = ch[k] /\ M[k] = ch[k]
      /\ \A k \in E \ A : M[k] = R[k]
  BY <1>2, <1>3
<1> HIDE DEF R, ch, E, A, put, old, new, M
<1>7. CASE defn.order = Nil
  <2>1. \A c : Times(Codes(old), c) = Times(Codes(new), c)
    BY <1>2, <1>4, <1>5, <1>7, CountedAlike, FamiliesOf
  <2>2. \A c : Times(Codes(M), c) = Times(Codes(R), c)
    <3> TAKE c
    <3> DEFINE S == E \ A
    <3>1. Times(Codes(M), c) = Cardinality({k \in S : Codes(M)[k] = c}) + Times(Codes(new), c)
      <4>1. DOMAIN Codes(M) = S \cup put /\ DOMAIN Codes(new) = put /\ S \cap put = {}
        BY <1>2, <1>5, FamiliesOf
      <4>2. \A k \in put : Codes(M)[k] = Codes(new)[k]
        BY <1>5, <1>6, FamiliesOf
      <4> QED
        BY <1>2, <4>1, <4>2, TimesSplit
    <3>2. Times(Codes(R), c) = Cardinality({k \in S : Codes(R)[k] = c}) + Times(Codes(old), c)
      <4>1. DOMAIN Codes(R) = S \cup (A \cap E) /\ DOMAIN Codes(old) = A \cap E /\ S \cap (A \cap E) = {}
        BY <1>5, FamiliesOf DEF E
      <4>2. \A k \in A \cap E : Codes(R)[k] = Codes(old)[k]
        BY <1>5, <1>6, FamiliesOf DEF E
      <4> QED
        BY <1>2, <4>1, <4>2, TimesSplit
    <3>3. \A k \in S : Codes(M)[k] = Codes(R)[k]
      BY <1>5, <1>6, FamiliesOf DEF E
    <3>4. {k \in S : Codes(M)[k] = c} = {k \in S : Codes(R)[k] = c}
      BY <3>3
    <3> QED
      BY <2>1, <3>1, <3>2, <3>4
  <2>3. IsFiniteSet(DOMAIN Codes(M)) /\ IsFiniteSet(DOMAIN Codes(R))
    <3>1. IsFiniteSet((E \ A) \cup put)
      BY <1>2, FS_Union
    <3> QED
      BY <3>1, <1>1, <1>5, FamiliesOf DEF E
  <2>4. Counted(Codes(M)) = Counted(Codes(R))
    BY <2>2, <2>3, CountedAlike
  <2> QED
    BY <2>4, <1>7 DEF Evidence, M, R
<1>8. CASE defn.order # Nil
  <2>1. A \cap E = put /\ \A k \in put : R[k].code = M[k].code /\ R[k].sort = M[k].sort
    BY <1>4, <1>5, <1>6, <1>8, FamiliesOf
  <2>2. DOMAIN M = E /\ \A k \in E : R[k].code = M[k].code /\ R[k].sort = M[k].sort
    BY <2>1, <1>2, <1>5, <1>6
  <2>3. Codes(M) = Codes(R) /\ Sorts(M) = Sorts(R)
    BY <2>2 DEF Codes, Sorts, E
  <2> QED
    BY <2>3, <1>8 DEF Evidence, M, R
<1> QED
  BY <1>7, <1>8

\* The evidence of a plan is that of the state it is for.
LEMMA PlanEvidenceExact ==
    ASSUME History, NEW s \in Sel, NEW b \in Sel, NEW c \in ChangeSets \cup {Nil}, PlanRight(Planned(s, b, c))
    PROVE  PlanEvidence(Planned(s, b, c)) = Evidence(FullRows(mem[s]))
<1> DEFINE p == Planned(s, b, c)
<1>1. p.rows = FullRows(mem[b]) /\ p.evidence = Evidence(p.rows) /\ p.changes = c /\ p.state = s
  BY DEF Planned
<1>2. p.rows \in Values
  BY <1>1, FullTyped DEF History
<1>3. Merged(p) = FullRows(mem[s])
  BY <1>1 DEF PlanRight
<1> HIDE DEF p
<1>4. CASE p.changes = Nil
  BY <1>1, <1>3, <1>4 DEF PlanEvidence, Merged, p
<1>5. CASE p.changes # Nil /\ Cancels(p)
  BY <1>1, <1>2, <1>3, <1>5, CancelledSame DEF PlanEvidence, p
<1>6. CASE p.changes # Nil /\ ~ Cancels(p)
  BY <1>3, <1>6 DEF PlanEvidence, p
<1> QED
  BY <1>4, <1>5, <1>6

-----------------------------------------------------------------------------
\* Plans and what is remembered of them.

LEMMA RetainedPlan ==
    ASSUME SelInv, NEW s \in Sel, kept[s] # Nil
    PROVE  Plan(s, s, Nil) \in Plans /\ PlanRight(Plan(s, s, Nil))
<1>1. Plan(s, s, Nil) = Planned(s, s, Nil)
  BY DEF SelInv, Plan, Planned
<1>2. Planned(s, s, Nil).base = s /\ Planned(s, s, Nil).state = s
      /\ Planned(s, s, Nil).rows = FullRows(mem[s]) /\ Planned(s, s, Nil).changes = Nil
  BY DEF Planned
<1>3. s <= s
  BY SelectionAssumption DEF Sel
<1>4. PlanRight(Planned(s, s, Nil))
  BY <1>2, <1>3 DEF PlanRight, Merged
<1> QED
  BY <1>1, <1>4 DEF Plans

\* The plan a certified state starts from is right, and is a plan of that state over a retained one.
LEMMA CertifiedRight ==
    ASSUME SelInv, NEW s \in Sel, PlanCertified(s)
    PROVE  /\ CertifiedPlan(s) \in Plans /\ PlanRight(CertifiedPlan(s))
           /\ CertifiedPlan(s).state = s /\ kept[CertifiedPlan(s).base] # Nil
<1>1. CASE Cached(s) # {}
  <2>1. PICK i \in Cached(s) : CertifiedPlan(s) = plans[i]
    BY <1>1 DEF CertifiedPlan
  <2>2. i \in DOMAIN plans /\ plans[i].state = s /\ kept[plans[i].base] # Nil
    BY DEF Cached, Retained
  <2>3. plans[i] \in Plans /\ PlanRight(plans[i])
    BY <2>2 DEF SelInv
  <2> QED
    BY <2>1, <2>2, <2>3
<1>2. CASE Cached(s) = {}
  <2>1. kept[s] # Nil /\ CertifiedPlan(s) = Plan(s, s, Nil)
    BY <1>2 DEF PlanCertified, CertifiedPlan, Retained
  <2>2. Plan(s, s, Nil).state = s /\ Plan(s, s, Nil).base = s
    BY DEF Plan
  <2> QED
    BY <2>1, <2>2, RetainedPlan
<1> QED
  BY <1>1, <1>2

\* The nearest certified state is an ancestor.
LEMMA NearestThere ==
    ASSUME NEW s \in Sel, Ancestors(s) # {}
    PROVE  Nearest(s) \in Sel /\ Nearest(s) <= s /\ PlanCertified(Nearest(s))
<1>0. s \in Nat /\ Generations \in Nat /\ s <= Generations
  BY SelectionAssumption DEF Sel
<1> DEFINE T == {n \in Nat : n <= s /\ (s - n) \in Ancestors(s)}
<1>1. \A a \in Ancestors(s) : a \in Nat /\ 1 <= a /\ a <= s /\ PlanCertified(a)
  BY <1>0 DEF Ancestors
<1>2. T # {} /\ T \subseteq Nat
  <2>1. PICK a \in Ancestors(s) : TRUE
    OBVIOUS
  <2>2. s - a \in Nat /\ s - a <= s /\ s - (s - a) = a
    BY <1>0, <1>1
  <2> QED
    BY <2>1, <2>2
<1>3. PICK n \in T : \A u \in T : ~ (<<u, n>> \in OpToRel(<, Nat))
  BY <1>2, WFMin, NatLessThanWellFounded
<1>4. s - n \in Ancestors(s) /\ \A b \in Ancestors(s) : b <= s - n
  <2> SUFFICES ASSUME NEW b \in Ancestors(s), ~ (b <= s - n) PROVE FALSE
    OBVIOUS
  <2>1. b \in Nat /\ n \in Nat /\ n <= s /\ b <= s
    BY <1>1
  <2>2. s - b \in Nat /\ s - b < n /\ s - (s - b) = b /\ s - b <= s
    BY <1>0, <2>1
  <2>3. s - b \in T
    BY <2>2
  <2>4. <<s - b, n>> \in OpToRel(<, Nat)
    BY <2>1, <2>2 DEF OpToRel
  <2> QED
    BY <1>3, <2>3, <2>4
<1>5. Nearest(s) \in Ancestors(s)
  <2> DEFINE P(a) == a \in Ancestors(s) /\ \A b \in Ancestors(s) : b <= a
  <2>1. \E a \in Ancestors(s) : \A b \in Ancestors(s) : b <= a
    BY <1>4
  <2> QED
    BY <2>1 DEF Nearest
<1> QED
  BY <1>0, <1>1, <1>5 DEF Sel

LEMMA MembersRight ==
    ASSUME SelInv, NEW s \in Sel, Ancestors(s) # {}
    PROVE  SelMembers(s) \in Plans /\ PlanRight(SelMembers(s)) /\ SelMembers(s).state = s
<1> DEFINE a == Nearest(s)
           p == CertifiedPlan(a)
<1>1. a \in Sel /\ a <= s /\ PlanCertified(a)
  BY NearestThere
<1>2. p \in Plans /\ PlanRight(p) /\ p.state = a /\ kept[p.base] # Nil
  BY <1>1, CertifiedRight
<1> HIDE DEF a, p
<1>3. PICK b \in Sel, c \in ChangeSets \cup {Nil} : p = Planned(a, b, c)
  BY <1>2 DEF Plans, Planned
<1>4. p.base = b /\ p.rows = FullRows(mem[b]) /\ b <= a
  BY <1>2, <1>3 DEF Planned, PlanRight
<1>5. CASE a = s
  BY <1>2, <1>5 DEF SelMembers, a, p
<1>6. CASE a # s
  <2> DEFINE K == Addresses(s, p, b)
             q == Plan(s, b, Changes(s, K))
  <2>1. SelMembers(s) = q
    BY <1>4, <1>6 DEF SelMembers, a, p
  <2>2. K \in SUBSET Selectable
    BY DEF Addresses
  <2>3. Changes(s, K) \in ChangeSets
    BY <2>2, ChangesTyped DEF SelInv
  <2>4. kept[b].rows = FullRows(mem[b]) /\ kept[b].evidence = Evidence(FullRows(mem[b]))
    BY <1>2, <1>4 DEF SelInv
  <2>5. q = Planned(s, b, Changes(s, K))
    BY <2>4 DEF Plan, Planned
  <2>6. q.rows = FullRows(mem[b]) /\ q.changes = Changes(s, K) /\ q.state = s /\ q.base = b
    BY <2>5 DEF Planned
  <2>7. b <= s
    BY <1>1, <1>4, SelectionAssumption DEF Sel
  <2>8. Merged(q) = FullRows(mem[s])
    BY <1>4, <2>6, <2>7, DeltaExact DEF SelInv
  <2>9. q \in Plans
    BY <2>3, <2>5 DEF Plans
  <2> HIDE DEF q
  <2> QED
    BY <2>1, <2>6, <2>7, <2>8, <2>9 DEF PlanRight
<1> QED
  BY <1>5, <1>6

LEMMA RightEvidence ==
    ASSUME History, NEW p \in Plans, PlanRight(p)
    PROVE  PlanEvidence(p) = Evidence(FullRows(mem[p.state]))
<1>1. PICK s \in Sel, b \in Sel, c \in ChangeSets \cup {Nil} : p = Planned(s, b, c)
  BY DEF Plans
<1>2. p.state = s
  BY <1>1 DEF Planned
<1> QED
  BY <1>1, <1>2, PlanEvidenceExact

\* Remembering drops plans and adds one.
LEMMA RememberedOf ==
    ASSUME NEW P, NEW ps \in Seq(P), NEW p \in P
    PROVE  /\ Remembered(ps, p) \in Seq(P)
           /\ \A i \in DOMAIN Remembered(ps, p) :
                 Remembered(ps, p)[i] = p \/ \E j \in DOMAIN ps : Remembered(ps, p)[i] = ps[j]
<1> DEFINE same == {i \in DOMAIN ps : ps[i].state = p.state}
           others == IF same = {} THEN ps ELSE RemoveAt(ps, CHOOSE i \in same : TRUE)
           room == IF Len(others) < PlanLimit THEN others
                   ELSE SubSeq(others, Len(others) - PlanLimit + 2, Len(others))
<1>1. others \in Seq(P) /\ \A i \in DOMAIN others : \E j \in DOMAIN ps : others[i] = ps[j]
  <2>1. CASE same = {}
    BY <2>1
  <2>2. CASE same # {}
    <3>1. PICK i \in DOMAIN ps : others = SubSeq(ps, 1, i - 1) \o SubSeq(ps, i + 1, Len(ps))
      BY <2>2 DEF RemoveAt
    <3>2. i \in 1..Len(ps) /\ Len(ps) \in Nat
      OBVIOUS
    <3> DEFINE x == SubSeq(ps, 1, i - 1)
               y == SubSeq(ps, i + 1, Len(ps))
    <3>3. x \in Seq(P) /\ y \in Seq(P) /\ Len(x) = i - 1 /\ Len(y) = Len(ps) - i
      BY <3>2
    <3>4. \A k \in 1..Len(x) : x[k] = ps[k]
      BY <3>2
    <3>5. \A k \in 1..Len(y) : y[k] = ps[k + i]
      BY <3>2
    <3> HIDE DEF x, y, others
    <3>6. others = x \o y
      BY <3>1 DEF x, y
    <3>7. others \in Seq(P)
      BY <3>3, <3>6
    <3>8. ASSUME NEW k \in DOMAIN others PROVE \E j \in DOMAIN ps : others[k] = ps[j]
      <4>1. k \in 1..(Len(x) + Len(y))
        BY <3>3, <3>6
      <4>2. CASE k <= Len(x)
        <5>1. others[k] = x[k] /\ k \in 1..Len(x) /\ k \in DOMAIN ps
          BY <3>2, <3>3, <3>6, <4>1, <4>2
        <5> QED
          BY <5>1, <3>4
      <4>3. CASE k > Len(x)
        <5>1. others[k] = y[k - Len(x)] /\ k - Len(x) \in 1..Len(y)
          BY <3>3, <3>6, <4>1, <4>3
        <5>2. (k - Len(x)) + i \in DOMAIN ps
          BY <5>1, <3>2, <3>3
        <5> QED
          BY <5>1, <5>2, <3>5
      <4> QED
        BY <4>1, <4>2, <4>3, <3>3
    <3> QED
      BY <3>7, <3>8
  <2> QED
    BY <2>1, <2>2
<1> HIDE DEF others
<1>2. room \in Seq(P) /\ \A i \in DOMAIN room : \E j \in DOMAIN others : room[i] = others[j]
  <2>1. CASE Len(others) < PlanLimit
    BY <1>1, <2>1
  <2>2. CASE ~ (Len(others) < PlanLimit)
    <3> DEFINE n == Len(others)
               m == Len(others) - PlanLimit + 2
    <3>1. n \in Nat /\ m \in 1..(n + 1) /\ room = SubSeq(others, m, n)
      BY <1>1, <2>2, SelectionAssumption
    <3> HIDE DEF n, m
    <3>2. n = Len(others)
      BY DEF n
    <3>3. SubSeq(others, m, n) \in Seq(P) /\ Len(SubSeq(others, m, n)) = n - m + 1
      BY <1>1, <3>1, <3>2
    <3>4. \A i \in 1..(n - m + 1) : SubSeq(others, m, n)[i] = others[i + m - 1] /\ i + m - 1 \in DOMAIN others
      BY <1>1, <3>1, <3>2
    <3> HIDE DEF room
    <3>5. room \in Seq(P) /\ Len(room) = n - m + 1
      BY <3>1, <3>3
    <3>6. DOMAIN room = 1..(n - m + 1)
      BY <3>5
    <3>7. \A i \in DOMAIN room : room[i] = others[i + m - 1] /\ i + m - 1 \in DOMAIN others
      BY <3>1, <3>4, <3>6
    <3> QED
      BY <3>5, <3>7
  <2> QED
    BY <2>1, <2>2
<1> HIDE DEF room
<1>3. Remembered(ps, p) = Append(room, p)
  BY DEF Remembered, room, others
<1>4. Append(room, p) \in Seq(P) /\ \A i \in DOMAIN Append(room, p) : Append(room, p)[i] = p \/ (i \in DOMAIN room /\ Append(room, p)[i] = room[i])
  BY <1>2
<1>5. ASSUME NEW i \in DOMAIN Remembered(ps, p), Remembered(ps, p)[i] # p
      PROVE  \E j \in DOMAIN ps : Remembered(ps, p)[i] = ps[j]
  <2>1. i \in DOMAIN room /\ Remembered(ps, p)[i] = room[i]
    BY <1>3, <1>4, <1>5
  <2>2. PICK j \in DOMAIN others : room[i] = others[j]
    BY <1>2, <2>1
  <2> QED
    BY <1>1, <2>1, <2>2
<1> QED
  BY <1>3, <1>4, <1>5

LEMMA RememberedRight ==
    ASSUME NEW ps \in Seq(Plans), \A i \in DOMAIN ps : PlanRight(ps[i]), NEW p \in Plans, PlanRight(p)
    PROVE  Remembered(ps, p) \in Seq(Plans) /\ \A i \in DOMAIN Remembered(ps, p) : PlanRight(Remembered(ps, p)[i])
<1>1. Remembered(ps, p) \in Seq(Plans)
      /\ \A i \in DOMAIN Remembered(ps, p) : Remembered(ps, p)[i] = p \/ \E j \in DOMAIN ps : Remembered(ps, p)[i] = ps[j]
  BY RememberedOf
<1> QED
  BY <1>1

LEMMA AfterMembersRight ==
    ASSUME SelInv, NEW s \in Sel, Ancestors(s) # {}
    PROVE  AfterMembers(s) \in Seq(Plans) /\ \A i \in DOMAIN AfterMembers(s) : PlanRight(AfterMembers(s)[i])
<1>1. plans \in Seq(Plans) /\ \A i \in DOMAIN plans : PlanRight(plans[i])
  BY DEF SelInv
<1>2. Nearest(s) \in Sel /\ PlanCertified(Nearest(s))
  BY NearestThere
<1>3. CertifiedPlan(Nearest(s)) \in Plans /\ PlanRight(CertifiedPlan(Nearest(s)))
  BY <1>2, CertifiedRight
<1>4. AfterCertified(s) \in Seq(Plans) /\ \A i \in DOMAIN AfterCertified(s) : PlanRight(AfterCertified(s)[i])
  <2>1. AfterCertified(s) = plans \/ AfterCertified(s) = Remembered(plans, CertifiedPlan(Nearest(s)))
    BY DEF AfterCertified
  <2> QED
    BY <2>1, <1>1, <1>3, RememberedRight
<1>5. SelMembers(s) \in Plans /\ PlanRight(SelMembers(s))
  BY MembersRight
<1>6. AfterMembers(s) = AfterCertified(s) \/ AfterMembers(s) = Remembered(AfterCertified(s), SelMembers(s))
  BY DEF AfterMembers
<1> QED
  BY <1>4, <1>5, <1>6, RememberedRight

-----------------------------------------------------------------------------
\* The steps.

\* What a step leaves alone.
Constants == UNCHANGED <<mem, edited, defn>>

LEMMA HistoryStays ==
    ASSUME History, Constants
    PROVE  /\ History' /\ Plans' = Plans
           /\ \A s \in Sel : FullRows(mem[s])' = FullRows(mem[s])
                             /\ Evidence(FullRows(mem[s]))' = Evidence(FullRows(mem[s]))
           /\ \A p : PlanRight(p)' = PlanRight(p) /\ PlanEvidence(p)' = PlanEvidence(p)
<1> USE DEF Constants
<1>1. History'
  BY DEF History
<1>2. \A k, o : SelRow(k, o)' = SelRow(k, o)
  BY DEF SelRow, MemberBytes, SortKey
<1>3. \A m : FullRows(m)' = FullRows(m)
  BY <1>2 DEF FullRows, Selectable, Scoped
<1>5. \A rows : Evidence(rows)' = Evidence(rows)
  BY DEF Evidence
<1>6. \A s \in Sel : FullRows(mem[s])' = FullRows(mem[s])
  BY <1>3
<1>7. \A s \in Sel : Evidence(FullRows(mem[s]))' = Evidence(FullRows(mem[s]))
  BY <1>5, <1>6
<1>8. \A s, b, c : Planned(s, b, c)' = Planned(s, b, c)
  BY <1>3, <1>5 DEF Planned
<1>9. Plans' = Plans
  BY <1>8 DEF Plans
<1>10. \A p : PlanRight(p)' = PlanRight(p)
  BY <1>3 DEF PlanRight, Merged
<1>11. \A p : PlanEvidence(p)' = PlanEvidence(p)
  BY <1>5 DEF PlanEvidence, Cancels, Merged
<1> QED
  BY <1>1, <1>6, <1>7, <1>9, <1>10, <1>11

\* A step that keeps the history and leaves right selections and plans is right.
LEMMA StepRight ==
    ASSUME SelInv, Constants, DOMAIN kept' = Sel,
           \A s \in Sel : kept'[s] # Nil =>
              kept'[s].rows = FullRows(mem[s]) /\ kept'[s].evidence = Evidence(FullRows(mem[s])),
           NEW ps \in Seq(Plans), plans' = ps, \A i \in DOMAIN ps : PlanRight(ps[i])
    PROVE  SelInv'
<1>1. /\ History' /\ Plans' = Plans
      /\ \A t \in Sel : FullRows(mem[t])' = FullRows(mem[t]) /\ Evidence(FullRows(mem[t]))' = Evidence(FullRows(mem[t]))
  BY HistoryStays DEF SelInv
<1>2. \A s \in Sel : kept'[s] # Nil =>
          kept'[s].rows = FullRows(mem[s])' /\ kept'[s].evidence = Evidence(FullRows(mem[s]))'
  BY <1>1
<1>3. \A i \in DOMAIN ps : PlanRight(ps[i])'
  BY HistoryStays DEF SelInv
<1>4. \A i \in DOMAIN plans' : PlanRight(plans[i])'
  BY <1>3
<1>5. plans' \in Seq(Plans)'
  BY <1>1
<1> QED
  BY <1>1, <1>2, <1>4, <1>5 DEF SelInv

LEMMA SelStart ==
    ASSUME SelInit
    PROVE  SelInv
<1>1. mem \in [Sel -> [SelKeys -> Occupants]] /\ defn \in Definitions
  BY DEF SelInit, Occupants
<1>2. edited \in [Sel -> {Nil} \cup SUBSET SelKeys]
      /\ \A s \in Sel \ {1} : edited[s] # Nil => \A k \in SelKeys \ edited[s] : mem[s][k] = mem[s - 1][k]
  <2>1. CASE edited = [s \in Sel |-> IF s = 1 THEN Nil ELSE {k \in SelKeys : mem[s][k] # mem[s - 1][k]}]
    <3>1. \A s \in Sel : edited[s] \in {Nil} \cup SUBSET SelKeys
      BY <2>1
    <3>2. \A s \in Sel \ {1} : \A k \in SelKeys \ edited[s] : mem[s][k] = mem[s - 1][k]
      BY <2>1
    <3>3. edited \in [Sel -> {Nil} \cup SUBSET SelKeys]
      BY <2>1, <3>1
    <3> QED
      BY <3>2, <3>3
  <2>2. CASE edited = [s \in Sel |-> Nil]
    BY <2>2
  <2> QED
    BY <2>1, <2>2 DEF SelInit
<1>3. kept = [s \in Sel |-> Nil] /\ plans = <<>>
  BY DEF SelInit
<1> QED
  BY <1>1, <1>2, <1>3 DEF SelInv, History

LEMMA BindRight ==
    ASSUME SelInv, NEW s \in Sel, Bind(s)
    PROVE  SelInv'
<1>1. Constants /\ kept' = kept /\ plans' = AfterMembers(s) /\ Ancestors(s) # {}
  BY DEF Bind, Constants
<1>2. AfterMembers(s) \in Seq(Plans) /\ \A i \in DOMAIN AfterMembers(s) : PlanRight(AfterMembers(s)[i])
  BY <1>1, AfterMembersRight
<1>3. DOMAIN kept' = Sel /\ \A t \in Sel : kept'[t] # Nil =>
              kept'[t].rows = FullRows(mem[t]) /\ kept'[t].evidence = Evidence(FullRows(mem[t]))
  BY <1>1 DEF SelInv
<1> QED
  BY <1>1, <1>2, <1>3, StepRight

LEMMA RetainRight ==
    ASSUME SelInv, NEW s \in Sel, Retain(s)
    PROVE  SelInv'
<1> DEFINE fresh == [rows |-> FullRows(mem[s]), evidence |-> Evidence(FullRows(mem[s])), there |-> TRUE]
           made == IF Ancestors(s) = {} THEN fresh
                   ELSE [rows |-> Merged(SelMembers(s)), evidence |-> PlanEvidence(SelMembers(s)), there |-> TRUE]
           known == IF Ancestors(s) = {} THEN plans ELSE AfterMembers(s)
           p == [state |-> s, base |-> s, rows |-> made.rows, evidence |-> made.evidence, changes |-> Nil]
<1>1. Constants /\ kept' = [kept EXCEPT ![s] = made] /\ plans' = Remembered(known, p)
  BY DEF Retain, SelWritten, Constants
<1>2. made = fresh
  <2>1. CASE Ancestors(s) = {}
    BY <2>1
  <2>2. CASE Ancestors(s) # {}
    <3>1. SelMembers(s) \in Plans /\ PlanRight(SelMembers(s)) /\ SelMembers(s).state = s
      BY <2>2, MembersRight
    <3>2. PlanEvidence(SelMembers(s)) = Evidence(FullRows(mem[s]))
      BY <3>1, RightEvidence DEF SelInv
    <3>3. Merged(SelMembers(s)) = FullRows(mem[s])
      BY <3>1 DEF PlanRight
    <3> QED
      BY <2>2, <3>2, <3>3
  <2> QED
    BY <2>1, <2>2
<1>3. known \in Seq(Plans) /\ \A i \in DOMAIN known : PlanRight(known[i])
  <2>1. CASE Ancestors(s) = {}
    BY <2>1 DEF SelInv
  <2>2. CASE Ancestors(s) # {}
    BY <2>2, AfterMembersRight
  <2> QED
    BY <2>1, <2>2
<1> HIDE DEF made, known
<1>4. p = Planned(s, s, Nil)
  BY <1>2 DEF Planned
<1>5. p \in Plans /\ PlanRight(p)
  <2>1. Planned(s, s, Nil).base = s /\ Planned(s, s, Nil).state = s
        /\ Planned(s, s, Nil).rows = FullRows(mem[s]) /\ Planned(s, s, Nil).changes = Nil
    BY DEF Planned
  <2>2. s <= s
    BY SelectionAssumption DEF Sel
  <2>3. PlanRight(Planned(s, s, Nil))
    BY <2>1, <2>2 DEF PlanRight, Merged
  <2> QED
    BY <1>4, <2>3 DEF Plans
<1> HIDE DEF p
<1>6. Remembered(known, p) \in Seq(Plans) /\ \A i \in DOMAIN Remembered(known, p) : PlanRight(Remembered(known, p)[i])
  BY <1>3, <1>5, RememberedRight
<1>7. DOMAIN kept' = Sel /\ \A t \in Sel : kept'[t] # Nil =>
              kept'[t].rows = FullRows(mem[t]) /\ kept'[t].evidence = Evidence(FullRows(mem[t]))
  <2>1. DOMAIN kept' = Sel /\ \A t \in Sel : kept'[t] = IF t = s THEN fresh ELSE kept[t]
    BY <1>1, <1>2 DEF SelInv
  <2>2. fresh.rows = FullRows(mem[s]) /\ fresh.evidence = Evidence(FullRows(mem[s]))
    OBVIOUS
  <2> HIDE DEF fresh
  <2> QED
    BY <2>1, <2>2 DEF SelInv
<1> QED
  BY <1>1, <1>6, <1>7, StepRight

LEMMA RemoveSelectedRight ==
    ASSUME SelInv, NEW s \in Sel, RemoveSelected(s)
    PROVE  SelInv'
<1>1. Constants /\ plans' = plans /\ kept[s] # Nil /\ kept' = [kept EXCEPT ![s].there = FALSE]
  BY DEF RemoveSelected, Constants, Retained
<1>2. DOMAIN kept' = Sel /\ \A t \in Sel : kept'[t] # Nil =>
              kept'[t].rows = FullRows(mem[t]) /\ kept'[t].evidence = Evidence(FullRows(mem[t]))
  <2>1. kept' = [kept EXCEPT ![s] = [kept[s] EXCEPT !.there = FALSE]]
    BY <1>1
  <2>2. DOMAIN kept' = Sel /\ \A t \in Sel : kept'[t] = IF t = s THEN [kept[s] EXCEPT !.there = FALSE] ELSE kept[t]
    BY <2>1 DEF SelInv
  <2>3. [kept[s] EXCEPT !.there = FALSE].rows = kept[s].rows
        /\ [kept[s] EXCEPT !.there = FALSE].evidence = kept[s].evidence
    BY <1>1 DEF SelInv
  <2> QED
    BY <1>1, <2>2, <2>3 DEF SelInv
<1>3. plans \in Seq(Plans) /\ \A i \in DOMAIN plans : PlanRight(plans[i])
  BY DEF SelInv
<1> QED
  BY <1>1, <1>2, <1>3, StepRight

LEMMA CloseRight ==
    ASSUME SelInv, CloseSession
    PROVE  SelInv'
<1>1. Constants /\ kept' = kept /\ plans' = <<>>
  BY DEF CloseSession, Constants
<1>2. DOMAIN kept' = Sel /\ \A t \in Sel : kept'[t] # Nil =>
              kept'[t].rows = FullRows(mem[t]) /\ kept'[t].evidence = Evidence(FullRows(mem[t]))
  BY <1>1 DEF SelInv
<1>3. <<>> \in Seq(Plans) /\ \A i \in DOMAIN <<>> : PlanRight(<<>>[i])
  OBVIOUS
<1> QED
  BY <1>1, <1>2, <1>3, StepRight

LEMMA SelInvKept ==
    ASSUME SelInv, [SelNext]_evars
    PROVE  SelInv'
<1>1. CASE UNCHANGED evars
  <2>1. Constants /\ kept' = kept /\ plans' = plans
    BY <1>1 DEF evars, Constants
  <2>2. DOMAIN kept' = Sel /\ \A t \in Sel : kept'[t] # Nil =>
                kept'[t].rows = FullRows(mem[t]) /\ kept'[t].evidence = Evidence(FullRows(mem[t]))
    BY <2>1 DEF SelInv
  <2>3. plans \in Seq(Plans) /\ \A i \in DOMAIN plans : PlanRight(plans[i])
    BY DEF SelInv
  <2> QED
    BY <2>1, <2>2, <2>3, StepRight
<1> QED
  BY <1>1, BindRight, RetainRight, RemoveSelectedRight, CloseRight DEF SelNext

LEMMA SelInvHolds == SelSpec => []SelInv
<1>1. SelInit => SelInv
  BY SelStart
<1>2. SelInv /\ [SelNext]_evars => SelInv'
  BY SelInvKept
<1> QED
  BY <1>1, <1>2, PTL DEF SelSpec

\* What a selection retains and what a session answers with is what evaluating the definition
\* over the whole state gives, along any history of states, whatever retained ancestor or kept
\* plan it was derived from and whatever was removed meanwhile (core_selections.py).
THEOREM SelectionsAreExact == SelSpec => []SelectionsExact
<1>1. SelInv => SelectionsExact
  <2> SUFFICES ASSUME SelInv PROVE SelectionsExact
    OBVIOUS
  <2>1. \A i \in DOMAIN plans : plans[i] \in Plans /\ PlanRight(plans[i])
    BY DEF SelInv
  <2>2. \A i \in DOMAIN plans : PlanEvidence(plans[i]) = Evidence(FullRows(mem[plans[i].state]))
    BY <2>1, RightEvidence DEF SelInv
  <2> QED
    BY <2>2 DEF SelInv, SelectionsExact
<1> QED
  BY <1>1, SelInvHolds, PTL

-----------------------------------------------------------------------------
(* Reuse.                                                                  *)

\* Types: what requests and evidence can declare, and what sessions carry.
Labels == {o.label : o \in Omitted} \cup UNION {DOMAIN Request[c].deps : c \in Calls}
Dependencies == UNION {[D -> Inputs] : D \in SUBSET Labels}
Resources == {Request[c].resource : c \in Calls} \cup {f.value : f \in {g \in Findings : g.scope = "resource"}}
Meanings == {Meaning(f) : f \in [deps : Dependencies, resource : Resources]}
Requests == {Request[c] : c \in Calls}
Comparisons == [deps : Dependencies, ids : SUBSET Evidences, there : BOOLEAN]
Results == [request : Requests, evidence : SUBSET Evidences, version : Nat, there : BOOLEAN,
            comparisons : SUBSET Comparisons]
SelectionRecords == [result : Nat, reuse : BOOLEAN, support : SUBSET Comparisons, whole : BOOLEAN,
            seen : SUBSET Evidences, there : BOOLEAN]
Candidates == [call : Calls, result : Nat, version : Nat]
Checks == [support : SUBSET Comparisons, whole : BOOLEAN]
Readings == [version : Nat, evidence : SUBSET Evidences]
Recordings == [result : Nat, added : Evidences, version : Nat, evidence : SUBSET Evidences]
Wanted == UNION {[D -> SUBSET Meanings] : D \in SUBSET Calls}
PCs == {"closed", "idle", "find", "consider", "check", "commit", "flush", "index", "assessed", "record"}
Work == [pc : PCs, group : Seq(Calls), chose : SUBSET Calls, wanted : Wanted, found : SUBSET Candidates,
         pick : {<<>>} \cup Candidates, pending : Seq(Calls), index : Seq(Nat),
         about : {<<>>} \cup Checks \cup Readings \cup Recordings]

ReuseTypeOK ==
    /\ has \in SUBSET Inputs
    /\ results \in Seq(Results)
    /\ offers \in SUBSET (Meanings \X Nat)
    /\ links \in SUBSET (Nat \X Inputs)
    /\ DOMAIN chosen \in SUBSET Calls /\ chosen \in [DOMAIN chosen -> SelectionRecords]
    /\ work \in [Workers -> Work]

\* What a reuse rests on, of the inputs h and the results rs: the request is answered by
\* the result under the evidence ev, and the comparisons in support answer for its inputs.
Holds(h, rs, c, r, ev, support, whole) ==
    LET f == Fold(rs[r].request, ev)
    IN  /\ Range(Request[c].deps) \subseteq h /\ Adequate(Request[c], {})
        /\ ~ Conflicting(ev) /\ Adequate(rs[r].request, ev) /\ Meaning(f) = Meaning(Request[c])
        /\ Outputs[r] \in h
        /\ whole => \A l \in DOMAIN f.deps : Answering(support \cap Usable(rs[r]), l, f.deps[l]) # {}

\* A session refers to results that there are.  What it read under the version it holds
\* is still so while the result has that version.
Reading(rs, t) ==
    /\ \A f \in t.found : f.result \in DOMAIN rs
    /\ \A i \in DOMAIN t.index : t.index[i] \in DOMAIN rs
    /\ t.pc \in {"check", "commit"} => t.pick \in Candidates /\ t.pick.result \in DOMAIN rs
    /\ t.pc = "commit" => t.about \in Checks
    /\ t.pc = "assessed" => t.index # <<>> /\ t.about \in Readings
    /\ t.pc = "record" => t.about \in Recordings /\ t.about.result \in DOMAIN rs

Committable(h, rs, t) ==
    t.pc = "commit" =>
        /\ t.pick.version <= rs[t.pick.result].version
        /\ t.pick.version = rs[t.pick.result].version =>
             Holds(h, rs, t.pick.call, t.pick.result, rs[t.pick.result].evidence, t.about.support, t.about.whole)

Recordable(rs, t) ==
    t.pc = "record" =>
        /\ t.about.version <= rs[t.about.result].version
        /\ t.about.version = rs[t.about.result].version =>
             ~ Conflicting(rs[t.about.result].evidence \cup {t.about.added})

SessionSound(h, rs, t) == Reading(rs, t) /\ Committable(h, rs, t) /\ Recordable(rs, t)

\* A choice by reuse was right under the evidence it saw, and what it rests on is kept
\* while it stands.
ChoiceSound(h, rs, c, s) ==
    /\ s.result \in DOMAIN rs
    /\ s.reuse =>
        /\ Adequate(rs[s.result].request, s.seen)
        /\ Meaning(Fold(rs[s.result].request, s.seen)) = Meaning(Request[c])
        /\ s.there => Holds(h, rs, c, s.result, s.seen, s.support, s.whole)

\* Evidence is consistent and counted, and every comparison has its links.
ResultSound(ls, r, x) ==
    /\ IsFiniteSet(x.evidence) /\ ~ Conflicting(x.evidence) /\ x.version = Cardinality(x.evidence)
    /\ \A c \in x.comparisons : \A l \in DOMAIN c.deps : <<r, c.deps[l]>> \in ls

\* The inductive invariant.
ReuseInv ==
    /\ ReuseTypeOK
    /\ \A w \in Workers : SessionSound(has, results, work[w])
    /\ \A c \in DOMAIN chosen : ChoiceSound(has, results, c, chosen[c])
    /\ \A r \in ResultIds : ResultSound(links, r, results[r])

-----------------------------------------------------------------------------
(* The folding of evidence.                                                *)

LEMMA EvidenceShape ==
    ASSUME NEW ev \in SUBSET Evidences, NEW x \in Supplements(ev)
    PROVE  /\ x.label \in {o.label : o \in Omitted}
           /\ x.scope = "dependency" => x.value \in Inputs
           /\ x.scope = "resource" => x.value \in Resources
<1>1. x \in Evidences /\ x.status = "supplement"
  BY DEF Supplements
<1>2. PICK f \in Findings : x = [status |-> "supplement", scope |-> f.scope, label |-> f.label, value |-> f.value]
  BY <1>1 DEF Evidences
<1>3. [scope |-> f.scope, label |-> f.label] \in Omitted /\ (f.scope = "dependency" => f.value \in Inputs)
  BY ReuseAssumption DEF ReuseAssumption
<1>4. [scope |-> f.scope, label |-> f.label].label = f.label
  OBVIOUS
<1> QED
  BY <1>2, <1>3, <1>4 DEF Resources

LEMMA FoldType ==
    ASSUME NEW q \in Requests, NEW ev \in SUBSET Evidences
    PROVE  Fold(q, ev) \in [deps : Dependencies, resource : Resources]
<1> DEFINE F == {x \in Supplements(ev) : x.scope = "dependency"}
           R == {x \in Supplements(ev) : x.scope = "resource"}
           L == {x.label : x \in F}
           D == [l \in DOMAIN q.deps \cup L |-> IF l \in L THEN (CHOOSE x \in F : x.label = l).value ELSE q.deps[l]]
           S == IF R = {} THEN q.resource ELSE (CHOOSE x \in R : TRUE).value
<1>1. Fold(q, ev) = [deps |-> D, resource |-> S]
  BY DEF Fold
<1>2. PICK c \in Calls : q = Request[c]
  BY DEF Requests
<1>3. DOMAIN q.deps \cup L \in SUBSET Labels
  <2>1. ASSUME NEW l \in L PROVE l \in Labels
    <3>1. PICK x \in F : l = x.label
      OBVIOUS
    <3>2. l \in {o.label : o \in Omitted}
      BY <3>1, EvidenceShape
    <3> QED
      BY <3>2 DEF Labels
  <2>2. ASSUME NEW l \in DOMAIN q.deps PROVE l \in Labels
    <3>1. l \in DOMAIN Request[c].deps
      BY <1>2
    <3> QED
      BY <3>1 DEF Labels
  <2> HIDE DEF L
  <2> QED
    BY <2>1, <2>2
<1>4. D \in [DOMAIN q.deps \cup L -> Inputs]
  <2> SUFFICES ASSUME NEW l \in DOMAIN q.deps \cup L
               PROVE  (IF l \in L THEN (CHOOSE x \in F : x.label = l).value ELSE q.deps[l]) \in Inputs
    OBVIOUS
  <2>1. CASE l \in L
    <3>1. \E x \in F : x.label = l
      BY <2>1
    <3>2. (CHOOSE x \in F : x.label = l) \in F
      BY <3>1
    <3> QED
      BY <2>1, <3>2, EvidenceShape
  <2>2. CASE l \notin L
    BY <1>2, <2>2, ReuseAssumption DEF ReuseAssumption
  <2> QED
    BY <2>1, <2>2
<1>5. D \in Dependencies
  BY <1>3, <1>4 DEF Dependencies
<1>6. S \in Resources
  <2>1. CASE R = {}
    BY <1>2, <2>1 DEF Resources
  <2>2. CASE R # {}
    <3>1. (CHOOSE x \in R : TRUE) \in R
      BY <2>2
    <3> QED
      BY <2>2, <3>1, EvidenceShape
  <2> QED
    BY <2>1, <2>2
<1> QED
  BY <1>1, <1>5, <1>6

LEMMA AssessType ==
    ASSUME NEW q \in Requests, NEW ev \in SUBSET Evidences, NEW past
    PROVE  Assess(q, ev, past) \in SUBSET Meanings
  BY FoldType DEF Assess, Meanings

\* Without evidence a request means what it declares.
LEMMA FoldNothing ==
    ASSUME NEW q
    PROVE  /\ ~ Conflicting({}) /\ Meaning(Fold(q, {})) = Meaning(q)
           /\ DOMAIN Fold(q, {}).deps = DOMAIN q.deps
           /\ \A l \in DOMAIN q.deps : Fold(q, {}).deps[l] = q.deps[l]
<1>1. Supplements({}) = {}
  BY DEF Supplements
<1>2. Fold(q, {}) = [deps |-> [l \in DOMAIN q.deps |-> q.deps[l]], resource |-> q.resource]
  BY <1>1 DEF Fold
<1>3. ~ Conflicting({})
  BY <1>1 DEF Conflicting
<1> HIDE DEF Fold
<1>4. /\ Fold(q, {}).deps = [l \in DOMAIN q.deps |-> q.deps[l]] /\ Fold(q, {}).resource = q.resource
  BY <1>2
<1> QED
  BY <1>3, <1>4 DEF Meaning

LEMMA AssessSome ==
    ASSUME NEW q, NEW ev, NEW past, Assess(q, ev, past) # {}
    PROVE  /\ Assess(q, ev, past) = {Meaning(Fold(q, ev))}
           /\ ~ Conflicting(ev) /\ Adequate(q, ev)
           /\ \A l \in DOMAIN Fold(q, ev).deps :
                Answering(past, l, Fold(q, ev).deps[l]) # {} \/ Fold(q, ev).deps[l] \in has
  BY DEF Assess

\* The latest of the answering comparisons exists.
LEMMA AnswerIn ==
    ASSUME NEW ev, IsFiniteSet(ev), NEW past, \A d \in past : d.ids \in SUBSET ev,
           NEW l, NEW i, Answering(past, l, i) # {}
    PROVE  Answer(past, l, i) \in Answering(past, l, i)
<1> DEFINE A == Answering(past, l, i)
           T == {n \in Nat : \E d \in A : n = Cardinality(ev) - Cardinality(d.ids)}
<1>1. \A d \in A : Cardinality(d.ids) \in Nat /\ Cardinality(d.ids) <= Cardinality(ev) /\ Cardinality(ev) \in Nat
  BY FS_Subset, FS_CardinalityType DEF Answering
<1>2. PICK d \in A : TRUE
  OBVIOUS
<1>3. T # {}
  <2>1. Cardinality(ev) - Cardinality(d.ids) \in T
    BY <1>1
  <2> QED
    BY <2>1
<1>4. PICK n \in T : \A m \in T : ~ (<<m, n>> \in OpToRel(<, Nat))
  BY <1>3, WFMin, NatLessThanWellFounded
<1>5. \A m \in T : n <= m
  <2> SUFFICES ASSUME NEW m \in T, m < n PROVE FALSE
    OBVIOUS
  <2>1. m \in Nat /\ n \in Nat
    OBVIOUS
  <2> HIDE DEF T
  <2>2. <<m, n>> \in OpToRel(<, Nat)
    BY <2>1 DEF OpToRel
  <2> QED
    BY <1>4, <2>2
<1>6. PICK c \in A : n = Cardinality(ev) - Cardinality(c.ids)
  OBVIOUS
<1>7. ASSUME NEW e \in A PROVE Cardinality(e.ids) <= Cardinality(c.ids)
  <2>1. Cardinality(ev) - Cardinality(e.ids) \in T
    BY <1>1
  <2> HIDE DEF T, A
  <2> QED
    BY <1>1, <1>5, <1>6, <2>1
<1>8. \E x \in A : \A e \in A : Cardinality(e.ids) <= Cardinality(x.ids)
  BY <1>7
<1> HIDE DEF T
<1> QED
  BY <1>8 DEF Answer

-----------------------------------------------------------------------------
(* Everything but a removal lets inputs, results, evidence and comparisons *)
(* grow, and what a session or a choice rests on stays.                    *)

ResultGrows(x, y) ==
    /\ y.request = x.request
    /\ x.version <= y.version
    /\ y.version = x.version => y.evidence = x.evidence
    /\ x.evidence \subseteq y.evidence
    /\ x.comparisons \subseteq y.comparisons

Grows(h, rs, hh, ss) ==
    /\ h \subseteq hh /\ DOMAIN rs \subseteq DOMAIN ss
    /\ \A r \in DOMAIN rs : rs[r] \in Results /\ ss[r] \in Results /\ ResultGrows(rs[r], ss[r])

LEMMA UsableGrows ==
    ASSUME NEW x, NEW y, ResultGrows(x, y)
    PROVE  Usable(x) \subseteq Usable(y)
  BY DEF ResultGrows, Usable

LEMMA AnsweringGrows ==
    ASSUME NEW A, NEW B, A \subseteq B, NEW l, NEW i, Answering(A, l, i) # {}
    PROVE  Answering(B, l, i) # {}
  BY DEF Answering

LEMMA HoldsGrows ==
    ASSUME NEW h, NEW rs, NEW hh, NEW ss, Grows(h, rs, hh, ss),
           NEW c, NEW r \in DOMAIN rs, NEW ev, NEW support, NEW whole,
           Holds(h, rs, c, r, ev, support, whole)
    PROVE  Holds(hh, ss, c, r, ev, support, whole)
<1> DEFINE f == Fold(rs[r].request, ev)
<1>1. ss[r].request = rs[r].request /\ Usable(rs[r]) \subseteq Usable(ss[r]) /\ h \subseteq hh
  <2>1. ResultGrows(rs[r], ss[r]) /\ h \subseteq hh
    BY DEF Grows
  <2> QED
    BY <2>1, UsableGrows DEF ResultGrows
<1>2. ASSUME whole, NEW l \in DOMAIN f.deps
      PROVE  Answering(support \cap Usable(ss[r]), l, f.deps[l]) # {}
  <2>1. Answering(support \cap Usable(rs[r]), l, f.deps[l]) # {}
    BY <1>2 DEF Holds
  <2>2. support \cap Usable(rs[r]) \subseteq support \cap Usable(ss[r])
    BY <1>1
  <2> HIDE DEF f
  <2> QED
    BY <2>1, <2>2, AnsweringGrows
<1>3. /\ Range(Request[c].deps) \subseteq h /\ Adequate(Request[c], {})
      /\ ~ Conflicting(ev) /\ Adequate(rs[r].request, ev) /\ Meaning(f) = Meaning(Request[c])
      /\ Outputs[r] \in h
  BY DEF Holds
<1>4. /\ Range(Request[c].deps) \subseteq hh /\ Adequate(Request[c], {})
      /\ ~ Conflicting(ev) /\ Adequate(ss[r].request, ev) /\ Meaning(f) = Meaning(Request[c])
      /\ Outputs[r] \in hh /\ f = Fold(ss[r].request, ev)
  BY <1>1, <1>3
<1> HIDE DEF f
<1>5. whole => \A l \in DOMAIN f.deps : Answering(support \cap Usable(ss[r]), l, f.deps[l]) # {}
  BY <1>2
<1> QED
  BY <1>4, <1>5 DEF Holds

LEMMA SessionGrows ==
    ASSUME NEW h, NEW rs, NEW hh, NEW ss, Grows(h, rs, hh, ss), NEW t, SessionSound(h, rs, t)
    PROVE  SessionSound(hh, ss, t)
<1>1. DOMAIN rs \subseteq DOMAIN ss
  BY DEF Grows
<1>2. Reading(ss, t)
  BY <1>1 DEF SessionSound, Reading
<1>3. ASSUME t.pc = "commit" PROVE Committable(hh, ss, t)
  <2> DEFINE r == t.pick.result
  <2>1. r \in DOMAIN rs /\ t.pick.version \in Nat
    BY <1>3 DEF SessionSound, Reading, Candidates
  <2>2. /\ t.pick.version <= rs[r].version
        /\ t.pick.version = rs[r].version =>
             Holds(h, rs, t.pick.call, r, rs[r].evidence, t.about.support, t.about.whole)
    BY <1>3 DEF SessionSound, Committable
  <2>3. /\ rs[r].version \in Nat /\ ss[r].version \in Nat /\ rs[r].version <= ss[r].version
        /\ ss[r].version = rs[r].version => ss[r].evidence = rs[r].evidence
    BY <2>1 DEF Grows, Results, ResultGrows
  <2> HIDE DEF r
  <2>4. t.pick.version <= ss[r].version
    BY <2>1, <2>2, <2>3
  <2>5. ASSUME t.pick.version = ss[r].version
        PROVE  Holds(hh, ss, t.pick.call, r, ss[r].evidence, t.about.support, t.about.whole)
    <3>1. t.pick.version = rs[r].version /\ ss[r].evidence = rs[r].evidence
      BY <2>1, <2>2, <2>3, <2>5
    <3> QED
      BY <2>1, <2>2, <3>1, HoldsGrows
  <2> QED
    BY <2>4, <2>5 DEF Committable, r
<1>4. ASSUME t.pc = "record" PROVE Recordable(ss, t)
  <2> DEFINE r == t.about.result
  <2>1. r \in DOMAIN rs /\ t.about.version \in Nat
    BY <1>4 DEF SessionSound, Reading, Recordings
  <2>2. /\ t.about.version <= rs[r].version
        /\ t.about.version = rs[r].version => ~ Conflicting(rs[r].evidence \cup {t.about.added})
    BY <1>4 DEF SessionSound, Recordable
  <2>3. /\ rs[r].version \in Nat /\ ss[r].version \in Nat /\ rs[r].version <= ss[r].version
        /\ ss[r].version = rs[r].version => ss[r].evidence = rs[r].evidence
    BY <2>1 DEF Grows, Results, ResultGrows
  <2> HIDE DEF r
  <2>4. t.about.version <= ss[r].version
    BY <2>1, <2>2, <2>3
  <2>5. t.about.version = ss[r].version => ~ Conflicting(ss[r].evidence \cup {t.about.added})
    <3> SUFFICES ASSUME t.about.version = ss[r].version
                 PROVE  ~ Conflicting(ss[r].evidence \cup {t.about.added})
      OBVIOUS
    <3>1. t.about.version = rs[r].version /\ ss[r].evidence = rs[r].evidence
      BY <2>1, <2>2, <2>3
    <3> QED
      BY <2>2, <3>1
  <2> QED
    BY <2>4, <2>5 DEF Recordable, r
<1> QED
  BY <1>2, <1>3, <1>4 DEF SessionSound, Committable, Recordable

LEMMA ChoiceGrows ==
    ASSUME NEW h, NEW rs, NEW hh, NEW ss, Grows(h, rs, hh, ss), NEW c, NEW s, ChoiceSound(h, rs, c, s)
    PROVE  ChoiceSound(hh, ss, c, s)
<1>1. s.result \in DOMAIN rs /\ s.result \in DOMAIN ss
  BY DEF ChoiceSound, Grows
<1>2. ss[s.result].request = rs[s.result].request
  BY <1>1 DEF Grows, ResultGrows
<1>3. s.reuse /\ s.there => Holds(hh, ss, c, s.result, s.seen, s.support, s.whole)
  BY <1>1, HoldsGrows DEF ChoiceSound
<1> QED
  BY <1>1, <1>2, <1>3 DEF ChoiceSound

-----------------------------------------------------------------------------
(* One step: what it must show of what it changes.                         *)

LEMMA GrowsNot ==
    ASSUME ReuseTypeOK
    PROVE  Grows(has, results, has, results)
<1>1. \A r \in DOMAIN results : results[r] \in Results
  BY LenProperties DEF ReuseTypeOK
<1>2. \A r \in DOMAIN results : results[r].version \in Nat
  BY <1>1 DEF Results
<1> QED
  BY <1>1, <1>2 DEF Grows, ResultGrows

LEMMA Frame ==
    ASSUME ReuseInv, ReuseTypeOK', Grows(has, results, has', results'), links \subseteq links',
           NEW w \in Workers, NEW t, work' = [work EXCEPT ![w] = t], SessionSound(has', results', t),
           \A c \in DOMAIN chosen' : \/ c \in DOMAIN chosen /\ chosen'[c] = chosen[c]
                                    \/ ChoiceSound(has', results', c, chosen'[c]),
           \A r \in DOMAIN results' : \/ r \in DOMAIN results /\ results'[r] = results[r]
                                     \/ ResultSound(links', r, results'[r])
    PROVE  ReuseInv'
<1>1. \A x \in Workers : SessionSound(has', results', work'[x])
  <2> SUFFICES ASSUME NEW x \in Workers PROVE SessionSound(has', results', work'[x])
    OBVIOUS
  <2>1. work \in [Workers -> Work]
    BY DEF ReuseInv, ReuseTypeOK
  <2>2. CASE x = w
    <3>1. work'[x] = t
      BY <2>1, <2>2
    <3> QED
      BY <3>1
  <2>3. CASE x # w
    <3>1. work'[x] = work[x] /\ SessionSound(has, results, work[x])
      BY <2>1, <2>3 DEF ReuseInv
    <3> QED
      BY <3>1, SessionGrows
  <2> QED
    BY <2>2, <2>3
<1>2. \A c \in DOMAIN chosen' : ChoiceSound(has', results', c, chosen'[c])
  <2> SUFFICES ASSUME NEW c \in DOMAIN chosen', c \in DOMAIN chosen, chosen'[c] = chosen[c]
               PROVE  ChoiceSound(has', results', c, chosen'[c])
    OBVIOUS
  <2>1. ChoiceSound(has, results, c, chosen[c])
    BY DEF ReuseInv
  <2> QED
    BY <2>1, ChoiceGrows
<1>3. \A r \in DOMAIN results' : ResultSound(links', r, results'[r])
  <2> SUFFICES ASSUME NEW r \in DOMAIN results', r \in DOMAIN results, results'[r] = results[r]
               PROVE  ResultSound(links', r, results'[r])
    OBVIOUS
  <2>1. ResultSound(links, r, results[r])
    BY DEF ReuseInv, ResultIds
  <2> QED
    BY <2>1 DEF ResultSound
<1> QED
  BY <1>1, <1>2, <1>3 DEF ReuseInv, ResultIds

\* A step of one session that only reads.
LEMMA ReadFrame ==
    ASSUME ReuseInv, NEW w \in Workers, NEW t \in Work, Put(w, t), SessionSound(has, results, t),
           UNCHANGED <<has, results, offers, links, chosen>>
    PROVE  ReuseInv'
<1>1. ReuseTypeOK'
  BY DEF ReuseInv, ReuseTypeOK, Put
<1>2. Grows(has, results, has', results')
  BY GrowsNot DEF ReuseInv
<1>3. work' = [work EXCEPT ![w] = t]
  BY DEF Put
<1> QED
  BY <1>1, <1>2, <1>3, Frame

\* A session that holds nothing.
LEMMA Resting ==
    ASSUME NEW h, NEW rs, NEW t, t.pc \in {"closed", "idle", "find"}, t.found = {}, t.index = <<>>
    PROVE  SessionSound(h, rs, t)
  BY DEF SessionSound, Reading, Committable, Recordable

LEMMA IdleType == /\ Idle \in Work /\ Closed \in Work
                  /\ Idle.pc = "idle" /\ Closed.pc = "closed"
                  /\ Idle.found = {} /\ Idle.index = <<>> /\ Closed.found = {} /\ Closed.index = <<>>
<1>1. <<>> \in Wanted
  <2>1. <<>> \in [{} -> SUBSET Meanings]
    OBVIOUS
  <2> QED
    BY <2>1 DEF Wanted
<1>2. <<>> \in Seq(Calls) /\ <<>> \in Seq(Nat)
  OBVIOUS
<1>3. Idle \in Work
  BY <1>1, <1>2 DEF Idle, Work, PCs
<1>4. Closed = [Idle EXCEPT !.pc = "closed"] /\ "closed" \in PCs
  BY DEF Closed, PCs
<1>5. Closed \in Work /\ Closed.pc = "closed" /\ Closed.found = Idle.found /\ Closed.index = Idle.index
  BY <1>3, <1>4 DEF Work
<1> QED
  BY <1>3, <1>5 DEF Idle

LEMMA Typing ==
    ASSUME ReuseTypeOK
    PROVE  /\ \A w \in Workers : work[w] \in Work
           /\ \A r \in ResultIds : results[r] \in Results
           /\ ResultIds = 1 .. Len(results) /\ Len(results) \in Nat
           /\ \A c \in DOMAIN chosen : chosen[c] \in SelectionRecords
  BY LenProperties DEF ReuseTypeOK, ResultIds

-----------------------------------------------------------------------------
(* The steps of a session that only read.                                  *)

LEMMA OpenHolds == ASSUME ReuseInv, NEW w \in Workers, OpenSession(w) PROVE ReuseInv'
<1>1. Idle \in Work /\ SessionSound(has, results, Idle)
  BY IdleType, Resting
<1> QED
  BY <1>1, ReadFrame DEF OpenSession

LEMMA EndHolds == ASSUME ReuseInv, NEW w \in Workers, EndSession(w) PROVE ReuseInv'
<1>1. Closed \in Work /\ SessionSound(has, results, Closed)
  BY IdleType, Resting
<1> QED
  BY <1>1, ReadFrame DEF EndSession

LEMMA LookHolds ==
    ASSUME ReuseInv, NEW w \in Workers, NEW group \in Groups, NEW fresh \in BOOLEAN, Look(w, group, fresh)
    PROVE  ReuseInv'
<1> DEFINE prior == Range(group) \cap DOMAIN chosen
           want == [c \in Range(group) \ prior |-> IF fresh THEN {} ELSE Asked(c)]
           t == [Idle EXCEPT !.pc = "find", !.group = group, !.chose = prior, !.wanted = want]
<1>1. group \in Seq(Calls) /\ Range(group) \in SUBSET Calls
  <2>1. group \in Seq(Calls)
    BY ReuseAssumption DEF ReuseAssumption
  <2> QED
    BY <2>1, LenProperties DEF Range
<1>2. want \in Wanted
  <2>1. \A c \in Calls : Asked(c) \in SUBSET Meanings
    <3>1. {} \in SUBSET Evidences /\ \A c \in Calls : Request[c] \in Requests
      BY DEF Requests
    <3> QED
      BY <3>1, AssessType DEF Asked
  <2>2. want \in [Range(group) \ prior -> SUBSET Meanings] /\ Range(group) \ prior \in SUBSET Calls
    BY <1>1, <2>1
  <2> HIDE DEF want
  <2> QED
    BY <2>2 DEF Wanted
<1>3. prior \in SUBSET Calls
  BY <1>1
<1> HIDE DEF want, prior
<1>4. t \in Work /\ t.pc = "find" /\ t.found = {} /\ t.index = <<>>
  BY <1>1, <1>2, <1>3, IdleType DEF Work, PCs
<1>5. Put(w, t) /\ UNCHANGED <<has, results, offers, links, chosen>>
  BY DEF Look, want, prior
<1> HIDE DEF t
<1>6. SessionSound(has, results, t)
  BY <1>4, Resting
<1> QED
  BY <1>4, <1>5, <1>6, ReadFrame

LEMMA FindHolds == ASSUME ReuseInv, NEW w \in Workers, Find(w) PROVE ReuseInv'
<1> DEFINE match == {m \in (DOMAIN work[w].wanted) \X ResultIds :
                       results[m[2]].there /\ \E d \in work[w].wanted[m[1]] : <<d, m[2]>> \in offers}
           found == {[call |-> m[1], result |-> m[2], version |-> results[m[2]].version] : m \in match}
           t == [work[w] EXCEPT !.pc = "consider", !.found = found]
<1>1. work[w] \in Work /\ ResultIds \subseteq Nat /\ \A r \in ResultIds : results[r].version \in Nat
  BY Typing DEF ReuseInv, Results
<1>2. DOMAIN work[w].wanted \subseteq Calls
  <2>1. work[w].wanted \in Wanted
    BY <1>1 DEF Work
  <2> QED
    BY <2>1 DEF Wanted
<1>3. found \in SUBSET Candidates /\ \A f \in found : f.result \in ResultIds
  <2> SUFFICES ASSUME NEW m \in match
               PROVE  /\ [call |-> m[1], result |-> m[2], version |-> results[m[2]].version] \in Candidates
                      /\ m[2] \in ResultIds
    OBVIOUS
  <2>1. m[1] \in Calls /\ m[2] \in ResultIds
    BY <1>2
  <2> HIDE DEF match
  <2> QED
    BY <1>1, <2>1 DEF Candidates
<1> HIDE DEF found
<1>4. t \in Work /\ t.pc = "consider" /\ t.found = found /\ t.index = work[w].index
  BY <1>1, <1>3 DEF Work, PCs
<1>5. Put(w, t) /\ UNCHANGED <<has, results, offers, links, chosen>>
  BY DEF Find, found
<1> HIDE DEF t
<1>6. SessionSound(has, results, t)
  BY <1>3, <1>4 DEF ReuseInv, SessionSound, Reading, Committable, Recordable, ResultIds
<1> QED
  BY <1>4, <1>5, <1>6, ReadFrame

LEMMA ConsiderHolds ==
    ASSUME ReuseInv, NEW w \in Workers, NEW taken \in BOOLEAN, Consider(w, taken) PROVE ReuseInv'
<1>1. PICK c \in work[w].found :
        Put(w, IF taken THEN [work[w] EXCEPT !.found = @ \ {c}, !.pick = c, !.pc = "check"]
               ELSE [work[w] EXCEPT !.found = @ \ {c}])
  BY DEF Consider
<1> DEFINE t == IF taken THEN [work[w] EXCEPT !.found = work[w].found \ {c}, !.pick = c, !.pc = "check"]
                ELSE [work[w] EXCEPT !.found = work[w].found \ {c}]
<1>2. work[w] \in Work /\ work[w].pc = "consider" /\ SessionSound(has, results, work[w])
  BY Typing DEF ReuseInv, Consider
<1>3. c \in Candidates /\ c.result \in DOMAIN results
  BY <1>2 DEF Work, SessionSound, Reading
<1>4. t \in Work
  BY <1>2, <1>3 DEF Work, PCs
<1>5. /\ t.found \subseteq work[w].found /\ t.index = work[w].index
      /\ t.pc \in {"check", "consider"} /\ (t.pc = "check" => t.pick = c)
  BY <1>2 DEF Work
<1>6. Put(w, t) /\ UNCHANGED <<has, results, offers, links, chosen>>
  BY <1>1 DEF Consider
<1> HIDE DEF t
<1>7. SessionSound(has, results, t)
  BY <1>2, <1>3, <1>5 DEF SessionSound, Reading, Committable, Recordable
<1> QED
  BY <1>4, <1>6, <1>7, ReadFrame

LEMMA ProduceHolds ==
    ASSUME ReuseInv, NEW w \in Workers, NEW success \in BOOLEAN, Produce(w, success) PROVE ReuseInv'
<1>1. PICK i \in Left(work[w]) :
        Put(w, IF success THEN [work[w] EXCEPT !.pending = Append(@, work[w].group[i]),
                                              !.chose = @ \cup {work[w].group[i]}]
               ELSE [work[w] EXCEPT !.pc = "flush"])
  BY DEF Produce
<1> DEFINE c == work[w].group[i]
           t == IF success THEN [work[w] EXCEPT !.pending = Append(work[w].pending, c),
                                               !.chose = work[w].chose \cup {c}]
                ELSE [work[w] EXCEPT !.pc = "flush"]
<1>2. work[w] \in Work /\ work[w].pc = "consider" /\ SessionSound(has, results, work[w])
  BY Typing DEF ReuseInv, Produce
<1>3. c \in Calls
  <2>1. work[w].group \in Seq(Calls) /\ i \in DOMAIN work[w].group
    BY <1>2 DEF Work, Left
  <2> QED
    BY <2>1, LenProperties
<1>4. Append(work[w].pending, c) \in Seq(Calls)
  BY <1>2, <1>3, AppendProperties DEF Work
<1> HIDE DEF c
<1>5. t \in Work
  BY <1>2, <1>3, <1>4 DEF Work, PCs
<1>6. t.found = work[w].found /\ t.index = work[w].index /\ t.pc \in {"flush", "consider"}
  BY <1>2 DEF Work
<1>7. Put(w, t) /\ UNCHANGED <<has, results, offers, links, chosen>>
  BY <1>1 DEF Produce, c
<1> HIDE DEF t
<1>8. SessionSound(has, results, t)
  BY <1>2, <1>6 DEF SessionSound, Reading, Committable, Recordable
<1> QED
  BY <1>5, <1>7, <1>8, ReadFrame

LEMMA ExamineHolds ==
    ASSUME ReuseInv, NEW w \in Workers, NEW r \in ResultIds, NEW e \in Evidences, Examine(w, r, e)
    PROVE  ReuseInv'
<1> DEFINE a == [result |-> r, added |-> e, version |-> results[r].version,
                 evidence |-> results[r].evidence \cup {e}]
           t == [Idle EXCEPT !.pc = "record", !.about = a]
<1>1. results[r] \in Results /\ r \in Nat
  BY Typing DEF ReuseInv
<1>2. a \in Recordings
  BY <1>1 DEF Results, Recordings
<1>3. a.result = r /\ a.added = e /\ a.version = results[r].version
  OBVIOUS
<1>4. results[r].version \in Nat /\ ~ Conflicting(results[r].evidence)
  BY <1>1 DEF Results, ReuseInv, ResultSound
<1>5. ~ Conflicting(results[r].evidence \cup {e})
  <2>1. CASE e.status = "supplement"
    BY <2>1 DEF Examine, EvidenceAdmissible
  <2>2. CASE e.status # "supplement"
    <3>1. Supplements(results[r].evidence \cup {e}) = Supplements(results[r].evidence)
      BY <2>2 DEF Supplements
    <3> QED
      BY <1>4, <3>1 DEF Conflicting
  <2> QED
    BY <2>1, <2>2
<1> HIDE DEF a
<1>6. t \in Work /\ t.pc = "record" /\ t.about = a /\ t.found = {} /\ t.index = <<>>
  BY <1>2, IdleType DEF Work, PCs
<1>7. Put(w, t) /\ UNCHANGED <<has, results, offers, links, chosen>>
  BY DEF Examine, a
<1> HIDE DEF t
<1>8. SessionSound(has, results, t)
  <2>1. Reading(results, t)
    BY <1>2, <1>3, <1>6 DEF Reading, ResultIds
  <2>2. Committable(has, results, t)
    BY <1>6 DEF Committable
  <2>3. Recordable(results, t)
    <3>1. t.about.result = r /\ t.about.added = e /\ t.about.version = results[r].version
      BY <1>3, <1>6
    <3>2. results[r].version <= results[r].version
      BY <1>4
    <3> QED
      BY <1>5, <3>1, <3>2 DEF Recordable
  <2> QED
    BY <2>1, <2>2, <2>3 DEF SessionSound
<1> QED
  BY <1>6, <1>7, <1>8, ReadFrame

-----------------------------------------------------------------------------
(* What the publisher's check establishes.                                 *)

LEMMA SupportAnswers ==
    ASSUME ReuseInv, NEW r \in ResultIds
    PROVE  LET f == Fold(results[r].request, results[r].evidence)
           IN  /\ Support(r) \in SUBSET Comparisons
               /\ \A l \in Answered(r) : Answering(Support(r) \cap Usable(results[r]), l, f.deps[l]) # {}
<1> DEFINE f == Fold(results[r].request, results[r].evidence)
           U == Usable(results[r])
           ev == results[r].evidence
<1>1. IsFiniteSet(ev) /\ results[r] \in Results
  BY Typing DEF ReuseInv, ResultSound
<1>2. \A d \in U : d.ids \in SUBSET ev
  BY DEF Usable
<1>3. U \subseteq Comparisons
  BY <1>1 DEF Usable, Results
<1>4. ASSUME NEW l \in Answered(r)
      PROVE  Answer(U, l, f.deps[l]) \in Answering(U, l, f.deps[l])
  <2>1. Answering(U, l, f.deps[l]) # {}
    BY <1>4 DEF Answered
  <2> HIDE DEF f, U, ev
  <2> QED
    BY <1>1, <1>2, <2>1, AnswerIn
<1>5. Support(r) = {Answer(U, l, f.deps[l]) : l \in Answered(r)}
  BY DEF Support
<1> HIDE DEF f, U, ev
<1>6. ASSUME NEW l \in Answered(r)
      PROVE  /\ Answer(U, l, f.deps[l]) \in Support(r) /\ Answer(U, l, f.deps[l]) \in U
             /\ l \in DOMAIN Answer(U, l, f.deps[l]).deps /\ Answer(U, l, f.deps[l]).deps[l] = f.deps[l]
  BY <1>4, <1>5 DEF Answering
<1>7. \A l \in Answered(r) : Answering(Support(r) \cap U, l, f.deps[l]) # {}
  BY <1>6 DEF Answering
<1>8. Support(r) \in SUBSET Comparisons
  BY <1>3, <1>5, <1>6
<1> QED
  BY <1>7, <1>8 DEF f, U

LEMMA CheckedHolds ==
    ASSUME ReuseInv, NEW c, NEW r \in ResultIds, Corresponds(c, r), Outputs[r] \in has
    PROVE  Holds(has, results, c, r, results[r].evidence, Support(r), Supported(r))
<1> DEFINE ev == results[r].evidence
           f == Fold(results[r].request, ev)
<1>1. /\ Assess(Request[c], {}, {}) # {}
      /\ Assess(Request[c], {}, {}) = Assess(results[r].request, ev, Usable(results[r]))
  BY DEF Corresponds, Asked, AssessResult
<1>2. /\ Assess(Request[c], {}, {}) = {Meaning(Request[c])} /\ Adequate(Request[c], {})
      /\ \A l \in DOMAIN Request[c].deps : Request[c].deps[l] \in has
  <2>1. \A l, i : Answering({}, l, i) = {}
    BY DEF Answering
  <2> QED
    BY <1>1, <2>1, AssessSome, FoldNothing
<1>3. ~ Conflicting(ev) /\ Adequate(results[r].request, ev) /\ Meaning(f) = Meaning(Request[c])
  <2>1. Assess(results[r].request, ev, Usable(results[r])) = {Meaning(f)}
    BY <1>1, AssessSome
  <2>2. ~ Conflicting(ev) /\ Adequate(results[r].request, ev)
    BY <1>1, AssessSome
  <2> QED
    BY <1>1, <1>2, <2>1, <2>2
<1>4. Range(Request[c].deps) \subseteq has
  BY <1>2 DEF Range
<1>5. ASSUME Supported(r), NEW l \in DOMAIN f.deps
      PROVE  Answering(Support(r) \cap Usable(results[r]), l, f.deps[l]) # {}
  <2>1. l \in Answered(r)
    BY <1>5 DEF Supported
  <2> QED
    BY <2>1, SupportAnswers
<1> QED
  BY <1>2, <1>3, <1>4, <1>5 DEF Holds

LEMMA CheckHolds == ASSUME ReuseInv, NEW w \in Workers, Check(w) PROVE ReuseInv'
<1> DEFINE r == work[w].pick.result
           c == work[w].pick.call
           fine == results[r].version = work[w].pick.version /\ Corresponds(c, r) /\ Outputs[r] \in has
<1>1. work[w] \in Work /\ work[w].pc = "check" /\ SessionSound(has, results, work[w])
  BY Typing DEF ReuseInv, Check
<1>2. work[w].pick \in Candidates /\ r \in ResultIds /\ results[r].version \in Nat
  <2>1. work[w].pick \in Candidates /\ r \in ResultIds
    BY <1>1 DEF SessionSound, Reading, ResultIds
  <2> QED
    BY <2>1, Typing DEF Results, ReuseInv
<1>3. CASE fine
  <2> DEFINE a == [support |-> Support(r), whole |-> Supported(r)]
             t == [work[w] EXCEPT !.pc = "commit", !.about = a]
  <2>1. a \in Checks /\ a.support = Support(r) /\ a.whole = Supported(r)
    <3>1. Support(r) \in SUBSET Comparisons
      BY <1>2, SupportAnswers
    <3>2. Supported(r) \in BOOLEAN
      BY DEF Supported
    <3> QED
      BY <3>1, <3>2 DEF Checks
  <2> HIDE DEF a
  <2>2. /\ t \in Work /\ t.pc = "commit" /\ t.about = a /\ t.pick = work[w].pick
        /\ t.found = work[w].found /\ t.index = work[w].index
    BY <1>1, <2>1 DEF Work, PCs
  <2>3. Put(w, t) /\ UNCHANGED <<has, results, offers, links, chosen>>
    BY <1>3 DEF Check, a
  <2> HIDE DEF t
  <2>4. Reading(results, t)
    BY <1>1, <1>2, <2>1, <2>2 DEF SessionSound, Reading, ResultIds
  <2>5. Holds(has, results, c, r, results[r].evidence, Support(r), Supported(r))
    BY <1>2, <1>3, CheckedHolds
  <2>6. t.pick.version <= results[t.pick.result].version
    BY <1>2, <1>3, <2>2
  <2>7. Committable(has, results, t)
    BY <2>1, <2>2, <2>5, <2>6 DEF Committable
  <2>8. SessionSound(has, results, t)
    BY <2>2, <2>4, <2>7 DEF SessionSound, Recordable
  <2> QED
    BY <2>2, <2>3, <2>8, ReadFrame
<1>4. CASE ~ fine
  <2> DEFINE t == [work[w] EXCEPT !.pc = "consider", !.pick = <<>>]
  <2>1. t \in Work /\ t.pc = "consider" /\ t.found = work[w].found /\ t.index = work[w].index
    BY <1>1 DEF Work, PCs
  <2>2. Put(w, t) /\ UNCHANGED <<has, results, offers, links, chosen>>
    BY <1>4 DEF Check
  <2> HIDE DEF t
  <2>3. SessionSound(has, results, t)
    BY <1>1, <2>1 DEF SessionSound, Reading, Committable, Recordable
  <2> QED
    BY <2>1, <2>2, <2>3, ReadFrame
<1> QED
  BY <1>3, <1>4

-----------------------------------------------------------------------------
(* The steps that write.                                                   *)

LEMMA AssociateHolds == ASSUME ReuseInv, NEW w \in Workers, Associate(w) PROVE ReuseInv'
<1> DEFINE c == work[w].pick.call
           r == work[w].pick.result
           new == [result |-> r, reuse |-> TRUE, support |-> work[w].about.support, whole |-> work[w].about.whole,
                   seen |-> results[r].evidence, there |-> TRUE]
           fine == c \notin DOMAIN chosen /\ Current(r, work[w].pick.version)
           same == c \in DOMAIN chosen /\ chosen[c].result = r
           t == [work[w] EXCEPT !.pc = "consider", !.pick = <<>>, !.about = <<>>,
                               !.chose = IF fine \/ same THEN work[w].chose \cup {c} ELSE work[w].chose]
<1>1. work[w] \in Work /\ work[w].pc = "commit" /\ SessionSound(has, results, work[w])
  BY Typing DEF ReuseInv, Associate
<1>2. /\ work[w].pick \in Candidates /\ r \in ResultIds /\ work[w].about \in Checks
      /\ c \in Calls /\ r \in Nat /\ results[r] \in Results
  <2>1. work[w].pick \in Candidates /\ r \in ResultIds /\ work[w].about \in Checks
    BY <1>1 DEF SessionSound, Reading, ResultIds
  <2> QED
    BY <2>1, Typing DEF Candidates, ReuseInv
<1>3. new \in SelectionRecords /\ new.result = r /\ new.reuse /\ new.there
      /\ new.support = work[w].about.support /\ new.whole = work[w].about.whole /\ new.seen = results[r].evidence
  BY <1>2 DEF SelectionRecords, Checks, Results
<1>4. ASSUME fine PROVE ChoiceSound(has, results, c, new)
  <2>1. work[w].pick.version = results[r].version
    BY <1>4 DEF Current
  <2>2. Holds(has, results, c, r, results[r].evidence, work[w].about.support, work[w].about.whole)
    BY <1>1, <2>1 DEF SessionSound, Committable
  <2>3. Adequate(results[r].request, results[r].evidence)
        /\ Meaning(Fold(results[r].request, results[r].evidence)) = Meaning(Request[c])
    BY <2>2 DEF Holds
  <2> HIDE DEF new, c, r
  <2> QED
    BY <1>2, <1>3, <2>2, <2>3 DEF ChoiceSound, ResultIds
<1>5. /\ chosen' = IF fine THEN [x \in DOMAIN chosen \cup {c} |-> IF x = c THEN new ELSE chosen[x]] ELSE chosen
      /\ Put(w, t) /\ UNCHANGED <<has, results, offers, links>>
  BY DEF Associate
<1> HIDE DEF new, fine
<1>6. t \in Work /\ t.pc = "consider" /\ t.found = work[w].found /\ t.index = work[w].index
  BY <1>1, <1>2 DEF Work, PCs
<1> HIDE DEF t, c, r
<1>7. SessionSound(has, results, t)
  BY <1>1, <1>6 DEF SessionSound, Reading, Committable, Recordable
<1>8. DOMAIN chosen' \in SUBSET Calls /\ chosen' \in [DOMAIN chosen' -> SelectionRecords]
  BY <1>2, <1>3, <1>5 DEF ReuseInv, ReuseTypeOK
<1>9. ReuseTypeOK'
  BY <1>5, <1>6, <1>8 DEF ReuseInv, ReuseTypeOK, Put
<1>10. \A x \in DOMAIN chosen' : \/ x \in DOMAIN chosen /\ chosen'[x] = chosen[x]
                               \/ ChoiceSound(has', results', x, chosen'[x])
  BY <1>4, <1>5 DEF ReuseInv, fine
<1>11. Grows(has, results, has', results') /\ links \subseteq links' /\ has' = has /\ results' = results
  BY <1>5, GrowsNot DEF ReuseInv
<1>12. work' = [work EXCEPT ![w] = t]
  BY <1>5 DEF Put
<1>13. \A x \in DOMAIN results' : x \in DOMAIN results /\ results'[x] = results[x]
  BY <1>11
<1>14. SessionSound(has', results', t)
  BY <1>7, <1>11
<1> QED
  BY <1>9, <1>10, <1>11, <1>12, <1>13, <1>14, Frame

LEMMA WriteHolds ==
    ASSUME ReuseInv, NEW w \in Workers, NEW t \in Work, Put(w, t), NEW r \in ResultIds,
           NEW added \in SUBSET Evidences, IsFiniteSet(added), NEW ev \in SUBSET Evidences,
           ~ Conflicting(results[r].evidence \cup added),
           Write(r, added, ev), UNCHANGED <<has, chosen>>, SessionSound(has', results', t)
    PROVE  ReuseInv'
<1> DEFINE x == results[r]
           D == Fold(x.request, ev).deps
           y == [x EXCEPT !.evidence = x.evidence \cup added,
                          !.version = x.version + Cardinality(added \ x.evidence),
                          !.comparisons = x.comparisons \cup Snapshot(r, ev)]
<1>1. x \in Results /\ r \in 1 .. Len(results) /\ Len(results) \in Nat
  BY Typing DEF ReuseInv
<1>2. D \in Dependencies
  BY <1>1, FoldType DEF Results
<1>3. Snapshot(r, ev) \in SUBSET Comparisons /\ \A c \in Snapshot(r, ev) : c.deps = D
  <2>1. Snapshot(r, ev) = {[deps |-> D, ids |-> ev, there |-> TRUE] : m \in AssessResult(r, ev)}
    BY DEF Snapshot
  <2> HIDE DEF D
  <2>2. [deps |-> D, ids |-> ev, there |-> TRUE] \in Comparisons
    BY <1>2 DEF Comparisons
  <2>3. [deps |-> D, ids |-> ev, there |-> TRUE].deps = D
    OBVIOUS
  <2> SUFFICES ASSUME NEW c \in Snapshot(r, ev) PROVE c \in Comparisons /\ c.deps = D
    OBVIOUS
  <2>4. c = [deps |-> D, ids |-> ev, there |-> TRUE]
    BY <2>1
  <2> QED
    BY <2>2, <2>3, <2>4
<1>4. IsFiniteSet(x.evidence) /\ x.version = Cardinality(x.evidence) /\ x.version \in Nat
  BY <1>1 DEF ReuseInv, ResultSound, Results
<1>5. /\ Cardinality(added \ x.evidence) \in Nat
      /\ Cardinality(x.evidence \cup added) = x.version + Cardinality(added \ x.evidence)
      /\ IsFiniteSet(x.evidence \cup added)
      /\ Cardinality(added \ x.evidence) = 0 => x.evidence \cup added = x.evidence
  <2> DEFINE E == x.evidence
             N == added \ E
  <2>1. IsFiniteSet(E) /\ Cardinality(E) = x.version
    BY <1>4
  <2>2. IsFiniteSet(N) /\ Cardinality(N) \in Nat
    BY FS_Difference, FS_CardinalityType
  <2>3. E \cap N = {} /\ E \cup N = E \cup added
    OBVIOUS
  <2>4. N = {} => E \cup added = E
    OBVIOUS
  <2> HIDE DEF E, N, x
  <2>5. Cardinality({}) = 0 /\ (Cardinality(N) = 0 => N = {})
    BY <2>2, FS_EmptySet
  <2>6. IsFiniteSet(E \cup N) /\ Cardinality(E \cup N) = Cardinality(E) + Cardinality(N) - Cardinality(E \cap N)
    BY <2>1, <2>2, FS_Union
  <2>7. Cardinality(E \cup N) = x.version + Cardinality(N)
    BY <1>4, <2>1, <2>2, <2>3, <2>5, <2>6
  <2> QED
    BY <2>2, <2>3, <2>4, <2>5, <2>6, <2>7 DEF E, N
<1>6. /\ results' = [results EXCEPT ![r] = y]
      /\ offers' = offers \cup Digest(r, ev) /\ links' = links \cup DependencyLinks(r, ev)
  BY DEF Write
<1>7. /\ y \in Results /\ y.request = x.request /\ y.evidence = x.evidence \cup added
      /\ y.version = x.version + Cardinality(added \ x.evidence)
      /\ y.comparisons = x.comparisons \cup Snapshot(r, ev)
  <2> DEFINE E == x.evidence \cup added
             V == x.version + Cardinality(added \ x.evidence)
             C == x.comparisons \cup Snapshot(r, ev)
  <2>1. E \in SUBSET Evidences /\ V \in Nat /\ C \in SUBSET Comparisons
    BY <1>1, <1>3, <1>4, <1>5 DEF Results
  <2>2. y = [x EXCEPT !.evidence = E, !.version = V, !.comparisons = C]
    OBVIOUS
  <2> HIDE DEF E, V, C, x, y
  <2>3. y \in Results /\ y.request = x.request /\ y.evidence = E /\ y.version = V /\ y.comparisons = C
    BY <1>1, <2>1, <2>2 DEF Results
  <2> QED
    BY <2>3 DEF E, V, C
<1>8. \A l \in DOMAIN D : <<r, D[l]>> \in links'
  BY <1>6 DEF DependencyLinks
<1>9. Digest(r, ev) \in SUBSET (Meanings \X Nat)
  <2>1. AssessResult(r, ev) \in SUBSET Meanings
    BY <1>1, AssessType DEF AssessResult, Results
  <2> QED
    BY <1>1, <2>1 DEF Digest
<1>10. DependencyLinks(r, ev) \in SUBSET (Nat \X Inputs)
  <2>1. \A l \in DOMAIN D : D[l] \in Inputs
    BY <1>2 DEF Dependencies
  <2> HIDE DEF D
  <2>2. DependencyLinks(r, ev) = {<<r, D[l]>> : l \in DOMAIN D}
    BY DEF DependencyLinks, D
  <2> QED
    BY <1>1, <2>1, <2>2
<1>11. ResultSound(links', r, y)
  <2>1. ASSUME NEW c \in y.comparisons, NEW l \in DOMAIN c.deps PROVE <<r, c.deps[l]>> \in links'
    <3>1. CASE c \in Snapshot(r, ev)
      BY <1>3, <1>8, <2>1, <3>1
    <3>2. CASE c \in x.comparisons
      <4>1. <<r, c.deps[l]>> \in links
        BY <2>1, <3>2 DEF ReuseInv, ResultSound
      <4> QED
        BY <1>6, <4>1
    <3> QED
      BY <1>7, <3>1, <3>2
  <2>2. IsFiniteSet(y.evidence) /\ ~ Conflicting(y.evidence) /\ y.version = Cardinality(y.evidence)
    BY <1>5, <1>7
  <2> QED
    BY <2>1, <2>2 DEF ResultSound
<1>12. ResultGrows(x, y)
  <2> HIDE DEF x, y
  <2> QED
    BY <1>4, <1>5, <1>7 DEF ResultGrows
<1> HIDE DEF y, D
<1>13. /\ results' \in Seq(Results) /\ DOMAIN results' = DOMAIN results
       /\ \A q \in DOMAIN results : results'[q] = IF q = r THEN y ELSE results[q]
  <2>1. results \in Seq(Results)
    BY DEF ReuseInv, ReuseTypeOK
  <2> QED
    BY <1>1, <1>6, <1>7, <2>1, ExceptSeq, LenProperties
<1>14. ReuseTypeOK'
  BY <1>6, <1>9, <1>10, <1>13 DEF ReuseInv, ReuseTypeOK, Put
<1>15. Grows(has, results, has', results')
  <2>1. Grows(has, results, has, results)
    BY GrowsNot DEF ReuseInv
  <2> QED
    BY <1>7, <1>12, <1>13, <2>1 DEF Grows
<1>16. \A q \in DOMAIN results' : \/ q \in DOMAIN results /\ results'[q] = results[q]
                               \/ ResultSound(links', q, results'[q])
  BY <1>11, <1>13
<1>17. /\ \A c \in DOMAIN chosen' : c \in DOMAIN chosen /\ chosen'[c] = chosen[c]
       /\ links \subseteq links' /\ work' = [work EXCEPT ![w] = t]
  BY <1>6 DEF Put
<1> QED
  BY <1>14, <1>15, <1>16, <1>17, Frame

LEMMA IndexHolds == ASSUME ReuseInv, NEW w \in Workers, Index(w) PROVE ReuseInv'
<1> DEFINE r == Head(work[w].index)
<1>1. work[w] \in Work /\ SessionSound(has, results, work[w])
  BY Typing DEF ReuseInv
<1>2. Idle \in Work /\ \A h, rs : SessionSound(h, rs, Idle)
  BY IdleType, Resting
<1>3. work[w].index \in Seq(Nat)
  BY <1>1 DEF Work
<1>4. work[w].index # <<>> => /\ r \in ResultIds /\ results[r] \in Results
                             /\ Tail(work[w].index) \in Seq(Nat)
                             /\ \A i \in DOMAIN Tail(work[w].index) : Tail(work[w].index)[i] \in ResultIds
  <2> SUFFICES ASSUME work[w].index # <<>>
               PROVE  /\ r \in ResultIds /\ Tail(work[w].index) \in Seq(Nat)
                      /\ \A i \in DOMAIN Tail(work[w].index) : Tail(work[w].index)[i] \in ResultIds
    BY Typing DEF ReuseInv
  <2>1. \A i \in DOMAIN work[w].index : work[w].index[i] \in ResultIds
    BY <1>1 DEF SessionSound, Reading, ResultIds
  <2>2. Len(work[w].index) \in Nat \ {0} /\ DOMAIN work[w].index = 1 .. Len(work[w].index)
    BY <1>3, EmptySeq, LenProperties
  <2>3. r = work[w].index[1]
    OBVIOUS
  <2>4. /\ Tail(work[w].index) \in Seq(Nat) /\ Len(Tail(work[w].index)) = Len(work[w].index) - 1
        /\ \A i \in 1 .. Len(Tail(work[w].index)) : Tail(work[w].index)[i] = work[w].index[i + 1]
    BY <1>3, HeadTailProperties
  <2>5. DOMAIN Tail(work[w].index) = 1 .. Len(Tail(work[w].index))
    BY <2>4, LenProperties
  <2>6. ASSUME NEW i \in DOMAIN Tail(work[w].index) PROVE Tail(work[w].index)[i] \in ResultIds
    <3>1. i + 1 \in DOMAIN work[w].index /\ Tail(work[w].index)[i] = work[w].index[i + 1]
      BY <2>2, <2>4, <2>5
    <3> QED
      BY <2>1, <3>1
  <2>7. 1 \in DOMAIN work[w].index
    BY <2>2
  <2> QED
    BY <2>1, <2>3, <2>4, <2>6, <2>7
<1>5. ASSUME work[w].pc = "index", work[w].index = <<>>, Put(w, Idle), UNCHANGED <<results, offers, links>>,
             UNCHANGED <<has, chosen>>
      PROVE  ReuseInv'
  BY <1>2, <1>5, ReadFrame
<1>6. ASSUME work[w].pc = "index", work[w].index # <<>>,
             Put(w, [work[w] EXCEPT !.pc = "assessed",
                       !.about = [version |-> results[r].version, evidence |-> results[r].evidence]]),
             UNCHANGED <<results, offers, links>>, UNCHANGED <<has, chosen>>
      PROVE  ReuseInv'
  <2> DEFINE a == [version |-> results[r].version, evidence |-> results[r].evidence]
             t == [work[w] EXCEPT !.pc = "assessed", !.about = a]
  <2>1. a \in Readings
    BY <1>4, <1>6 DEF Results, Readings
  <2> HIDE DEF a
  <2>2. /\ t \in Work /\ t.pc = "assessed" /\ t.about = a /\ t.found = work[w].found
        /\ t.index = work[w].index
    BY <1>1, <2>1 DEF Work, PCs
  <2>3. Put(w, t) /\ UNCHANGED <<has, results, offers, links, chosen>>
    BY <1>6 DEF a
  <2> HIDE DEF t
  <2>4. SessionSound(has, results, t)
    BY <1>1, <1>6, <2>1, <2>2 DEF SessionSound, Reading, Committable, Recordable
  <2> QED
    BY <2>2, <2>3, <2>4, ReadFrame
<1>7. ASSUME work[w].pc = "assessed", Current(r, work[w].about.version), Write(r, {}, work[w].about.evidence),
             Put(w, [work[w] EXCEPT !.pc = "index", !.index = Tail(@), !.about = <<>>]), UNCHANGED <<has, chosen>>
      PROVE  ReuseInv'
  <2> DEFINE t == [work[w] EXCEPT !.pc = "index", !.index = Tail(work[w].index), !.about = <<>>]
  <2>1. work[w].index # <<>> /\ work[w].about \in Readings
    BY <1>1, <1>7 DEF SessionSound, Reading
  <2>2. work[w].about.evidence \in SUBSET Evidences
    BY <2>1 DEF Readings
  <2>3. /\ t \in Work /\ t.pc = "index" /\ t.found = work[w].found
        /\ t.index = Tail(work[w].index)
    BY <1>1, <1>4, <2>1 DEF Work, PCs
  <2>4. Put(w, t)
    BY <1>7
  <2> HIDE DEF t
  <2>5. DOMAIN results' = DOMAIN results
    BY <1>7 DEF Write
  <2>6. SessionSound(has', results', t)
    BY <1>1, <1>4, <2>1, <2>3, <2>5 DEF SessionSound, Reading, Committable, Recordable, ResultIds
  <2>7. ~ Conflicting(results[r].evidence \cup {})
    <3>1. ~ Conflicting(results[r].evidence) /\ results[r].evidence \cup {} = results[r].evidence
      BY <1>4, <2>1 DEF ReuseInv, ResultSound
    <3> QED
      BY <3>1
  <2>8. r \in ResultIds /\ IsFiniteSet({}) /\ {} \in SUBSET Evidences
    BY <1>4, <2>1, FS_EmptySet
  <2> HIDE DEF r
  <2> QED
    BY <1>7, <2>2, <2>3, <2>4, <2>6, <2>7, <2>8, WriteHolds
<1>8. ASSUME work[w].pc = "assessed", Put(w, Idle), UNCHANGED <<results, offers, links>>, UNCHANGED <<has, chosen>>
      PROVE  ReuseInv'
  BY <1>2, <1>8, ReadFrame
<1> QED
  BY <1>5, <1>6, <1>7, <1>8 DEF Index

LEMMA RecordHolds == ASSUME ReuseInv, NEW w \in Workers, RecordEvidence(w) PROVE ReuseInv'
<1> DEFINE a == work[w].about
<1>1. work[w].pc = "record" /\ SessionSound(has, results, work[w]) /\ Put(w, Idle) /\ UNCHANGED <<has, chosen>>
  BY DEF ReuseInv, RecordEvidence
<1>2. a \in Recordings /\ a.result \in ResultIds
  BY <1>1 DEF SessionSound, Reading, ResultIds
<1>3. Idle \in Work /\ \A h, rs : SessionSound(h, rs, Idle)
  BY IdleType, Resting
<1>4. CASE Current(a.result, a.version)
  <2>1. ~ Conflicting(results[a.result].evidence \cup {a.added})
    BY <1>1, <1>4 DEF SessionSound, Recordable, Current
  <2>2. {a.added} \in SUBSET Evidences /\ IsFiniteSet({a.added}) /\ a.evidence \in SUBSET Evidences
    BY <1>2, FS_Singleton DEF Recordings
  <2>3. Write(a.result, {a.added}, a.evidence)
    BY <1>4 DEF RecordEvidence
  <2>4. SessionSound(has', results', Idle)
    BY <1>3
  <2> HIDE DEF a
  <2> QED
    BY <1>1, <1>2, <1>3, <2>1, <2>2, <2>3, <2>4, WriteHolds
<1>5. CASE ~ Current(a.result, a.version)
  <2>1. UNCHANGED <<results, offers, links>>
    BY <1>5 DEF RecordEvidence
  <2> QED
    BY <1>1, <1>3, <2>1, ReadFrame
<1> QED
  BY <1>4, <1>5

LEMMA FlushHolds == ASSUME ReuseInv, NEW w \in Workers, Flush(w) PROVE ReuseInv'
<1> DEFINE p == work[w].pending
           ready == Range(p)
           made == [i \in DOMAIN p |-> Result(p[i], {})]
           id(c) == Len(results) + CHOOSE i \in DOMAIN p : p[i] = c
           new(c) == [result |-> id(c), reuse |-> FALSE, support |-> {}, whole |-> FALSE, seen |-> {}, there |-> TRUE]
           index == [i \in DOMAIN p |-> Len(results) + i]
           t == [Idle EXCEPT !.pc = "index", !.index = index]
<1>1. work[w] \in Work /\ Len(results) \in Nat /\ ResultIds = 1 .. Len(results) /\ results \in Seq(Results)
  BY Typing DEF ReuseInv, ReuseTypeOK
<1>2. Idle \in Work /\ \A h, rs : SessionSound(h, rs, Idle)
  BY IdleType, Resting
<1>3. CASE ready \cap DOMAIN chosen # {}
  <2>1. Put(w, Idle) /\ UNCHANGED <<has, results, offers, links, chosen>>
    BY <1>3 DEF Flush
  <2> QED
    BY <1>2, <2>1, ReadFrame
<1>4. CASE ready \cap DOMAIN chosen = {}
  <2>1. /\ Len(results) + Len(p) <= Len(Outputs)
        /\ results' = results \o made
        /\ has' = has \cup {Outputs[id(c)] : c \in ready}
        /\ chosen' = [c \in DOMAIN chosen \cup ready |-> IF c \in ready THEN new(c) ELSE chosen[c]]
        /\ Put(w, t) /\ UNCHANGED <<offers, links>>
    BY <1>4 DEF Flush
  <2>2. p \in Seq(Calls) /\ Len(p) \in Nat /\ DOMAIN p = 1 .. Len(p) /\ \A i \in 1 .. Len(p) : p[i] \in Calls
    <3>1. p \in Seq(Calls)
      BY <1>1 DEF Work
    <3> QED
      BY <3>1, LenProperties
  <2>3. Outputs \in Seq(Inputs) /\ Len(Outputs) \in Nat /\ \A i \in 1 .. Len(Outputs) : Outputs[i] \in Inputs
    BY ReuseAssumption, LenProperties DEF ReuseAssumption
  <2>4. ready \subseteq Calls /\ \A c \in ready : id(c) \in (Len(results) + 1) .. (Len(results) + Len(p))
    <3> SUFFICES ASSUME NEW c \in ready
                 PROVE  c \in Calls /\ id(c) \in (Len(results) + 1) .. (Len(results) + Len(p))
      OBVIOUS
    <3>1. PICK j \in DOMAIN p : p[j] = c
      BY DEF Range
    <3> DEFINE k == CHOOSE i \in DOMAIN p : p[i] = c
    <3>2. k \in DOMAIN p
      BY <3>1
    <3> HIDE DEF k
    <3>3. c \in Calls
      BY <2>2, <3>1
    <3>4. Len(results) + k \in (Len(results) + 1) .. (Len(results) + Len(p))
      BY <1>1, <2>2, <3>2
    <3> QED
      BY <3>3, <3>4 DEF k
  <2>5. \A c \in Calls : Result(c, {}) \in Results /\ Result(c, {}).evidence = {} /\ Result(c, {}).version = 0
                        /\ Result(c, {}).comparisons = {}
    BY DEF Result, Results, Requests
  <2>6. made \in Seq(Results) /\ Len(made) = Len(p) /\ \A i \in 1 .. Len(p) : made[i] = Result(p[i], {})
    <3>1. made \in [1 .. Len(p) -> Results]
      BY <2>2, <2>5
    <3>2. made \in Seq(Results)
      BY <2>2, <3>1, SeqDef
    <3>3. Len(made) = Len(p)
      BY <2>2, <3>1, <3>2, LenProperties
    <3> QED
      BY <2>2, <3>2, <3>3
  <2>7. index \in Seq(Nat) /\ DOMAIN index = 1 .. Len(p) /\ \A i \in 1 .. Len(p) : index[i] = Len(results) + i
    <3>1. index \in [1 .. Len(p) -> Nat]
      BY <1>1, <2>2
    <3>2. index \in Seq(Nat)
      BY <2>2, <3>1, SeqDef
    <3> QED
      BY <2>2, <3>2
  <2> HIDE DEF made, index, id
  <2>8. /\ results' \in Seq(Results) /\ DOMAIN results' = 1 .. (Len(results) + Len(p))
        /\ \A r \in 1 .. (Len(results) + Len(p)) :
             results'[r] = IF r <= Len(results) THEN results[r] ELSE made[r - Len(results)]
    <3>1. /\ results \o made \in Seq(Results) /\ Len(results \o made) = Len(results) + Len(made)
          /\ \A r \in 1 .. Len(results) + Len(made) :
               (results \o made)[r] = IF r <= Len(results) THEN results[r] ELSE made[r - Len(results)]
      BY <1>1, <2>6, ConcatProperties
    <3>2. DOMAIN (results \o made) = 1 .. Len(results \o made)
      BY <3>1, LenProperties
    <3> QED
      BY <2>1, <2>6, <3>1, <3>2
  <2>9. \A r \in DOMAIN results' : \/ r \in DOMAIN results /\ results'[r] = results[r]
                                 \/ ResultSound(links', r, results'[r])
    <3> SUFFICES ASSUME NEW r \in DOMAIN results', r \notin DOMAIN results
                 PROVE  ResultSound(links', r, results'[r])
      BY <1>1, <2>8 DEF ResultIds
    <3>1. r - Len(results) \in 1 .. Len(p) /\ ~ (r <= Len(results)) /\ r \in 1 .. (Len(results) + Len(p))
      BY <1>1, <2>2, <2>8 DEF ResultIds
    <3> DEFINE c == p[r - Len(results)]
    <3>2. c \in Calls /\ results'[r] = Result(c, {})
      BY <2>2, <2>6, <2>8, <3>1
    <3>3. results'[r].evidence = {} /\ results'[r].version = 0 /\ results'[r].comparisons = {}
      BY <2>5, <3>2
    <3>4. IsFiniteSet({}) /\ Cardinality({}) = 0 /\ ~ Conflicting({})
      BY FS_EmptySet, FoldNothing
    <3> QED
      BY <3>3, <3>4 DEF ResultSound
  <2>10. Grows(has, results, has', results')
    <3>1. Grows(has, results, has, results)
      BY GrowsNot DEF ReuseInv
    <3>2. has \subseteq has' /\ DOMAIN results = 1 .. Len(results)
      BY <1>1, <2>1 DEF ResultIds
    <3>3. \A r \in DOMAIN results : r \in DOMAIN results' /\ results'[r] = results[r]
      BY <1>1, <2>2, <2>8, <3>2
    <3> QED
      BY <3>1, <3>2, <3>3 DEF Grows
  <2>11. /\ t \in Work /\ t.pc = "index" /\ t.found = {} /\ t.index = index
    BY <2>7, IdleType DEF Work, PCs
  <2> HIDE DEF t
  <2>12. SessionSound(has', results', t)
    <3>1. \A i \in DOMAIN index : index[i] \in DOMAIN results'
      BY <1>1, <2>2, <2>7, <2>8
    <3> QED
      BY <2>11, <3>1 DEF SessionSound, Reading, Committable, Recordable
  <2>13. \A c \in ready : new(c) \in SelectionRecords /\ ChoiceSound(has', results', c, new(c))
    <3> SUFFICES ASSUME NEW c \in ready
                 PROVE  new(c) \in SelectionRecords /\ ChoiceSound(has', results', c, new(c))
      OBVIOUS
    <3>1. id(c) \in Nat /\ id(c) \in DOMAIN results'
      BY <1>1, <2>2, <2>4, <2>8
    <3>2. new(c).result = id(c) /\ new(c).reuse = FALSE
      OBVIOUS
    <3> QED
      BY <3>1, <3>2 DEF SelectionRecords, ChoiceSound
  <2>14. DOMAIN chosen' \in SUBSET Calls /\ chosen' \in [DOMAIN chosen' -> SelectionRecords]
    <3>1. DOMAIN chosen' = DOMAIN chosen \cup ready /\ DOMAIN chosen \subseteq Calls
          /\ \A c \in DOMAIN chosen : chosen[c] \in SelectionRecords
      BY <2>1, Typing DEF ReuseInv, ReuseTypeOK
    <3> HIDE DEF new, ready
    <3> QED
      BY <2>1, <2>4, <2>13, <3>1
  <2>15. has' \in SUBSET Inputs
    <3>1. \A c \in ready : Outputs[id(c)] \in Inputs
      BY <1>1, <2>1, <2>2, <2>3, <2>4
    <3> QED
      BY <2>1, <3>1 DEF ReuseInv, ReuseTypeOK
  <2>16. work' = [work EXCEPT ![w] = t]
    BY <2>1 DEF Put
  <2>17. ReuseTypeOK'
    <3>1. work' \in [Workers -> Work] /\ offers' \in SUBSET (Meanings \X Nat) /\ links' \in SUBSET (Nat \X Inputs)
      BY <2>1, <2>11, <2>16 DEF ReuseInv, ReuseTypeOK
    <3> QED
      BY <2>8, <2>14, <2>15, <3>1 DEF ReuseTypeOK
  <2>18. \A c \in DOMAIN chosen' : \/ c \in DOMAIN chosen /\ chosen'[c] = chosen[c]
                                 \/ ChoiceSound(has', results', c, chosen'[c])
    <3> HIDE DEF new, ready
    <3> QED
      BY <2>1, <2>13
  <2>19. links \subseteq links'
    BY <2>1
  <2> QED
    BY <2>9, <2>10, <2>12, <2>16, <2>17, <2>18, <2>19, Frame
<1> QED
  BY <1>3, <1>4

-----------------------------------------------------------------------------
(* Removals.                                                               *)

LEMMA RemovalFrame ==
    ASSUME ReuseInv, Alone, ReuseTypeOK', work' = work, DOMAIN results' = DOMAIN results,
           \A c \in DOMAIN chosen' : ChoiceSound(has', results', c, chosen'[c]),
           \A r \in DOMAIN results' : ResultSound(links', r, results'[r])
    PROVE  ReuseInv'
<1>1. ASSUME NEW w \in Workers PROVE SessionSound(has', results', work'[w])
  <2>1. SessionSound(has, results, work[w]) /\ work[w].pc = "closed"
    BY DEF ReuseInv, Alone
  <2> QED
    BY <2>1 DEF SessionSound, Reading, Committable, Recordable
<1> QED
  BY <1>1 DEF ReuseInv, ResultIds

LEMMA RemoveInputHolds == ASSUME ReuseInv, NEW i, RemoveInput(i) PROVE ReuseInv'
<1>1. Alone /\ has' = has \ {i} /\ UNCHANGED <<results, offers, links, chosen, work>>
  BY DEF RemoveInput
<1>2. ReuseTypeOK'
  BY <1>1 DEF ReuseInv, ReuseTypeOK
<1>3. ASSUME NEW c \in DOMAIN chosen PROVE ChoiceSound(has \ {i}, results, c, chosen[c])
  <2>1. ChoiceSound(has, results, c, chosen[c])
    BY DEF ReuseInv
  <2>2. ASSUME chosen[c].reuse, chosen[c].there
        PROVE  Holds(has \ {i}, results, c, chosen[c].result, chosen[c].seen, chosen[c].support, chosen[c].whole)
    <3>1. i \notin Range(Request[c].deps) /\ i # Outputs[chosen[c].result]
      BY <2>2 DEF RemoveInput, Selected, Required
    <3>2. Holds(has, results, c, chosen[c].result, chosen[c].seen, chosen[c].support, chosen[c].whole)
      BY <2>1, <2>2 DEF ChoiceSound
    <3> QED
      BY <3>1, <3>2 DEF Holds
  <2> QED
    BY <2>1, <2>2 DEF ChoiceSound
<1>4. \A r \in DOMAIN results : ResultSound(links, r, results[r])
  BY DEF ReuseInv, ResultIds
<1> QED
  BY <1>1, <1>2, <1>3, <1>4, RemovalFrame

LEMMA RemoveSelectionHolds == ASSUME ReuseInv, NEW c \in Calls, RemoveSelection(c) PROVE ReuseInv'
<1>1. /\ Alone /\ c \in DOMAIN chosen /\ chosen' = [chosen EXCEPT ![c].there = FALSE]
      /\ UNCHANGED <<has, results, offers, links, work>>
  BY DEF RemoveSelection, Selected
<1>2. chosen[c] \in SelectionRecords /\ \A x \in DOMAIN chosen : chosen[x] \in SelectionRecords
  BY <1>1, Typing DEF ReuseInv
<1> DEFINE y == [chosen[c] EXCEPT !.there = FALSE]
<1>3. /\ y \in SelectionRecords /\ y.there = FALSE /\ y.result = chosen[c].result /\ y.reuse = chosen[c].reuse
      /\ y.seen = chosen[c].seen
  BY <1>2 DEF SelectionRecords
<1> HIDE DEF y
<1>4. /\ DOMAIN chosen' = DOMAIN chosen /\ \A x \in DOMAIN chosen : chosen'[x] = IF x = c THEN y ELSE chosen[x]
      /\ chosen' \in [DOMAIN chosen' -> SelectionRecords]
  BY <1>1, <1>2, <1>3 DEF y, ReuseInv, ReuseTypeOK
<1>5. ReuseTypeOK'
  BY <1>1, <1>4 DEF ReuseInv, ReuseTypeOK
<1>6. ASSUME NEW x \in DOMAIN chosen' PROVE ChoiceSound(has', results', x, chosen'[x])
  <2>1. ChoiceSound(has, results, x, chosen[x])
    BY <1>4 DEF ReuseInv
  <2>2. CASE x = c
    BY <1>1, <1>3, <1>4, <2>1, <2>2 DEF ChoiceSound
  <2>3. CASE x # c
    BY <1>1, <1>4, <2>1, <2>3
  <2> QED
    BY <2>2, <2>3
<1>7. \A r \in DOMAIN results : ResultSound(links, r, results[r])
  BY DEF ReuseInv, ResultIds
<1> QED
  BY <1>1, <1>5, <1>6, <1>7, RemovalFrame

LEMMA RemoveResultHolds == ASSUME ReuseInv, NEW r \in ResultIds, RemoveResult(r) PROVE ReuseInv'
<1>1. Alone /\ results' = [results EXCEPT ![r].there = FALSE] /\ UNCHANGED <<has, offers, links, chosen, work>>
  BY DEF RemoveResult
<1> DEFINE x == results[r]
           y == [x EXCEPT !.there = FALSE]
<1>2. x \in Results /\ r \in 1 .. Len(results) /\ results \in Seq(Results)
  BY Typing DEF ReuseInv, ReuseTypeOK
<1>3. /\ y \in Results /\ y.request = x.request /\ y.evidence = x.evidence /\ y.version = x.version
      /\ y.comparisons = x.comparisons /\ x.version \in Nat
  BY <1>2 DEF Results
<1>4. ResultGrows(x, y)
  BY <1>3 DEF ResultGrows
<1>5. results' = [results EXCEPT ![r] = y]
  BY <1>1
<1>6. ResultSound(links, r, y)
  <2>1. ResultSound(links, r, x)
    BY DEF ReuseInv
  <2> HIDE DEF x, y
  <2> QED
    BY <1>3, <2>1 DEF ResultSound
<1> HIDE DEF y
<1>7. /\ results' \in Seq(Results) /\ DOMAIN results' = DOMAIN results
      /\ \A q \in DOMAIN results : results'[q] = IF q = r THEN y ELSE results[q]
  BY <1>2, <1>3, <1>5, ExceptSeq, LenProperties
<1>8. ReuseTypeOK'
  BY <1>1, <1>7 DEF ReuseInv, ReuseTypeOK
<1>9. Grows(has, results, has', results')
  <2>1. Grows(has, results, has, results)
    BY GrowsNot DEF ReuseInv
  <2> QED
    BY <1>1, <1>3, <1>4, <1>7, <2>1 DEF Grows
<1>10. \A c \in DOMAIN chosen' : ChoiceSound(has', results', c, chosen'[c])
  BY <1>1, <1>9, ChoiceGrows DEF ReuseInv
<1>11. \A q \in DOMAIN results' : ResultSound(links', q, results'[q])
  BY <1>1, <1>6, <1>7 DEF ReuseInv, ResultIds
<1> QED
  BY <1>1, <1>7, <1>8, <1>10, <1>11, RemovalFrame

LEMMA RemoveComparisonHolds ==
    ASSUME ReuseInv, NEW r \in ResultIds, NEW c \in results[r].comparisons, RemoveComparison(r, c)
    PROVE  ReuseInv'
<1> DEFINE x == results[r]
           gone == [c EXCEPT !.there = FALSE]
           C == (x.comparisons \ {c}) \cup {gone}
           y == [x EXCEPT !.comparisons = C]
<1>1. /\ Alone /\ results' = [results EXCEPT ![r] = y] /\ UNCHANGED <<has, offers, links, chosen, work>>
      /\ \A s \in Selected : chosen[s].result = r => c \notin chosen[s].support
  BY DEF RemoveComparison
<1>2. x \in Results /\ r \in 1 .. Len(results) /\ results \in Seq(Results)
  BY Typing DEF ReuseInv, ReuseTypeOK
<1>3. c \in Comparisons
  BY <1>2 DEF Results
<1>4. gone \in Comparisons /\ gone.deps = c.deps
  BY <1>3 DEF Comparisons
<1> HIDE DEF gone
<1>5. C \in SUBSET Comparisons
  BY <1>2, <1>4 DEF Results
<1>6. ResultSound(links, r, x)
  BY DEF ReuseInv
<1>7. ASSUME NEW d \in C PROVE \A l \in DOMAIN d.deps : <<r, d.deps[l]>> \in links
  BY <1>4, <1>6, <1>7 DEF ResultSound
<1>8. \A d \in x.comparisons : d # c => d \in C
  OBVIOUS
<1> HIDE DEF C, x
<1>9. /\ y \in Results /\ y.request = x.request /\ y.evidence = x.evidence /\ y.version = x.version
      /\ y.comparisons = C
  BY <1>2, <1>5 DEF Results
<1> HIDE DEF y
<1>10. ResultSound(links, r, y)
  BY <1>6, <1>7, <1>9 DEF ResultSound
<1>11. /\ results' \in Seq(Results) /\ DOMAIN results' = DOMAIN results
       /\ \A q \in DOMAIN results : results'[q] = IF q = r THEN y ELSE results[q]
  BY <1>1, <1>2, <1>9, ExceptSeq, LenProperties
<1>12. ReuseTypeOK'
  BY <1>1, <1>11 DEF ReuseInv, ReuseTypeOK
<1>13. ASSUME NEW s \in DOMAIN chosen PROVE ChoiceSound(has, results', s, chosen[s])
  <2>1. ChoiceSound(has, results, s, chosen[s])
    BY DEF ReuseInv
  <2>2. CASE chosen[s].result # r
    BY <1>11, <2>1, <2>2 DEF ChoiceSound, Holds
  <2>3. CASE chosen[s].result = r
    <3> DEFINE f == Fold(x.request, chosen[s].seen)
    <3>1. r \in DOMAIN results' /\ results'[r] = y /\ results[r] = x /\ r \in DOMAIN results
      BY <1>11, <2>1, <2>3 DEF ChoiceSound, x
    <3>2. ASSUME chosen[s].reuse, chosen[s].there
          PROVE  Holds(has, results', s, r, chosen[s].seen, chosen[s].support, chosen[s].whole)
      <4>1. Holds(has, results, s, r, chosen[s].seen, chosen[s].support, chosen[s].whole)
        BY <2>1, <2>3, <3>2 DEF ChoiceSound
      <4>2. c \notin chosen[s].support
        BY <1>1, <2>3, <3>2 DEF Selected
      <4>3. chosen[s].support \cap Usable(x) \subseteq chosen[s].support \cap Usable(y)
        BY <1>8, <1>9, <4>2 DEF Usable
      <4>4. ASSUME chosen[s].whole, NEW l \in DOMAIN f.deps
            PROVE  Answering(chosen[s].support \cap Usable(y), l, f.deps[l]) # {}
        <5>1. Answering(chosen[s].support \cap Usable(x), l, f.deps[l]) # {}
          BY <3>1, <4>1, <4>4 DEF Holds
        <5> HIDE DEF f
        <5> QED
          BY <4>3, <5>1, AnsweringGrows
      <4> QED
        BY <1>9, <3>1, <4>1, <4>4 DEF Holds
    <3> QED
      BY <1>9, <2>1, <2>3, <3>1, <3>2 DEF ChoiceSound
  <2> QED
    BY <2>2, <2>3
<1>14. \A q \in DOMAIN results' : ResultSound(links', q, results'[q])
  BY <1>1, <1>10, <1>11 DEF ReuseInv, ResultIds
<1> QED
  BY <1>1, <1>11, <1>12, <1>13, <1>14, RemovalFrame

-----------------------------------------------------------------------------
LEMMA ReuseInitHolds == ReuseInit => ReuseInv
<1> SUFFICES ASSUME ReuseInit PROVE ReuseInv
  OBVIOUS
<1>1. /\ has = Inputs \ Range(Outputs) /\ results = <<>> /\ offers = {} /\ links = {} /\ chosen = <<>>
      /\ work = [w \in Workers |-> Closed]
  BY DEF ReuseInit
<1>2. DOMAIN results = {} /\ DOMAIN chosen = {}
  BY <1>1
<1>3. results \in Seq(Results) /\ chosen \in [DOMAIN chosen -> SelectionRecords]
  BY <1>1, <1>2
<1>4. Closed \in Work /\ SessionSound(has, results, Closed)
  BY IdleType, Resting
<1>5. ReuseTypeOK
  BY <1>1, <1>2, <1>3, <1>4 DEF ReuseTypeOK
<1>6. \A w \in Workers : SessionSound(has, results, work[w])
  BY <1>1, <1>4
<1> QED
  BY <1>2, <1>5, <1>6 DEF ReuseInv, ResultIds

LEMMA ReuseNextHolds == ReuseInv /\ [ReuseNext]_rvars => ReuseInv'
<1> SUFFICES ASSUME ReuseInv, [ReuseNext]_rvars PROVE ReuseInv'
  OBVIOUS
<1>1. ASSUME NEW w \in Workers,
             \/ OpenSession(w) \/ EndSession(w) \/ Find(w) \/ Check(w) \/ Associate(w)
             \/ Flush(w) \/ Index(w) \/ RecordEvidence(w)
      PROVE  ReuseInv'
  BY <1>1, OpenHolds, EndHolds, FindHolds, CheckHolds, AssociateHolds, FlushHolds, IndexHolds, RecordHolds
<1>2. ASSUME NEW w \in Workers, NEW g \in Groups, NEW fresh \in BOOLEAN, Look(w, g, fresh) PROVE ReuseInv'
  BY <1>2, LookHolds
<1>3. ASSUME NEW w \in Workers, NEW yes \in BOOLEAN, Consider(w, yes) \/ Produce(w, yes) PROVE ReuseInv'
  BY <1>3, ConsiderHolds, ProduceHolds
<1>4. ASSUME NEW w \in Workers, NEW r \in ResultIds, NEW e \in Evidences, Examine(w, r, e) PROVE ReuseInv'
  BY <1>4, ExamineHolds
<1>5. ASSUME NEW i \in Removable, RemoveInput(i) PROVE ReuseInv'
  BY <1>5, RemoveInputHolds
<1>6. ASSUME NEW c \in Calls, RemoveSelection(c) PROVE ReuseInv'
  BY <1>6, RemoveSelectionHolds
<1>7. ASSUME NEW r \in ResultIds, RemoveResult(r) PROVE ReuseInv'
  BY <1>7, RemoveResultHolds
<1>8. ASSUME NEW r \in ResultIds, NEW c \in results[r].comparisons, RemoveComparison(r, c) PROVE ReuseInv'
  BY <1>8, RemoveComparisonHolds
<1>9. CASE UNCHANGED rvars
  BY <1>9 DEF rvars, ReuseInv, ReuseTypeOK, ResultIds
<1> QED
  BY <1>1, <1>2, <1>3, <1>4, <1>5, <1>6, <1>7, <1>8, <1>9 DEF ReuseNext

LEMMA ReuseInvariant == ReuseSpec => []ReuseInv
  BY ReuseInitHolds, ReuseNextHolds, PTL DEF ReuseSpec

\* Every part of the state has its type.
THEOREM ReuseTyped == ReuseSpec => []ReuseTypeOK
<1>1. ReuseInv => ReuseTypeOK
  BY DEF ReuseInv
<1> QED
  BY <1>1, ReuseInvariant, PTL

\* A choice that still sees the evidence it was made under corresponds, and is read.
LEMMA StandingCorresponds ==
    ASSUME ReuseInv, NEW c \in Selected, chosen[c].reuse, chosen[c].whole,
           results[chosen[c].result].evidence = chosen[c].seen
    PROVE  Corresponds(c, chosen[c].result) /\ Outputs[chosen[c].result] \in has
<1> DEFINE r == chosen[c].result
           ev == results[r].evidence
           q == results[r].request
           U == Usable(results[r])
<1>1. Holds(has, results, c, r, ev, chosen[c].support, chosen[c].whole)
  <2>1. c \in DOMAIN chosen /\ chosen[c].there
    BY DEF Selected
  <2> QED
    BY <2>1 DEF ReuseInv, ChoiceSound
<1>2. /\ Range(Request[c].deps) \subseteq has /\ Adequate(Request[c], {})
      /\ ~ Conflicting(ev) /\ Adequate(q, ev) /\ Meaning(Fold(q, ev)) = Meaning(Request[c])
      /\ Outputs[r] \in has
  BY <1>1 DEF Holds
<1>3. \A l \in DOMAIN Fold(q, ev).deps : Answering(U, l, Fold(q, ev).deps[l]) # {}
  <2> SUFFICES ASSUME NEW l \in DOMAIN Fold(q, ev).deps PROVE Answering(U, l, Fold(q, ev).deps[l]) # {}
    OBVIOUS
  <2>1. Answering(chosen[c].support \cap U, l, Fold(q, ev).deps[l]) # {}
    BY <1>1 DEF Holds
  <2>2. chosen[c].support \cap U \subseteq U
    OBVIOUS
  <2> HIDE DEF r, ev, q, U
  <2> QED
    BY <2>1, <2>2, AnsweringGrows
<1>4. Assess(q, ev, U) = {Meaning(Request[c])}
  <2> HIDE DEF r, ev, q, U
  <2> QED
    BY <1>2, <1>3 DEF Assess
<1>5. Assess(Request[c], {}, {}) = {Meaning(Request[c])}
  <2>1. \A l \in DOMAIN Request[c].deps : Request[c].deps[l] \in has
    BY <1>2 DEF Range
  <2>2. \A l \in DOMAIN Fold(Request[c], {}).deps : Fold(Request[c], {}).deps[l] \in has
    BY <2>1, FoldNothing
  <2> QED
    BY <1>2, <2>2, FoldNothing DEF Assess
<1> QED
  BY <1>2, <1>4, <1>5 DEF Corresponds, Asked, AssessResult

\* Results are chosen under sufficient evidence, evidence stays consistent and is counted,
\* and a choice keeps its meaning while it stands.
THEOREM ReuseIsSound == ReuseSpec => []ReuseSound
<1>1. ReuseInv => ReuseSound
  <2> SUFFICES ASSUME ReuseInv PROVE ReuseSound
    OBVIOUS
  <2>1. ReuseChosen
    BY DEF ReuseInv, ChoiceSound, ReuseChosen
  <2>2. EvidenceCoherent
    BY DEF ReuseInv, ResultSound, EvidenceCoherent
  <2>3. StillCorresponds
    <3> SUFFICES ASSUME NEW c \in Selected, chosen[c].reuse, chosen[c].whole,
                        results[chosen[c].result].evidence = chosen[c].seen
                 PROVE  /\ Corresponds(c, chosen[c].result)
                        /\ results[chosen[c].result].there => SelectedOutput(c)
      BY DEF StillCorresponds
    <3>1. Corresponds(c, chosen[c].result) /\ Outputs[chosen[c].result] \in has
      BY StandingCorresponds
    <3> QED
      BY <3>1 DEF SelectedOutput, Selected
  <2> QED
    BY <2>1, <2>2, <2>3 DEF ReuseSound
<1> QED
  BY <1>1, ReuseInvariant, PTL

\* Whatever a result was found to depend on, directly or through another's output, finds it.
THEOREM AffectedIsComplete == ReuseSpec => []AffectedComplete
<1>1. ReuseInv => AffectedComplete
  <2> SUFFICES ASSUME ReuseInv, NEW r \in ResultIds, NEW c \in results[r].comparisons, NEW l \in DOMAIN c.deps
               PROVE  /\ r \in Affected({c.deps[l]})
                      /\ \A q \in ResultIds : Outputs[q] = c.deps[l] =>
                           \A d \in results[q].comparisons : \A m \in DOMAIN d.deps : r \in Affected({d.deps[m]})
    BY DEF AffectedComplete
  <2>1. \A q \in ResultIds : \A d \in results[q].comparisons : \A m \in DOMAIN d.deps : <<q, d.deps[m]>> \in links
    BY DEF ReuseInv, ResultSound
  <2>2. r \in Affected({c.deps[l]})
    BY <2>1 DEF Affected, Closes
  <2>3. ASSUME NEW q \in ResultIds, Outputs[q] = c.deps[l], NEW d \in results[q].comparisons, NEW m \in DOMAIN d.deps
        PROVE  r \in Affected({d.deps[m]})
    <3> SUFFICES ASSUME NEW S \in SUBSET ResultIds, Closes(S, {d.deps[m]}) PROVE r \in S
      BY DEF Affected
    <3>1. q \in S
      BY <2>1 DEF Closes
    <3>2. Outputs[q] \in {d.deps[m]} \cup {Outputs[x] : x \in S} /\ <<r, Outputs[q]>> \in links
      BY <2>1, <2>3, <3>1
    <3> QED
      BY <3>2 DEF Closes
  <2> QED
    BY <2>2, <2>3
<1> QED
  BY <1>1, ReuseInvariant, PTL
=============================================================================
