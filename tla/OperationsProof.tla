--------------------------- MODULE OperationsProof ---------------------------
(***************************************************************************)
(* Attempts at an operation, for every set of processes, document runs,    *)
(* batches and executions, and every limit.                                *)
(***************************************************************************)
EXTENDS Operations, FiniteSetTheorems, TLAPS

\* What the last progress entry of an execution says.
Status(e) == IF progress[e] = <<>> THEN "none" ELSE progress[e][Len(progress[e])].kind

\* Between the start unit of an attempt and its durable end.
Active == Producing \cup {"starting"}

WorkerType == [pc : PCs, req : Requests \cup {None}, exe : Executions \cup {None},
               seen : Nat, state : StateType, looked : Requests \cup {None}]

\* A worker is on an execution of the request it was given, and holds the lock of a
\* batch from its first step to its last; only document runs are suspended.
Placed(w, t) ==
    /\ t.pc # "idle" => t.req \in Requests
    /\ t.pc \notin {"idle", "fresh"} => t.exe \in Executions /\ owner[t.exe] = t.req
    /\ t.pc \in {"resuming", "claiming", "suspending"} => t.req \in Documents
    /\ t.pc # "idle" /\ t.req \in Batches => lock[t.req] = w

\* What the records of an execution say while a worker is on it: an active one is
\* the last that was started, so that a claim against any older entry fails.
Standing(t) ==
    /\ t.pc = "starting" => Status(t.exe) = "none"
    /\ t.pc \in Producing => Status(t.exe) = "started"
    /\ t.pc \in Active => ~Journaled(t.exe)
    /\ t.pc \in Active \ {"failed", "staged"} => result[t.exe] = "none"
    /\ t.pc = "staged" => result[t.exe] = "success"
    /\ t.pc = "claiming" => /\ t.seen \in 1 .. Len(progress[t.exe])
                            /\ progress[t.exe][t.seen] = Entry("checkpoint", t.state)
    /\ t.pc = "journaled" => Journaled(t.exe)
    /\ t.pc = "published" => t.exe \in retained

\* While a worker runs a batch none of its attempts is journaled.
Unpublished(t) ==
    t.pc \in Active \cup {"fresh"} /\ t.req \in Batches =>
        \A e \in Executions : owner[e] = t.req => ~Journaled(e)

\* The counter that a worker carries is all of the work done for its document run.
Carried(t) ==
    /\ t.pc = "fresh" => t.state.work = 0
    /\ t.pc \in {"starting", "performing", "suspending"} /\ t.req \in Documents =>
         t.state.work = spent[t.req]

WorkersInv ==
    \A w \in Workers :
        Placed(w, worker[w]) /\ Standing(worker[w]) /\ Unpublished(worker[w]) /\ Carried(worker[w])

\* One worker at most is active on an execution.
OneActive ==
    \A v, w \in Workers :
        v # w /\ worker[v].pc \in Active /\ worker[w].pc \in Active => worker[v].exe # worker[w].exe

\* The start unit of a document run names its one execution, and an execution that no
\* start unit has committed has no history.
Controlled ==
    /\ \A e \in Executions : owner[e] \in Documents => start[owner[e]] = e
    /\ \A e \in Executions : owner[e] = None => Status(e) = "none" /\ ~Journaled(e) /\ result[e] = "none"
    /\ \A r \in Documents : start[r] = None => spent[r] = 0

\* A suspended attempt has no result yet and its checkpoint counts all of the work; a
\* journaled one has a success, and a batch one such attempt at most.
Recorded ==
    /\ \A e \in Executions : Status(e) = "checkpoint" =>
         /\ result[e] = "none"
         /\ owner[e] \in Documents => progress[e][Len(progress[e])].state.work = spent[owner[e]]
    /\ \A e \in Executions : Journaled(e) => result[e] = "success"
    /\ \A e, f \in Executions :
         owner[e] \in Batches /\ owner[e] = owner[f] /\ Journaled(e) /\ Journaled(f) => e = f

\* The inductive invariant.
IInv == TypeOK /\ WorkersInv /\ OneActive /\ Controlled /\ Recorded /\ WithinBudget

-----------------------------------------------------------------------------
(* The progress history                                                     *)

\* What one more entry does to the history of its execution, and that it leaves the
\* others alone.
LEMMA AppendEffect ==
    ASSUME TypeOK, NEW e \in Executions, NEW state \in StateType,
           NEW kind \in {"started", "checkpoint", "failed", "publication", "interrupted"},
           Append1(e, kind, state)
    PROVE  /\ progress' \in [Executions -> Seq(EntryType)]
           /\ \A f \in Executions : f # e => progress'[f] = progress[f]
           /\ Len(progress'[e]) = Len(progress[e]) + 1
           /\ \A i \in 1 .. Len(progress[e]) : progress'[e][i] = progress[e][i]
           /\ progress'[e][Len(progress[e]) + 1] = Entry(kind, state)
           /\ Status(e)' = kind
           /\ \A f \in Executions : f # e => Status(f)' = Status(f)
           /\ \A f \in Executions : Journaled(f)' <=> Journaled(f) \/ (f = e /\ kind = "publication")
<1>1. Entry(kind, state) \in EntryType
  BY DEF Entry, EntryType
<1>2. progress[e] \in Seq(EntryType)
  BY DEF TypeOK
<1>3. progress' = [progress EXCEPT ![e] = Append(progress[e], Entry(kind, state))]
  BY DEF Append1
<1>4. progress' \in [Executions -> Seq(EntryType)]
  BY <1>1, <1>3 DEF TypeOK
<1>5. \A f \in Executions : f # e => progress'[f] = progress[f]
  BY <1>3 DEF TypeOK
<1>6. progress'[e] = Append(progress[e], Entry(kind, state))
  BY <1>3 DEF TypeOK
<1>7. /\ Len(progress'[e]) = Len(progress[e]) + 1
      /\ \A i \in 1 .. Len(progress[e]) : progress'[e][i] = progress[e][i]
      /\ progress'[e][Len(progress[e]) + 1] = Entry(kind, state)
      /\ DOMAIN progress'[e] = 1 .. Len(progress[e]) + 1
      /\ DOMAIN progress[e] = 1 .. Len(progress[e])
      /\ Len(progress[e]) \in Nat
      /\ progress'[e] # <<>>
  BY <1>1, <1>2, <1>6
<1>8. Status(e)' = kind
  BY <1>7 DEF Status, Entry
<1>9. \A f \in Executions : f # e => Status(f)' = Status(f)
  BY <1>5 DEF Status
<1>10. \A f \in Executions : f # e => Kinds(f)' = Kinds(f)
  BY <1>5 DEF Kinds
<1>11. Kinds(e)' = Kinds(e) \cup {kind}
  <2>1. ASSUME NEW k \in Kinds(e)' PROVE k \in Kinds(e) \cup {kind}
    <3>1. PICK i \in DOMAIN progress'[e] : k = progress'[e][i].kind
      BY <2>1 DEF Kinds
    <3>2. CASE i \in 1 .. Len(progress[e])
      BY <1>7, <3>1, <3>2 DEF Kinds
    <3>3. CASE i = Len(progress[e]) + 1
      BY <1>7, <3>1, <3>3 DEF Entry
    <3> QED
      BY <1>7, <3>2, <3>3
  <2>2. ASSUME NEW k \in Kinds(e) PROVE k \in Kinds(e)'
    <3>1. PICK i \in DOMAIN progress[e] : k = progress[e][i].kind
      BY <2>2 DEF Kinds
    <3> QED
      BY <1>7, <3>1 DEF Kinds
  <2>3. kind \in Kinds(e)'
    BY <1>7 DEF Kinds, Entry
  <2> QED
    BY <2>1, <2>2, <2>3
<1>12. \A f \in Executions : Journaled(f)' <=> Journaled(f) \/ (f = e /\ kind = "publication")
  BY <1>10, <1>11 DEF Journaled
<1> QED
  BY <1>4, <1>5, <1>7, <1>8, <1>9, <1>12

-----------------------------------------------------------------------------
(* Steps that only move a worker, and steps that add a progress entry       *)

\* A worker's standing survives what others do to other executions, and on its own
\* execution unless it is active.
LEMMA StandingKept ==
    ASSUME NEW t \in WorkerType, Standing(t),
           t.pc \notin {"idle", "fresh"} => t.exe \in Executions,
           NEW e \in Executions,
           \A f \in Executions : f # e => progress'[f] = progress[f] /\ result'[f] = result[f],
           retained \subseteq retained',
           t.pc \in Active => t.exe # e,
           Journaled(e) => Journaled(e)',
           \A i \in 1 .. Len(progress[e]) : i \in 1 .. Len(progress'[e]) /\ progress'[e][i] = progress[e][i]
    PROVE  Standing(t)'
<1>1. CASE t.pc \in {"idle", "fresh"}
  BY <1>1 DEF Standing, Active, Producing
<1>2. CASE t.pc \notin {"idle", "fresh"} /\ t.exe # e
  <2>1. /\ Status(t.exe)' = Status(t.exe)
        /\ Journaled(t.exe)' <=> Journaled(t.exe)
        /\ progress'[t.exe] = progress[t.exe] /\ result'[t.exe] = result[t.exe]
    BY <1>2 DEF Status, Journaled, Kinds
  <2> QED
    BY <1>2, <2>1 DEF Standing
<1>3. CASE t.pc \notin {"idle", "fresh"} /\ t.exe = e
  <2>1. t.pc \notin Active /\ t.pc \notin Producing
    BY <1>3 DEF Active
  <2>2. t.pc = "claiming" => /\ t.seen \in 1 .. Len(progress'[e])
                             /\ progress'[e][t.seen] = Entry("checkpoint", t.state)
    BY <1>3 DEF Standing
  <2>3. t.pc = "journaled" => Journaled(e)'
    BY <1>3 DEF Standing
  <2>4. t.pc = "published" => e \in retained'
    BY <1>3 DEF Standing
  <2>5. t.pc \notin {"starting", "staged"}
    BY <2>1 DEF Active, Producing
  <2> QED
    BY <1>3, <2>1, <2>2, <2>3, <2>4, <2>5 DEF Standing
<1> QED
  BY <1>1, <1>2, <1>3

\* A step that changes neither progress nor results leaves every standing.
LEMMA StandingSame ==
    ASSUME NEW t, Standing(t), UNCHANGED <<progress, result>>, retained \subseteq retained'
    PROVE  Standing(t)'
BY DEF Standing, Status, Journaled, Kinds

\* A step that moves one worker, and perhaps takes or drops its lock, retains a result
\* or selects a head.
LEMMA MoveStep ==
    ASSUME IInv, NEW w \in Workers, NEW t \in WorkerType,
           worker' = [worker EXCEPT ![w] = t],
           lock' \in [Batches -> Workers \cup {None}],
           \A b \in Batches : lock[b] \notin {w, None} => lock'[b] = lock[b],
           UNCHANGED <<owner, start, began, progress, result, outcome, gone, kept, spent>>,
           retained \subseteq retained', retained' \subseteq Executions,
           head' \in Requests \cup {None}, selected' \subseteq Requests,
           Placed(w, t)', Standing(t)', Unpublished(t), Carried(t),
           t.pc \in Active => worker[w].pc \in Active /\ t.exe = worker[w].exe
    PROVE  IInv'
<1>1. /\ worker'[w] = t
      /\ \A v \in Workers : v # w => worker'[v] = worker[v]
      /\ worker \in [Workers -> WorkerType]
  BY DEF IInv, TypeOK, WorkerType
<1>2. TypeOK'
  BY <1>1 DEF IInv, TypeOK, WorkerType
<1>3. WorkersInv'
  <2> SUFFICES ASSUME NEW v \in Workers
               PROVE  (Placed(v, worker[v]) /\ Standing(worker[v])
                       /\ Unpublished(worker[v]) /\ Carried(worker[v]))'
    BY DEF WorkersInv
  <2> PICK s \in WorkerType : s = worker'[v]
    BY <1>1
  <2>1. Unpublished(s) /\ Carried(s)
    BY <1>1 DEF IInv, WorkersInv
  <2>2. Placed(v, s)'
    <3>1. CASE v = w
      BY <1>1, <3>1
    <3>2. CASE v # w
      BY <1>1, <3>2, NameAssumption DEF IInv, WorkersInv, Placed
    <3> QED
      BY <3>1, <3>2
  <2>3. Standing(s)'
    <3>1. CASE v = w
      BY <1>1, <3>1
    <3>2. CASE v # w
      <4>1. Standing(s)
        BY <1>1, <3>2 DEF IInv, WorkersInv
      <4> QED
        BY <4>1, StandingSame
    <3> QED
      BY <3>1, <3>2
  <2>4. Unpublished(s)' /\ Carried(s)'
    BY <2>1 DEF Unpublished, Carried, Journaled, Kinds
  <2> QED
    BY <2>2, <2>3, <2>4
<1>4. OneActive'
  BY <1>1 DEF IInv, OneActive
<1>5. Controlled' /\ Recorded' /\ WithinBudget'
  BY DEF IInv, Controlled, Recorded, WithinBudget, Status, Journaled, Kinds
<1> QED
  BY <1>2, <1>3, <1>4, <1>5 DEF IInv

\* A step that moves one worker and leaves the ledger alone.
LEMMA WorkerStep ==
    ASSUME IInv, NEW w \in Workers, NEW t \in WorkerType,
           worker' = [worker EXCEPT ![w] = t],
           lock' \in [Batches -> Workers \cup {None}],
           \A b \in Batches : lock[b] \notin {w, None} => lock'[b] = lock[b],
           UNCHANGED <<ledger, spent>>,
           Placed(w, t)', Standing(t), Unpublished(t), Carried(t),
           t.pc \in Active => worker[w].pc \in Active /\ t.exe = worker[w].exe
    PROVE  IInv'
<1>1. /\ UNCHANGED <<owner, start, began, progress, result, outcome, gone, kept, spent>>
      /\ UNCHANGED <<retained, head, selected>>
  BY DEF ledger, records
<1>2. Standing(t)'
  BY <1>1, StandingSame
<1>3. /\ retained \subseteq retained' /\ retained' \subseteq Executions
      /\ head' \in Requests \cup {None} /\ selected' \subseteq Requests
  BY <1>1 DEF IInv, TypeOK
<1> QED
  BY <1>1, <1>2, <1>3, MoveStep

\* A step that adds an entry to the execution its worker is on, when no other worker
\* is active there.
LEMMA AppendStep ==
    ASSUME IInv, NEW w \in Workers, NEW t \in WorkerType, NEW e \in Executions,
           NEW kind \in {"started", "checkpoint", "failed", "publication", "interrupted"},
           NEW state \in StateType,
           Append1(e, kind, state),
           worker[w].pc \notin {"idle", "fresh"}, worker[w].exe = e,
           worker' = [worker EXCEPT ![w] = t],
           lock' \in [Batches -> Workers \cup {None}],
           \A b \in Batches : lock[b] \notin {w, None} => lock'[b] = lock[b],
           UNCHANGED <<records, spent>>,
           Placed(w, t)', Standing(t)', Unpublished(t)', Carried(t),
           t.pc \in Active => t.exe = e,
           \A v \in Workers : v # w /\ worker[v].pc \in Active => worker[v].exe # e,
           kind = "checkpoint" =>
             result[e] = "none" /\ (owner[e] \in Documents => state.work = spent[owner[e]]),
           kind = "publication" => result[e] = "success" /\ worker[w].pc \in Active
    PROVE  IInv'
<1> USE DEF records
<1>1. /\ worker'[w] = t
      /\ \A v \in Workers : v # w => worker'[v] = worker[v]
      /\ worker \in [Workers -> WorkerType]
  BY DEF IInv, TypeOK, WorkerType
<1>2. /\ progress' \in [Executions -> Seq(EntryType)]
      /\ \A f \in Executions : f # e => progress'[f] = progress[f]
      /\ Len(progress'[e]) = Len(progress[e]) + 1
      /\ \A i \in 1 .. Len(progress[e]) : progress'[e][i] = progress[e][i]
      /\ progress'[e][Len(progress[e]) + 1] = Entry(kind, state)
      /\ Status(e)' = kind
      /\ \A f \in Executions : f # e => Status(f)' = Status(f)
      /\ \A f \in Executions : Journaled(f)' <=> Journaled(f) \/ (f = e /\ kind = "publication")
  BY AppendEffect DEF IInv
<1>3. Len(progress[e]) \in Nat
  BY DEF IInv, TypeOK
<1>4. owner[e] \in Requests /\ owner[e] = worker[w].req
  BY DEF IInv, WorkersInv, Placed
<1>5. TypeOK'
  BY <1>1, <1>2 DEF IInv, TypeOK, WorkerType
<1>6. WorkersInv'
  <2> SUFFICES ASSUME NEW v \in Workers, v # w
               PROVE  (Placed(v, worker[v]) /\ Standing(worker[v])
                       /\ Unpublished(worker[v]) /\ Carried(worker[v]))'
    BY <1>1 DEF WorkersInv, Carried
  <2> PICK s \in WorkerType : s = worker[v] /\ s = worker'[v]
    BY <1>1
  <2>1. Placed(v, s) /\ Standing(s) /\ Unpublished(s) /\ Carried(s)
    BY DEF IInv, WorkersInv
  <2>2. Placed(v, s)'
    BY <2>1, NameAssumption DEF Placed
  <2>3. Standing(s)'
    <3>1. s.pc \notin {"idle", "fresh"} => s.exe \in Executions
      BY <2>1 DEF Placed
    <3>2. \A f \in Executions : f # e => progress'[f] = progress[f] /\ result'[f] = result[f]
      BY <1>2
    <3>3. \A i \in 1 .. Len(progress[e]) : i \in 1 .. Len(progress'[e]) /\ progress'[e][i] = progress[e][i]
      BY <1>2, <1>3
    <3> QED
      BY <1>2, <2>1, <3>1, <3>2, <3>3, StandingKept
  <2>4. Unpublished(s)'
    <3>1. owner[e] \in Batches => lock[owner[e]] = w
      BY <1>4 DEF IInv, WorkersInv, Placed
    <3>2. s.pc \in Active \cup {"fresh"} /\ s.req \in Batches => s.req # owner[e]
      BY <2>1, <3>1 DEF Placed, Active, Producing
    <3> QED
      BY <1>2, <2>1, <3>2 DEF Unpublished
  <2>5. Carried(s)'
    BY <2>1 DEF Carried
  <2> QED
    BY <2>2, <2>3, <2>4, <2>5
<1>7. OneActive'
  BY <1>1 DEF IInv, OneActive
<1>8. Controlled'
  BY <1>2, <1>4, NameAssumption DEF IInv, Controlled
<1>9. Recorded'
  <2>1. ASSUME NEW f \in Executions, Status(f)' = "checkpoint"
        PROVE  /\ result[f] = "none"
               /\ owner[f] \in Documents => progress'[f][Len(progress'[f])].state.work = spent[owner[f]]
    BY <1>2, <2>1 DEF IInv, Recorded, Entry
  <2>2. ASSUME NEW f \in Executions, Journaled(f)' PROVE result[f] = "success"
    BY <1>2, <2>2 DEF IInv, Recorded
  <2>3. ASSUME NEW f \in Executions, NEW g \in Executions, owner[f] \in Batches, owner[f] = owner[g],
               Journaled(f)', Journaled(g)'
        PROVE  f = g
    <3>1. CASE kind # "publication"
      BY <1>2, <2>3, <3>1 DEF IInv, Recorded
    <3>2. CASE kind = "publication" /\ owner[f] = owner[e]
      <4>1. \A h \in Executions : owner[h] = owner[e] => ~Journaled(h)
        BY <1>4, <2>3, <3>2 DEF IInv, WorkersInv, Unpublished
      <4>2. ASSUME NEW h \in Executions, owner[h] = owner[e], Journaled(h)' PROVE h = e
        BY <1>2, <4>1, <4>2
      <4> QED
        BY <2>3, <3>2, <4>2
    <3>3. CASE kind = "publication" /\ owner[f] # owner[e]
      BY <1>2, <2>3, <3>3 DEF IInv, Recorded
    <3> QED
      BY <3>1, <3>2, <3>3
  <2> QED
    BY <2>1, <2>2, <2>3 DEF Recorded
<1>10. WithinBudget'
  BY DEF IInv, WithinBudget
<1> QED
  BY <1>5, <1>6, <1>7, <1>8, <1>9, <1>10 DEF IInv

\* A worker that goes on keeps its request, its execution and its counters.
LEMMA GotoEffect ==
    ASSUME TypeOK, NEW w \in Workers, NEW pc \in PCs, Goto(w, pc)
    PROVE  \E t \in WorkerType :
             /\ worker' = [worker EXCEPT ![w] = t]
             /\ t.pc = pc /\ t.req = worker[w].req /\ t.exe = worker[w].exe
             /\ t.seen = worker[w].seen /\ t.state = worker[w].state
<1> DEFINE t == [worker[w] EXCEPT !.pc = pc]
<1>1. worker[w] \in WorkerType
  BY DEF TypeOK, WorkerType
<1>2. /\ t \in WorkerType
      /\ t.pc = pc /\ t.req = worker[w].req /\ t.exe = worker[w].exe
      /\ t.seen = worker[w].seen /\ t.state = worker[w].state
  BY <1>1 DEF WorkerType
<1>3. worker' = [worker EXCEPT ![w] = t]
  BY DEF Goto
<1> QED
  BY <1>2, <1>3

\* A worker that leaves rests, without a lock.
LEMMA LeaveEffect ==
    ASSUME TypeOK, NEW w \in Workers, Leave(w)
    PROVE  /\ Resting \in WorkerType
           /\ worker' = [worker EXCEPT ![w] = Resting]
           /\ lock' \in [Batches -> Workers \cup {None}]
           /\ \A b \in Batches : lock[b] \notin {w, None} => lock'[b] = lock[b]
           /\ Placed(w, Resting)' /\ Standing(Resting) /\ Standing(Resting)'
           /\ Unpublished(Resting) /\ Unpublished(Resting)' /\ Carried(Resting)
           /\ Resting.pc \notin Active
<1>1. Resting \in WorkerType
  BY DEF Resting, WorkerType, NoState, StateType, PCs
<1>2. Resting.pc = "idle" /\ "idle" \notin Active
  BY DEF Resting, Active, Producing
<1>3. /\ lock' \in [Batches -> Workers \cup {None}]
      /\ \A b \in Batches : lock[b] \notin {w, None} => lock'[b] = lock[b]
  BY DEF Leave, TypeOK
<1>4. Placed(w, Resting)' /\ Carried(Resting)
  BY <1>2 DEF Placed, Carried
<1>5. Standing(Resting) /\ Standing(Resting)' /\ Unpublished(Resting) /\ Unpublished(Resting)'
  BY <1>2 DEF Standing, Unpublished, Active, Producing
<1> QED
  BY <1>1, <1>2, <1>3, <1>4, <1>5 DEF Leave

-----------------------------------------------------------------------------
(* Every action preserves the invariant                                     *)

\* No attempt has begun at first.
LEMMA InitInv == Init => IInv
<1> SUFFICES ASSUME Init PROVE IInv
  OBVIOUS
<1>1. Resting \in WorkerType /\ NoState \in StateType
  BY DEF Resting, WorkerType, NoState, StateType, PCs
<1>2. TypeOK
  BY <1>1 DEF Init, TypeOK, WorkerType
<1>3. /\ \A w \in Workers : worker[w].pc = "idle"
      /\ \A e \in Executions : progress[e] = <<>>
  BY DEF Init, Resting
<1>4. \A e \in Executions : Status(e) = "none" /\ ~Journaled(e)
  BY <1>3 DEF Status, Journaled, Kinds
<1>5. WorkersInv
  BY <1>3 DEF WorkersInv, Placed, Standing, Unpublished, Carried, Active, Producing
<1>6. OneActive
  BY <1>3 DEF OneActive, Active, Producing
<1>7. Controlled /\ Recorded
  BY <1>4, NameAssumption DEF Init, Controlled, Recorded, Requests
<1>8. WithinBudget
  BY SizeAssumption DEF Init, WithinBudget
<1> QED
  BY <1>2, <1>5, <1>6, <1>7, <1>8 DEF IInv

\* A batch is entered under its lock; its work runs again only when none of its
\* attempts is journaled.
LEMMA RunOnceInv ==
    ASSUME IInv, NEW w \in Workers, NEW b \in Batches, RunOnce(w, b)
    PROVE  IInv'
<1>1. /\ worker[w].pc = "idle"
      /\ lock[b] = None
      /\ lock' = [lock EXCEPT ![b] = w]
      /\ UNCHANGED <<ledger, spent>>
  BY DEF RunOnce, At
<1>2. /\ lock' \in [Batches -> Workers \cup {None}]
      /\ \A c \in Batches : lock[c] \notin {w, None} => lock'[c] = lock[c]
      /\ lock'[b] = w
      /\ UNCHANGED owner
  BY <1>1 DEF IInv, TypeOK, ledger, records
<1>3. b \in Requests /\ b \notin Documents
  BY NameAssumption DEF Requests
<1>4. ASSUME NEW e \in Attempts(b), Enter(w, b, e, "recovering", NoState)
      PROVE  IInv'
  <2> DEFINE t == [pc |-> "recovering", req |-> b, exe |-> e, seen |-> 0, state |-> NoState,
                   looked |-> None]
  <2>1. t \in WorkerType /\ worker' = [worker EXCEPT ![w] = t]
    BY <1>3, <1>4 DEF WorkerType, NoState, StateType, PCs, Attempts, Enter
  <2>2. Placed(w, t)'
    BY <1>2, <1>3 DEF Placed, Attempts
  <2>3. Standing(t) /\ Unpublished(t) /\ Carried(t) /\ t.pc \notin Active
    BY DEF Standing, Unpublished, Carried, Active, Producing
  <2> QED
    BY <1>1, <1>2, <2>1, <2>2, <2>3, WorkerStep
<1>5. ASSUME Enter(w, b, None, "fresh", Fresh(b)), \A e \in Attempts(b) : ~Journaled(e)
      PROVE  IInv'
  <2> PICK t : t = [pc |-> "fresh", req |-> b, exe |-> None, seen |-> 0,
                   state |-> [work |-> 0, expected |-> Base[b]], looked |-> head]
    OBVIOUS
  <2>1. t \in WorkerType /\ worker' = [worker EXCEPT ![w] = t]
    BY <1>3, <1>5, NameAssumption DEF WorkerType, StateType, PCs, Enter, Fresh, IInv, TypeOK
  <2>2. Placed(w, t)'
    BY <1>2, <1>3 DEF Placed
  <2>3. Standing(t) /\ Carried(t) /\ t.pc \notin Active
    BY DEF Standing, Carried, Active, Producing
  <2>4. Unpublished(t)
    BY <1>5 DEF Unpublished, Attempts
  <2> QED
    BY <1>1, <1>2, <2>1, <2>2, <2>3, <2>4, WorkerStep
<1> QED
  BY <1>4, <1>5 DEF RunOnce

\* A document run is entered without a lock.
LEMMA RunDocumentInv ==
    ASSUME IInv, NEW w \in Workers, NEW r \in Documents, RunDocument(w, r)
    PROVE  IInv'
<1>1. /\ worker[w].pc = "idle"
      /\ UNCHANGED <<ledger, lock, spent>>
  BY DEF RunDocument, At
<1>2. lock' \in [Batches -> Workers \cup {None}] /\ UNCHANGED <<owner, lock>>
  BY <1>1 DEF IInv, TypeOK, ledger, records
<1>3. r \in Requests /\ r \notin Batches
  BY NameAssumption DEF Requests
<1>4. ASSUME NEW e \in Attempts(r), NEW pc \in {"recovering", "resuming"}, Enter(w, r, e, pc, NoState)
      PROVE  IInv'
  <2> DEFINE t == [pc |-> pc, req |-> r, exe |-> e, seen |-> 0, state |-> NoState,
                   looked |-> None]
  <2>1. t \in WorkerType /\ worker' = [worker EXCEPT ![w] = t]
    BY <1>3, <1>4 DEF WorkerType, NoState, StateType, PCs, Attempts, Enter
  <2>2. Placed(w, t)'
    BY <1>2, <1>3 DEF Placed, Attempts
  <2>3. Standing(t) /\ Unpublished(t) /\ Carried(t) /\ t.pc \notin Active
    BY DEF Standing, Unpublished, Carried, Active, Producing
  <2> QED
    BY <1>1, <1>2, <2>1, <2>2, <2>3, WorkerStep
<1>5. ASSUME Enter(w, r, None, "fresh", Fresh(r))
      PROVE  IInv'
  <2> PICK t : t = [pc |-> "fresh", req |-> r, exe |-> None, seen |-> 0,
                   state |-> [work |-> 0, expected |-> head], looked |-> head]
    OBVIOUS
  <2>1. t \in WorkerType /\ worker' = [worker EXCEPT ![w] = t]
    BY <1>3, <1>5 DEF WorkerType, StateType, PCs, Enter, Fresh, IInv, TypeOK
  <2>2. Placed(w, t)'
    BY <1>2, <1>3 DEF Placed
  <2>3. Standing(t) /\ Unpublished(t) /\ Carried(t) /\ t.pc \notin Active
    BY <1>3 DEF Standing, Unpublished, Carried, Active, Producing
  <2> QED
    BY <1>1, <1>2, <2>1, <2>2, <2>3, WorkerStep
<1> QED
  BY <1>4, <1>5 DEF RunDocument

\* The checkpoint that is read stays where it was read.
LEMMA ReadCheckpointInv ==
    ASSUME IInv, NEW w \in Workers, ReadCheckpoint(w)
    PROVE  IInv'
<1> DEFINE e == worker[w].exe
           n == Len(progress[e])
<1>1. /\ worker[w].pc = "resuming"
      /\ Suspended(e)
      /\ worker' = [worker EXCEPT ![w].seen = n, ![w].state = progress[e][n].state, ![w].pc = "claiming"]
      /\ UNCHANGED <<ledger, lock, spent>>
  BY DEF ReadCheckpoint, At
<1>2. /\ worker[w] \in WorkerType /\ e \in Executions
      /\ Placed(w, worker[w])
  BY <1>1 DEF IInv, TypeOK, WorkerType, WorkersInv, Placed
<1>3. /\ progress[e] \in Seq(EntryType) /\ n \in Nat /\ n \in 1 .. n
      /\ progress[e][n] \in EntryType /\ progress[e][n].kind = "checkpoint"
  BY <1>1, <1>2 DEF IInv, TypeOK, Suspended
<1>4. /\ progress[e][n].state \in StateType
      /\ progress[e][n] = Entry("checkpoint", progress[e][n].state)
  BY <1>3 DEF EntryType, Entry
<1> PICK t : t = [worker[w] EXCEPT !.seen = n, !.state = progress[e][n].state, !.pc = "claiming"]
  OBVIOUS
<1>5. /\ t \in WorkerType
      /\ t.pc = "claiming" /\ t.req = worker[w].req /\ t.exe = e
      /\ t.seen = n /\ t.state = progress[e][n].state
  BY <1>2, <1>3, <1>4 DEF WorkerType, PCs
<1>6. worker' = [worker EXCEPT ![w] = t]
  BY <1>1 DEF IInv, TypeOK
<1>7. Placed(w, t)'
  BY <1>1, <1>2, <1>5 DEF Placed, ledger, records
<1>8. Standing(t) /\ Unpublished(t) /\ Carried(t) /\ t.pc \notin Active
  BY <1>3, <1>4, <1>5 DEF Standing, Unpublished, Carried, Active, Producing
<1> QED
  BY <1>1, <1>5, <1>6, <1>7, <1>8, WorkerStep DEF IInv, TypeOK

\* An error of the producer suspends a document run and fails a batch.
LEMMA ProducerErrorInv ==
    ASSUME IInv, NEW w \in Workers, ProducerError(w)
    PROVE  IInv'
<1>1. /\ worker[w].pc = "performing"
      /\ Goto(w, IF worker[w].req \in Documents THEN "suspending" ELSE "failing")
      /\ UNCHANGED <<ledger, lock, spent>>
  BY DEF ProducerError, At
<1>2. PICK pc \in PCs : pc = IF worker[w].req \in Documents THEN "suspending" ELSE "failing"
  BY DEF PCs
<1>3. PICK t \in WorkerType :
        /\ worker' = [worker EXCEPT ![w] = t]
        /\ t.pc = pc /\ t.req = worker[w].req /\ t.exe = worker[w].exe
        /\ t.seen = worker[w].seen /\ t.state = worker[w].state
  BY <1>1, <1>2, GotoEffect DEF IInv
<1>4. Placed(w, worker[w]) /\ Standing(worker[w]) /\ Unpublished(worker[w]) /\ Carried(worker[w])
  BY DEF IInv, WorkersInv
<1>5. Placed(w, t)'
  BY <1>1, <1>2, <1>3, <1>4 DEF Placed, ledger, records
<1>6. Standing(t) /\ Unpublished(t) /\ Carried(t) /\ t.pc \in Active /\ worker[w].pc \in Active
  BY <1>1, <1>2, <1>3, <1>4 DEF Standing, Unpublished, Carried, Active, Producing
<1> QED
  BY <1>1, <1>3, <1>5, <1>6, WorkerStep DEF IInv, TypeOK

\* The producer's return changes no record.
LEMMA ProducerDoneInv ==
    ASSUME IInv, NEW w \in Workers, ProducerDone(w)
    PROVE  IInv'
<1>1. /\ worker[w].pc = "performing"
      /\ Goto(w, "prepared") /\ "prepared" \in PCs
      /\ UNCHANGED <<ledger, lock, spent>>
  BY DEF ProducerDone, At, PCs
<1>2. PICK t \in WorkerType :
        /\ worker' = [worker EXCEPT ![w] = t]
        /\ t.pc = "prepared" /\ t.req = worker[w].req /\ t.exe = worker[w].exe
        /\ t.seen = worker[w].seen /\ t.state = worker[w].state
  BY <1>1, GotoEffect DEF IInv
<1>3. Placed(w, worker[w]) /\ Standing(worker[w]) /\ Unpublished(worker[w])
  BY DEF IInv, WorkersInv
<1>4. Placed(w, t)'
  BY <1>1, <1>2, <1>3 DEF Placed, ledger, records
<1>5. Standing(t) /\ Unpublished(t) /\ Carried(t) /\ t.pc \in Active /\ worker[w].pc \in Active
  BY <1>1, <1>2, <1>3 DEF Standing, Unpublished, Carried, Active, Producing
<1> QED
  BY <1>1, <1>2, <1>4, <1>5, WorkerStep DEF IInv, TypeOK

\* A checkpoint that cannot be saved fails the attempt.
LEMMA CheckpointErrorInv ==
    ASSUME IInv, NEW w \in Workers, CheckpointError(w)
    PROVE  IInv'
<1>1. /\ worker[w].pc = "suspending"
      /\ Goto(w, "failing") /\ "failing" \in PCs
      /\ UNCHANGED <<ledger, lock, spent>>
  BY DEF CheckpointError, At, PCs
<1>2. PICK t \in WorkerType :
        /\ worker' = [worker EXCEPT ![w] = t]
        /\ t.pc = "failing" /\ t.req = worker[w].req /\ t.exe = worker[w].exe
        /\ t.seen = worker[w].seen /\ t.state = worker[w].state
  BY <1>1, GotoEffect DEF IInv
<1>3. Placed(w, worker[w]) /\ Standing(worker[w]) /\ Unpublished(worker[w])
  BY DEF IInv, WorkersInv
<1>4. Placed(w, t)'
  BY <1>1, <1>2, <1>3 DEF Placed, ledger, records
<1>5. Standing(t) /\ Unpublished(t) /\ Carried(t) /\ t.pc \in Active /\ worker[w].pc \in Active
  BY <1>1, <1>2, <1>3 DEF Standing, Unpublished, Carried, Active, Producing
<1> QED
  BY <1>1, <1>2, <1>4, <1>5, WorkerStep DEF IInv, TypeOK

\* A recovery goes on from what is retained or journaled.
LEMMA RecoverInv ==
    ASSUME IInv, NEW w \in Workers, Recover(w)
    PROVE  IInv'
<1>1. /\ worker[w].pc = "recovering"
      /\ UNCHANGED <<ledger, lock, spent>>
  BY DEF Recover, At
<1>2. PICK pc \in {"published", "journaled"} :
        /\ Goto(w, pc)
        /\ pc = "published" => worker[w].exe \in retained
        /\ pc = "journaled" => Journaled(worker[w].exe)
  BY DEF Recover
<1>3. PICK t \in WorkerType :
        /\ worker' = [worker EXCEPT ![w] = t]
        /\ t.pc = pc /\ t.req = worker[w].req /\ t.exe = worker[w].exe
        /\ t.seen = worker[w].seen /\ t.state = worker[w].state
  BY <1>2, GotoEffect DEF IInv, PCs
<1>4. Placed(w, worker[w])
  BY DEF IInv, WorkersInv
<1>5. Placed(w, t)'
  BY <1>1, <1>2, <1>3, <1>4 DEF Placed, ledger, records
<1>6. Standing(t) /\ Unpublished(t) /\ Carried(t) /\ t.pc \notin Active
  BY <1>1, <1>2, <1>3, <1>4 DEF Standing, Unpublished, Carried, Active, Producing
<1> QED
  BY <1>1, <1>3, <1>5, <1>6, WorkerStep DEF IInv, TypeOK

\* A process that dies leaves the ledger as it is.
LEMMA CrashInv ==
    ASSUME IInv, NEW w \in Workers, Crash(w)
    PROVE  IInv'
BY LeaveEffect, WorkerStep DEF Crash, IInv

\* The journal's unit retains the result.
LEMMA PublishJournalInv ==
    ASSUME IInv, NEW w \in Workers, PublishJournal(w)
    PROVE  IInv'
<1>1. /\ worker[w].pc = "journaled"
      /\ Goto(w, "published") /\ "published" \in PCs
      /\ retained' = retained \cup {worker[w].exe}
      /\ UNCHANGED <<owner, start, began, progress, result, outcome, gone, kept, head, selected, lock, spent>>
  BY DEF PublishJournal, At, PCs
<1>2. PICK t \in WorkerType :
        /\ worker' = [worker EXCEPT ![w] = t]
        /\ t.pc = "published" /\ t.req = worker[w].req /\ t.exe = worker[w].exe
        /\ t.seen = worker[w].seen /\ t.state = worker[w].state
  BY <1>1, GotoEffect DEF IInv
<1>3. Placed(w, worker[w]) /\ worker[w].exe \in Executions
  BY <1>1 DEF IInv, WorkersInv, Placed
<1>4. Placed(w, t)'
  BY <1>1, <1>2, <1>3 DEF Placed
<1>5. Standing(t)' /\ Unpublished(t) /\ Carried(t) /\ t.pc \notin Active
  BY <1>1, <1>2 DEF Standing, Unpublished, Carried, Active, Producing
<1>6. /\ retained \subseteq retained' /\ retained' \subseteq Executions
      /\ head' \in Requests \cup {None} /\ selected' \subseteq Requests
      /\ lock' \in [Batches -> Workers \cup {None}]
  BY <1>1, <1>3 DEF IInv, TypeOK
<1> QED
  BY <1>1, <1>2, <1>4, <1>5, <1>6, MoveStep

\* A selection moves the head and ends the attempt.
LEMMA SelectCurrentInv ==
    ASSUME IInv, NEW w \in Workers, SelectCurrent(w)
    PROVE  IInv'
<1>1. /\ worker[w].pc = "published"
      /\ Leave(w)
      /\ UNCHANGED <<owner, start, began, progress, result, outcome, retained, gone, kept, spent>>
  BY DEF SelectCurrent, At
<1>2. worker[w].req \in Requests
  BY <1>1 DEF IInv, WorkersInv, Placed
<1>3. /\ retained \subseteq retained' /\ retained' \subseteq Executions
      /\ head' \in Requests \cup {None} /\ selected' \subseteq Requests
  BY <1>1, <1>2 DEF IInv, TypeOK, SelectCurrent
<1> QED
  BY <1>1, <1>3, LeaveEffect, MoveStep DEF IInv

\* What a policy makes unavailable was retained.
LEMMA RemoveResultInv ==
    ASSUME IInv, NEW e \in Executions, RemoveResult(e)
    PROVE  IInv'
<1>1. /\ UNCHANGED <<owner, start, began, progress, result, outcome, retained, kept, head, selected,
                     lock, worker, spent>>
      /\ gone' \subseteq retained
  BY DEF RemoveResult, IInv, TypeOK
<1>2. TypeOK'
  BY <1>1 DEF IInv, TypeOK
<1>3. WorkersInv'
  BY <1>1 DEF IInv, WorkersInv, Placed, Standing, Unpublished, Carried, Status, Journaled, Kinds
<1>4. OneActive' /\ Controlled' /\ Recorded' /\ WithinBudget'
  BY <1>1 DEF IInv, OneActive, Controlled, Recorded, WithinBudget, Status, Journaled, Kinds
<1> QED
  BY <1>2, <1>3, <1>4 DEF IInv

\* The first entry of an attempt: its worker is the only active one.
LEMMA RecordStartedInv ==
    ASSUME IInv, NEW w \in Workers, RecordStarted(w)
    PROVE  IInv'
<1>1. /\ worker[w].pc = "starting"
      /\ Goto(w, "performing") /\ "performing" \in PCs
      /\ UNCHANGED <<records, lock, spent>>
  BY DEF RecordStarted, At, PCs
<1>2. Placed(w, worker[w]) /\ Standing(worker[w]) /\ Unpublished(worker[w]) /\ Carried(worker[w])
  BY DEF IInv, WorkersInv
<1>3. PICK e \in Executions : e = worker[w].exe
  BY <1>1, <1>2 DEF Placed
<1>4. PICK t \in WorkerType :
        /\ worker' = [worker EXCEPT ![w] = t]
        /\ t.pc = "performing" /\ t.req = worker[w].req /\ t.exe = worker[w].exe
        /\ t.seen = worker[w].seen /\ t.state = worker[w].state
  BY <1>1, GotoEffect DEF IInv
<1>5. Append1(e, "started", NoState) /\ NoState \in StateType
  BY <1>3 DEF RecordStarted, NoState, StateType
<1>6. /\ Status(e)' = "started"
      /\ \A f \in Executions : Journaled(f)' <=> Journaled(f)
  BY <1>5, AppendEffect DEF IInv
<1>7. Placed(w, t)'
  BY <1>1, <1>2, <1>4 DEF Placed, records
<1>8. ~Journaled(e) /\ result[e] = "none"
  BY <1>1, <1>2, <1>3 DEF Standing, Active, Producing
<1>9. Standing(t)'
  BY <1>1, <1>3, <1>4, <1>6, <1>8 DEF Standing, Active, Producing, records
<1>10. Unpublished(t)' /\ Carried(t)
  BY <1>1, <1>2, <1>4, <1>6 DEF Unpublished, Carried, Active, Producing, records
<1>11. \A v \in Workers : v # w /\ worker[v].pc \in Active => worker[v].exe # e
  BY <1>1, <1>3 DEF IInv, OneActive, Active
<1> QED
  BY <1>1, <1>3, <1>4, <1>5, <1>7, <1>9, <1>10, <1>11, AppendStep, ZenonT(60) DEF IInv, TypeOK

\* A claim succeeds only on the checkpoint that was read: nobody is active there, and
\* its counter is all of the work done.
LEMMA ClaimInv ==
    ASSUME IInv, NEW w \in Workers, Claim(w)
    PROVE  IInv'
<1>1. /\ worker[w].pc = "claiming"
      /\ Len(progress[worker[w].exe]) = worker[w].seen
      /\ Goto(w, "performing") /\ "performing" \in PCs
      /\ UNCHANGED <<records, lock, spent>>
  BY DEF Claim, At, PCs
<1>2. Placed(w, worker[w]) /\ Standing(worker[w])
  BY DEF IInv, WorkersInv
<1>3. PICK e \in Executions : e = worker[w].exe
  BY <1>1, <1>2 DEF Placed
<1>4. PICK t \in WorkerType :
        /\ worker' = [worker EXCEPT ![w] = t]
        /\ t.pc = "performing" /\ t.req = worker[w].req /\ t.exe = worker[w].exe
        /\ t.seen = worker[w].seen /\ t.state = worker[w].state
  BY <1>1, GotoEffect DEF IInv
<1>5. Append1(e, "started", NoState) /\ NoState \in StateType
  BY <1>3 DEF Claim, NoState, StateType
<1>6. /\ Status(e)' = "started"
      /\ \A f \in Executions : Journaled(f)' <=> Journaled(f)
  BY <1>5, AppendEffect DEF IInv
<1>7. /\ Len(progress[e]) \in 1 .. Len(progress[e])
      /\ progress[e][Len(progress[e])] = Entry("checkpoint", worker[w].state)
  BY <1>1, <1>2, <1>3 DEF Standing
<1>8. Status(e) = "checkpoint"
  BY <1>3, <1>7 DEF Status, Entry, IInv, TypeOK
<1>9. /\ worker[w].req \in Documents /\ owner[e] = worker[w].req
      /\ worker[w].state.work = spent[worker[w].req]
  BY <1>1, <1>2, <1>3, <1>7, <1>8 DEF Placed, IInv, Recorded, Entry
<1>10. result[e] = "none" /\ ~Journaled(e)
  BY <1>8 DEF IInv, Recorded
<1>11. Placed(w, t)'
  BY <1>1, <1>2, <1>4, NameAssumption, <1>9 DEF Placed, records
<1>12. Standing(t)'
  BY <1>1, <1>3, <1>4, <1>6, <1>10 DEF Standing, Active, Producing, records
<1>13. Unpublished(t)' /\ Carried(t)
  BY <1>4, <1>9, NameAssumption DEF Unpublished, Carried
<1>14. \A v \in Workers : v # w /\ worker[v].pc \in Active => worker[v].exe # e
  BY <1>8 DEF IInv, WorkersInv, Standing, Active
<1> QED
  BY <1>1, <1>3, <1>4, <1>5, <1>11, <1>12, <1>13, <1>14, AppendStep, ZenonT(60) DEF IInv, TypeOK

\* A checkpoint counts all of the work done for its run.
LEMMA SaveCheckpointInv ==
    ASSUME IInv, NEW w \in Workers, SaveCheckpoint(w)
    PROVE  IInv'
<1>1. /\ worker[w].pc = "suspending"
      /\ Leave(w) /\ UNCHANGED <<records, spent>>
  BY DEF SaveCheckpoint, At
<1>2. /\ Placed(w, worker[w]) /\ Standing(worker[w]) /\ Carried(worker[w])
      /\ worker[w].state \in StateType
  BY DEF IInv, WorkersInv, TypeOK
<1>3. PICK e \in Executions, state \in StateType : e = worker[w].exe /\ state = worker[w].state
  BY <1>1, <1>2 DEF Placed
<1>4. Append1(e, "checkpoint", state)
  BY <1>3 DEF SaveCheckpoint
<1>5. result[e] = "none" /\ (owner[e] \in Documents => state.work = spent[owner[e]])
  BY <1>1, <1>2, <1>3 DEF Placed, Standing, Carried, Active, Producing
<1>6. \A v \in Workers : v # w /\ worker[v].pc \in Active => worker[v].exe # e
  BY <1>1, <1>3 DEF IInv, OneActive, Active, Producing
<1>7. /\ worker' = [worker EXCEPT ![w] = Resting]
        /\ lock' \in [Batches -> Workers \cup {None}]
        /\ \A b \in Batches : lock[b] \notin {w, None} => lock'[b] = lock[b]
  BY <1>1, LeaveEffect DEF IInv
<1>8. /\ Resting \in WorkerType
        /\ Placed(w, Resting)' /\ Standing(Resting)' /\ Unpublished(Resting)' /\ Carried(Resting)
        /\ Resting.pc \notin Active
  BY <1>1, LeaveEffect DEF IInv
<1>9. worker[w].pc \notin {"idle", "fresh"} /\ worker[w].exe = e /\ (Resting.pc \in Active => Resting.exe = e)
  BY <1>1, <1>3, <1>8
<1> QED
  BY <1>9, <1>1, <1>7, <1>8, <1>4, <1>5, <1>6, AppendStep, ZenonT(60)

\* A failed attempt ends.
LEMMA RecordFailedInv ==
    ASSUME IInv, NEW w \in Workers, RecordFailed(w)
    PROVE  IInv'
<1>1. /\ worker[w].pc = "failed"
      /\ Leave(w) /\ UNCHANGED <<records, spent>>
  BY DEF RecordFailed, At
<1>2. PICK e \in Executions : e = worker[w].exe
  BY <1>1 DEF IInv, WorkersInv, Placed
<1>3. Append1(e, "failed", NoState) /\ NoState \in StateType
  BY <1>2 DEF RecordFailed, NoState, StateType
<1>4. \A v \in Workers : v # w /\ worker[v].pc \in Active => worker[v].exe # e
  BY <1>1, <1>2 DEF IInv, OneActive, Active, Producing
<1>5. /\ worker' = [worker EXCEPT ![w] = Resting]
        /\ lock' \in [Batches -> Workers \cup {None}]
        /\ \A b \in Batches : lock[b] \notin {w, None} => lock'[b] = lock[b]
  BY <1>1, LeaveEffect DEF IInv
<1>6. /\ Resting \in WorkerType
        /\ Placed(w, Resting)' /\ Standing(Resting)' /\ Unpublished(Resting)' /\ Carried(Resting)
        /\ Resting.pc \notin Active
  BY <1>1, LeaveEffect DEF IInv
<1> QED
  BY <1>1, <1>3, <1>5, <1>6, <1>2, <1>4, AppendStep, ZenonT(60)

\* A publication that was interrupted leaves its journal, on which nobody is active.
LEMMA PublicationInterruptedInv ==
    ASSUME IInv, NEW w \in Workers, PublicationInterrupted(w)
    PROVE  IInv'
<1>1. /\ worker[w].pc \in {"prepared", "staged", "journaled"}
      /\ Leave(w) /\ UNCHANGED <<records, spent>>
  BY DEF PublicationInterrupted
<1>2. PICK e \in Executions : e = worker[w].exe
  BY <1>1 DEF IInv, WorkersInv, Placed
<1>3. Append1(e, "interrupted", NoState) /\ NoState \in StateType
  BY <1>2 DEF PublicationInterrupted, NoState, StateType
<1>4. ASSUME worker[w].pc = "journaled"
      PROVE  \A v \in Workers : v # w /\ worker[v].pc \in Active => worker[v].exe # e
  <2>1. Journaled(e)
    BY <1>2, <1>4 DEF IInv, WorkersInv, Standing
  <2>2. \A v \in Workers : v # w /\ worker[v].pc \in Active => worker[v].exe # e
    BY <2>1 DEF IInv, WorkersInv, Standing
  <2> QED
    BY <2>2
<1>5. ASSUME worker[w].pc \in {"prepared", "staged"}
      PROVE  \A v \in Workers : v # w /\ worker[v].pc \in Active => worker[v].exe # e
  <2>1. \A v \in Workers : v # w /\ worker[v].pc \in Active => worker[v].exe # e
    BY <1>2, <1>5 DEF IInv, OneActive, Active, Producing
  <2> QED
    BY <2>1
<1>6. \A v \in Workers : v # w /\ worker[v].pc \in Active => worker[v].exe # e
  BY <1>1, <1>4, <1>5
<1>7. /\ worker' = [worker EXCEPT ![w] = Resting]
        /\ lock' \in [Batches -> Workers \cup {None}]
        /\ \A b \in Batches : lock[b] \notin {w, None} => lock'[b] = lock[b]
  BY <1>1, LeaveEffect DEF IInv
<1>8. /\ Resting \in WorkerType
        /\ Placed(w, Resting)' /\ Standing(Resting)' /\ Unpublished(Resting)' /\ Carried(Resting)
        /\ Resting.pc \notin Active
  BY <1>1, LeaveEffect DEF IInv
<1>9. worker[w].pc \notin {"idle", "fresh"} /\ worker[w].exe = e /\ (Resting.pc \in Active => Resting.exe = e)
  BY <1>1, <1>2, <1>8
<1> QED
  BY <1>9, <1>1, <1>3, <1>7, <1>8, <1>6, AppendStep, ZenonT(60)

\* What is journaled succeeded, and a batch had no journaled attempt before.
LEMMA JournalInv ==
    ASSUME IInv, NEW w \in Workers, Journal(w)
    PROVE  IInv'
<1>1. /\ worker[w].pc = "staged"
      /\ Goto(w, "journaled") /\ "journaled" \in PCs
      /\ UNCHANGED <<records, lock, spent>>
  BY DEF Journal, At, PCs
<1>2. Placed(w, worker[w]) /\ Standing(worker[w])
  BY DEF IInv, WorkersInv
<1>3. PICK e \in Executions : e = worker[w].exe
  BY <1>1, <1>2 DEF Placed
<1>4. PICK t \in WorkerType :
        /\ worker' = [worker EXCEPT ![w] = t]
        /\ t.pc = "journaled" /\ t.req = worker[w].req /\ t.exe = worker[w].exe
        /\ t.seen = worker[w].seen /\ t.state = worker[w].state
  BY <1>1, GotoEffect DEF IInv
<1>5. Append1(e, "publication", NoState) /\ NoState \in StateType
  BY <1>3 DEF Journal, NoState, StateType
<1>6. Journaled(e)'
  BY <1>5, AppendEffect DEF IInv
<1>7. Placed(w, t)'
  BY <1>1, <1>2, <1>4 DEF Placed, records
<1>8. Standing(t)' /\ Unpublished(t)' /\ Carried(t) /\ t.pc \notin Active
  BY <1>3, <1>4, <1>6 DEF Standing, Unpublished, Carried, Active, Producing
<1>9. result[e] = "success" /\ worker[w].pc \in Active
  BY <1>1, <1>2, <1>3 DEF Standing, Active, Producing
<1>10. \A v \in Workers : v # w /\ worker[v].pc \in Active => worker[v].exe # e
  BY <1>1, <1>3, <1>9 DEF IInv, OneActive
<1>11. lock' \in [Batches -> Workers \cup {None}] /\ UNCHANGED lock
  BY <1>1 DEF IInv, TypeOK
<1> QED
  BY <1>1, <1>3, <1>4, <1>5, <1>7, <1>8, <1>9, <1>10, <1>11, AppendStep

\* A start unit commits an execution that nobody has used; a document run has none
\* before it, so that nothing is spent yet.
LEMMA StartInv ==
    ASSUME IInv, NEW w \in Workers, NEW e \in Executions, Start(w, e)
    PROVE  IInv'
<1>1. PICK r \in Requests : r = worker[w].req
  BY DEF IInv, WorkersInv, Placed, Start, At
<1>2. /\ worker[w].pc = "fresh" /\ owner[e] = None
      /\ r \in Documents => start[r] = None
      /\ owner' = [owner EXCEPT ![e] = r]
      /\ IF r \in Documents
         THEN start' = [start EXCEPT ![r] = e] /\ began' = [began EXCEPT ![r] = worker[w].looked]
         ELSE UNCHANGED <<start, began>>
      /\ worker' = [worker EXCEPT ![w].exe = e, ![w].pc = "starting"]
      /\ UNCHANGED <<progress, result, outcome, retained, gone, kept, head, selected, lock, spent>>
  BY <1>1 DEF Start, At
<1>3. worker \in [Workers -> WorkerType]
  BY DEF IInv, TypeOK, WorkerType
<1>4. PICK t : t = [worker[w] EXCEPT !.exe = e, !.pc = "starting"]
  OBVIOUS
<1>5. /\ t \in WorkerType /\ t.pc = "starting" /\ t.req = r /\ t.exe = e
      /\ t.state = worker[w].state
  BY <1>1, <1>3, <1>4 DEF WorkerType, PCs
<1>6. worker' = [worker EXCEPT ![w] = t]
  BY <1>2, <1>3, <1>4
<1>7. worker'[w] = t /\ \A v \in Workers : v # w => worker'[v] = worker[v]
  BY <1>3, <1>6
<1>8. Placed(w, worker[w]) /\ Unpublished(worker[w]) /\ Carried(worker[w])
  BY DEF IInv, WorkersInv
<1>9. Status(e) = "none" /\ ~Journaled(e) /\ result[e] = "none"
  BY <1>2 DEF IInv, Controlled
<1>10. \A f \in Executions : (Status(f)' = Status(f)) /\ (Journaled(f)' <=> Journaled(f))
  BY <1>2 DEF Status, Journaled, Kinds
<1>11. owner'[e] = r /\ \A f \in Executions : f # e => owner'[f] = owner[f]
  BY <1>2 DEF IInv, TypeOK
<1>12. r # None
  BY NameAssumption
<1>13. TypeOK'
  <2>1. owner' \in [Executions -> Requests \cup {None}]
    BY <1>2 DEF IInv, TypeOK
  <2>2. start' \in [Documents -> Executions \cup {None}]
    <3>1. start \in [Documents -> Executions \cup {None}]
      BY DEF IInv, TypeOK
    <3>2. CASE r \in Documents
      BY <1>2, <3>1, <3>2
    <3>3. CASE r \notin Documents
      BY <1>2, <3>1, <3>3
    <3> QED
      BY <3>2, <3>3
  <2>3. worker' \in [Workers -> WorkerType]
    BY <1>3, <1>5, <1>6
  <2>4. began' \in [Documents -> Requests \cup {None}]
    BY <1>2, <1>3 DEF IInv, TypeOK, WorkerType
  <2> QED
    BY <1>2, <2>1, <2>2, <2>3, <2>4 DEF IInv, TypeOK, WorkerType
<1>14. Placed(w, t)' /\ Standing(t)' /\ Unpublished(t)' /\ Carried(t)'
  <2>1. Placed(w, t)'
    BY <1>1, <1>2, <1>5, <1>8, <1>11 DEF Placed
  <2>2. Standing(t)'
    BY <1>2, <1>5, <1>9, <1>10 DEF Standing, Active, Producing
  <2>3. Unpublished(t)'
    BY <1>1, <1>2, <1>5, <1>8, <1>9, <1>10, <1>11 DEF Unpublished
  <2>4. Carried(t)'
    BY <1>1, <1>2, <1>5, <1>8 DEF Carried, IInv, Controlled
  <2> QED
    BY <2>1, <2>2, <2>3, <2>4
<1>15. WorkersInv'
  <2> SUFFICES ASSUME NEW v \in Workers, v # w
               PROVE  (Placed(v, worker[v]) /\ Standing(worker[v])
                       /\ Unpublished(worker[v]) /\ Carried(worker[v]))'
    BY <1>7, <1>14 DEF WorkersInv
  <2> PICK s \in WorkerType : s = worker[v] /\ s = worker'[v]
    BY <1>3, <1>7
  <2>1. Placed(v, s) /\ Standing(s) /\ Unpublished(s) /\ Carried(s)
    BY DEF IInv, WorkersInv
  <2>2. Placed(v, s)'
    BY <1>2, <1>11, <2>1, NameAssumption DEF Placed
  <2>3. Standing(s)'
    BY <1>2, <2>1, StandingSame
  <2>4. Unpublished(s)'
    BY <1>9, <1>10, <1>11, <2>1 DEF Unpublished
  <2>5. Carried(s)'
    BY <1>2, <2>1 DEF Carried
  <2> QED
    BY <2>2, <2>3, <2>4, <2>5
<1>16. OneActive'
  <2>1. \A v \in Workers : worker[v].pc \in Active => worker[v].exe # e
    BY <1>2, NameAssumption DEF IInv, WorkersInv, Placed, Active, Producing
  <2> QED
    BY <1>5, <1>7, <2>1 DEF IInv, OneActive
<1>17. Controlled'
  <2>1. ASSUME NEW f \in Executions, owner'[f] \in Documents PROVE start'[owner'[f]] = f
    <3>1. CASE f = e
      BY <1>2, <1>11, <2>1, <3>1 DEF IInv, TypeOK
    <3>2. CASE f # e
      <4>1. owner'[f] = owner[f] /\ start[owner[f]] = f /\ f # None
        BY <1>11, <2>1, <3>2, NameAssumption DEF IInv, Controlled
      <4> QED
        BY <1>2, <2>1, <4>1 DEF IInv, TypeOK
    <3> QED
      BY <3>1, <3>2
  <2>2. ASSUME NEW f \in Executions, owner'[f] = None
        PROVE  Status(f)' = "none" /\ ~Journaled(f)' /\ result'[f] = "none"
    BY <1>2, <1>10, <1>11, <1>12, <2>2 DEF IInv, Controlled
  <2>3. ASSUME NEW d \in Documents, start'[d] = None PROVE spent'[d] = 0
    BY <1>2, <2>3, NameAssumption DEF IInv, Controlled, TypeOK
  <2> QED
    BY <2>1, <2>2, <2>3 DEF Controlled
<1>18. Recorded'
  <2>1. ASSUME NEW f \in Executions, Status(f)' = "checkpoint"
        PROVE  /\ result'[f] = "none"
               /\ owner'[f] \in Documents => progress'[f][Len(progress'[f])].state.work = spent'[owner'[f]]
    BY <1>2, <1>9, <1>10, <1>11, <2>1 DEF IInv, Recorded
  <2>2. ASSUME NEW f \in Executions, Journaled(f)' PROVE result'[f] = "success"
    BY <1>2, <1>10, <2>2 DEF IInv, Recorded
  <2>3. ASSUME NEW f \in Executions, NEW g \in Executions, owner'[f] \in Batches, owner'[f] = owner'[g],
               Journaled(f)', Journaled(g)'
        PROVE  f = g
    BY <1>9, <1>10, <1>11, <2>3 DEF IInv, Recorded
  <2> QED
    BY <2>1, <2>2, <2>3 DEF Recorded
<1>19. WithinBudget'
  BY <1>2 DEF IInv, WithinBudget
<1> QED
  BY <1>13, <1>15, <1>16, <1>17, <1>18, <1>19 DEF IInv

\* A unit of work is counted by the one worker that is active on the run, before the
\* limit is passed by more than that unit.
LEMMA WorkInv ==
    ASSUME IInv, NEW w \in Workers, Work(w)
    PROVE  IInv'
<1>1. PICK r \in Documents : r = worker[w].req
  BY DEF Work
<1>2. /\ worker[w].pc = "performing"
      /\ worker[w].state.work <= Limit
      /\ worker' = [worker EXCEPT ![w].state.work = worker[w].state.work + 1]
      /\ spent' = [spent EXCEPT ![r] = spent[r] + 1]
      /\ \/ UNCHANGED kept
         \/ kept' = [kept EXCEPT ![r] = kept[r] + 1]
      /\ UNCHANGED <<owner, start, began, progress, result, outcome, retained, gone, head, selected, lock>>
  BY <1>1 DEF Work, At
<1>3. worker \in [Workers -> WorkerType]
  BY DEF IInv, TypeOK, WorkerType
<1>4. PICK t : t = [worker[w] EXCEPT !.state.work = worker[w].state.work + 1]
  OBVIOUS
<1>5. /\ t \in WorkerType /\ t.pc = "performing" /\ t.req = r /\ t.exe = worker[w].exe
      /\ t.state.work = worker[w].state.work + 1
  BY <1>1, <1>2, <1>3, <1>4 DEF WorkerType, StateType
<1>6. worker' = [worker EXCEPT ![w] = t]
  BY <1>2, <1>3, <1>4
<1>7. worker'[w] = t /\ \A v \in Workers : v # w => worker'[v] = worker[v]
  BY <1>3, <1>6
<1>8. Placed(w, worker[w]) /\ Standing(worker[w]) /\ Unpublished(worker[w]) /\ Carried(worker[w])
  BY DEF IInv, WorkersInv
<1>9. PICK e \in Executions : e = worker[w].exe /\ owner[e] = r /\ start[r] = e
  BY <1>1, <1>2, <1>8 DEF Placed, IInv, Controlled
<1>10. /\ Status(e) = "started" /\ worker[w].state.work = spent[r]
       /\ spent[r] \in Nat
  BY <1>1, <1>2, <1>8, <1>9 DEF Standing, Carried, Producing, IInv, TypeOK
<1>11. \A f \in Executions : (Status(f)' = Status(f)) /\ (Journaled(f)' <=> Journaled(f))
  BY <1>2 DEF Status, Journaled, Kinds
<1>12. spent'[r] = spent[r] + 1 /\ \A d \in Documents : d # r => spent'[d] = spent[d]
  BY <1>2 DEF IInv, TypeOK
<1>13. TypeOK'
  <2>1. spent' \in [Documents -> Nat] /\ kept' \in [Documents -> Nat]
    <3>1. spent \in [Documents -> Nat] /\ kept \in [Documents -> Nat] /\ kept[r] \in Nat
      BY DEF IInv, TypeOK
    <3>2. spent' \in [Documents -> Nat]
      BY <1>2, <1>10, <3>1
    <3>3. kept' \in [Documents -> Nat]
      BY <1>2, <3>1
    <3> QED
      BY <3>2, <3>3
  <2>2. worker' \in [Workers -> WorkerType]
    BY <1>3, <1>5, <1>6
  <2> QED
    BY <1>2, <2>1, <2>2 DEF IInv, TypeOK, WorkerType
<1>14. Placed(w, t)' /\ Standing(t)' /\ Unpublished(t)' /\ Carried(t)'
  <2>1. Placed(w, t)'
    BY <1>1, <1>2, <1>5, <1>8 DEF Placed
  <2>2. Standing(t)'
    <3>1. Standing(t)
      BY <1>2, <1>5, <1>8 DEF Standing
    <3> QED
      BY <1>2, <3>1, StandingSame
  <2>3. Unpublished(t)'
    BY <1>1, <1>5, NameAssumption DEF Unpublished
  <2>4. Carried(t)'
    BY <1>5, <1>10, <1>12 DEF Carried
  <2> QED
    BY <2>1, <2>2, <2>3, <2>4
<1>15. WorkersInv'
  <2> SUFFICES ASSUME NEW v \in Workers, v # w
               PROVE  (Placed(v, worker[v]) /\ Standing(worker[v])
                       /\ Unpublished(worker[v]) /\ Carried(worker[v]))'
    BY <1>7, <1>14 DEF WorkersInv
  <2> PICK s \in WorkerType : s = worker[v] /\ s = worker'[v]
    BY <1>3, <1>7
  <2>1. Placed(v, s) /\ Standing(s) /\ Unpublished(s) /\ Carried(s)
    BY DEF IInv, WorkersInv
  <2>2. Placed(v, s)'
    BY <1>2, <2>1 DEF Placed
  <2>3. Standing(s)'
    BY <1>2, <2>1, StandingSame
  <2>4. Unpublished(s)'
    BY <1>2, <1>11, <2>1 DEF Unpublished
  <2>5. Carried(s)'
    <3>1. s.pc \in Active => s.exe # e
      BY <1>2, <1>9 DEF IInv, OneActive, Active, Producing
    <3>2. s.pc \in Active /\ s.req \in Documents => start[s.req] = s.exe
      BY <2>1 DEF Placed, IInv, Controlled, Active, Producing
    <3>3. s.pc \in {"starting", "performing", "suspending"} => s.req # r
      BY <1>9, <3>1, <3>2 DEF Active, Producing
    <3> QED
      BY <1>12, <2>1, <3>3 DEF Carried
  <2> QED
    BY <2>2, <2>3, <2>4, <2>5
<1>16. OneActive'
  BY <1>2, <1>5, <1>7 DEF IInv, OneActive
<1>17. Controlled'
  BY <1>2, <1>9, <1>11, <1>12, NameAssumption DEF IInv, Controlled
<1>18. Recorded'
  <2>1. ASSUME NEW f \in Executions, Status(f) = "checkpoint", owner[f] \in Documents PROVE owner[f] # r
    BY <1>9, <1>10, <2>1 DEF IInv, Controlled
  <2> QED
    BY <1>2, <1>11, <1>12, <2>1 DEF IInv, Recorded
<1>19. WithinBudget'
  BY <1>2, <1>10, <1>12, SizeAssumption DEF IInv, WithinBudget
<1> QED
  BY <1>13, <1>15, <1>16, <1>17, <1>18, <1>19 DEF IInv

\* A result is staged by the one worker that is active on the attempt, which is
\* neither suspended nor journaled.
LEMMA ResultStep ==
    ASSUME IInv, NEW w \in Workers, NEW t \in WorkerType, NEW e \in Executions,
           NEW status \in {"success", "failure"},
           worker[w].pc \in Producing, e = worker[w].exe,
           worker' = [worker EXCEPT ![w] = t],
           t.pc = (IF status = "success" THEN "staged" ELSE "failed"),
           t.req = worker[w].req, t.exe = e,
           result' = [result EXCEPT ![e] = status],
           outcome' \in [Executions -> StateType],
           UNCHANGED <<owner, start, began, progress, retained, gone, kept, head, selected, lock, spent>>
    PROVE  IInv'
<1>1. /\ worker'[w] = t
      /\ \A v \in Workers : v # w => worker'[v] = worker[v]
      /\ worker \in [Workers -> WorkerType]
  BY DEF IInv, TypeOK, WorkerType
<1>2. result'[e] = status /\ \A f \in Executions : f # e => result'[f] = result[f]
  BY DEF IInv, TypeOK
<1>3. Placed(w, worker[w]) /\ Standing(worker[w]) /\ Unpublished(worker[w])
  BY DEF IInv, WorkersInv
<1>4. Status(e) = "started" /\ ~Journaled(e) /\ owner[e] \in Requests
  BY <1>3 DEF Standing, Placed, Active, Producing
<1>5. \A f \in Executions : (Status(f)' = Status(f)) /\ (Journaled(f)' <=> Journaled(f))
  BY DEF Status, Journaled, Kinds
<1>6. t.pc \in {"staged", "failed"} /\ worker[w].pc \in Active /\ t.pc \in Active
  BY DEF Active, Producing
<1>7. TypeOK'
  BY <1>1 DEF IInv, TypeOK, WorkerType
<1>8. WorkersInv'
  <2>1. Placed(w, t)'
    BY <1>3, <1>6 DEF Placed, Producing
  <2>2. Standing(t)'
    BY <1>2, <1>4, <1>5, <1>6 DEF Standing, Active, Producing
  <2>3. Unpublished(t)'
    BY <1>3, <1>5, <1>6 DEF Unpublished
  <2>4. Carried(t)'
    BY <1>6 DEF Carried
  <2> SUFFICES ASSUME NEW v \in Workers, v # w
               PROVE  (Placed(v, worker[v]) /\ Standing(worker[v])
                       /\ Unpublished(worker[v]) /\ Carried(worker[v]))'
    BY <1>1, <2>1, <2>2, <2>3, <2>4 DEF WorkersInv
  <2> PICK s \in WorkerType : s = worker[v] /\ s = worker'[v]
    BY <1>1
  <2>5. Placed(v, s) /\ Standing(s) /\ Unpublished(s) /\ Carried(s)
    BY DEF IInv, WorkersInv
  <2>6. Standing(s)'
    <3>1. s.pc \in Active => s.exe # e
      BY <1>6 DEF IInv, OneActive
    <3>2. s.pc \notin {"idle", "fresh"} => s.exe \in Executions
      BY <2>5 DEF Placed
    <3>3. s.pc \in Active => result'[s.exe] = result[s.exe]
      BY <1>2, <3>1, <3>2 DEF Active, Producing
    <3> QED
      BY <1>5, <2>5, <3>2, <3>3 DEF Standing, Active, Producing
  <2>7. Placed(v, s)' /\ Unpublished(s)' /\ Carried(s)'
    BY <1>5, <2>5 DEF Placed, Unpublished, Carried
  <2> QED
    BY <2>6, <2>7
<1>9. OneActive'
  BY <1>1, <1>6 DEF IInv, OneActive
<1>10. Controlled' /\ Recorded'
  BY <1>2, <1>4, <1>5, NameAssumption DEF IInv, Controlled, Recorded
<1>11. WithinBudget'
  BY DEF IInv, WithinBudget
<1> QED
  BY <1>7, <1>8, <1>9, <1>10, <1>11 DEF IInv

\* A failure is staged.
LEMMA StageFailureInv ==
    ASSUME IInv, NEW w \in Workers, StageFailure(w)
    PROVE  IInv'
<1>1. /\ worker[w].pc = "failing"
      /\ Goto(w, "failed") /\ "failed" \in PCs
      /\ result' = [result EXCEPT ![worker[w].exe] = "failure"]
      /\ UNCHANGED <<owner, start, began, progress, outcome, retained, gone, kept, head, selected, lock, spent>>
  BY DEF StageFailure, At, PCs
<1>2. PICK e \in Executions : e = worker[w].exe
  BY <1>1 DEF IInv, WorkersInv, Placed
<1>3. PICK t \in WorkerType :
        /\ worker' = [worker EXCEPT ![w] = t]
        /\ t.pc = "failed" /\ t.req = worker[w].req /\ t.exe = worker[w].exe
  BY <1>1, GotoEffect DEF IInv
<1>4. worker[w].pc \in Producing /\ outcome' \in [Executions -> StateType]
  BY <1>1 DEF Producing, IInv, TypeOK
<1> QED
  BY <1>1, <1>2, <1>3, <1>4, ResultStep

\* The completed records are staged.
LEMMA StageOutputsInv ==
    ASSUME IInv, NEW w \in Workers, StageOutputs(w)
    PROVE  IInv'
<1>1. /\ worker[w].pc = "prepared"
      /\ Goto(w, "staged") /\ "staged" \in PCs
      /\ result' = [result EXCEPT ![worker[w].exe] = "success"]
      /\ outcome' = [outcome EXCEPT ![worker[w].exe] = worker[w].state]
      /\ UNCHANGED <<owner, start, began, progress, retained, gone, kept, head, selected, lock, spent>>
  BY DEF StageOutputs, At, PCs
<1>2. PICK e \in Executions : e = worker[w].exe
  BY <1>1 DEF IInv, WorkersInv, Placed
<1>3. PICK t \in WorkerType :
        /\ worker' = [worker EXCEPT ![w] = t]
        /\ t.pc = "staged" /\ t.req = worker[w].req /\ t.exe = worker[w].exe
  BY <1>1, GotoEffect DEF IInv
<1>4. worker[w].pc \in Producing /\ outcome' \in [Executions -> StateType]
  BY <1>1 DEF Producing, IInv, TypeOK
<1> QED
  BY <1>1, <1>2, <1>3, <1>4, ResultStep

\* Every step preserves the invariant.
LEMMA NextInv == IInv /\ [Next]_vars => IInv'
<1> SUFFICES ASSUME IInv, [Next]_vars PROVE IInv'
  OBVIOUS
<1>1. ASSUME NEW w \in Workers, NEW b \in Batches, RunOnce(w, b) PROVE IInv'
  BY <1>1, RunOnceInv
<1>2. ASSUME NEW w \in Workers, NEW r \in Documents, RunDocument(w, r) PROVE IInv'
  BY <1>2, RunDocumentInv
<1>3. ASSUME NEW w \in Workers, Attempt(w) PROVE IInv'
  <2>1. ASSUME NEW e \in Executions, Start(w, e) PROVE IInv'
    BY <2>1, StartInv
  <2>2. CASE RecordStarted(w) \/ ReadCheckpoint(w) \/ Claim(w)
    BY <2>2, RecordStartedInv, ReadCheckpointInv, ClaimInv
  <2>3. CASE Work(w) \/ ProducerError(w) \/ ProducerDone(w)
    BY <2>3, WorkInv, ProducerErrorInv, ProducerDoneInv
  <2>4. CASE SaveCheckpoint(w) \/ CheckpointError(w) \/ StageFailure(w) \/ RecordFailed(w)
    BY <2>4, SaveCheckpointInv, CheckpointErrorInv, StageFailureInv, RecordFailedInv
  <2>5. CASE StageOutputs(w) \/ Journal(w) \/ Recover(w) \/ PublishJournal(w)
    BY <2>5, StageOutputsInv, JournalInv, RecoverInv, PublishJournalInv
  <2>6. CASE PublicationInterrupted(w) \/ SelectCurrent(w)
    BY <2>6, PublicationInterruptedInv, SelectCurrentInv
  <2> QED
    BY <1>3, <2>1, <2>2, <2>3, <2>4, <2>5, <2>6 DEF Attempt
<1>4. ASSUME NEW w \in Workers, Crash(w) PROVE IInv'
  BY <1>4, CrashInv
<1>5. ASSUME NEW e \in Executions, RemoveResult(e) PROVE IInv'
  BY <1>5, RemoveResultInv
<1>6. CASE UNCHANGED vars
  BY <1>6 DEF vars, ledger, records, IInv, TypeOK, WorkersInv, OneActive, Controlled, Recorded,
     WithinBudget, Placed, Standing, Unpublished, Carried, Status, Journaled, Kinds
<1> QED
  BY <1>1, <1>2, <1>3, <1>4, <1>5, <1>6 DEF Next

\* The inductive invariant holds in every reachable state.
LEMMA Invariance == Spec => []IInv
BY InitInv, NextInv, PTL DEF Spec

-----------------------------------------------------------------------------
(* The theorems                                                             *)

\* Executions, progress entries and saved states keep their types (core_execution.py).
THEOREM OperationsTypeCorrect == Spec => []TypeOK
<1>1. IInv => TypeOK
  BY DEF IInv
<1> QED
  BY <1>1, Invariance, PTL

\* At most one of two values: a set within a singleton.
LEMMA AtMostOne ==
    ASSUME NEW S, \A x, y \in S : x = y
    PROVE  Cardinality(S) <= 1
<1>1. CASE S = {}
  BY <1>1, FS_EmptySet
<1>2. CASE S # {}
  <2>1. PICK x \in S : TRUE
    BY <1>2
  <2>2. S = {x}
    BY <2>1
  <2>3. Cardinality({x}) = 1
    BY FS_Singleton
  <2> QED
    BY <2>2, <2>3
<1> QED
  BY <1>1, <1>2

\* A document run has one controlling execution, however many processes start it
\* (run_document_operation in document_run.py, the start unit named after the run).
THEOREM DocumentRunControlled == Spec => []OneController
<1>1. IInv => OneController
  <2> SUFFICES ASSUME IInv, NEW r \in Documents PROVE Cardinality(Attempts(r)) <= 1
    BY DEF OneController
  <2>1. \A e, f \in Attempts(r) : e = f
    BY DEF IInv, Controlled, Attempts
  <2> QED
    BY <2>1, AtMostOne
<1> QED
  BY <1>1, Invariance, PTL

\* An attempt is performed by one process and its result staged once: the exclusive
\* claim of core_execution.resume, and the immutable result record.
THEOREM AttemptSettledOnce == Spec => []OneOutcome
<1>1. IInv => OneOutcome
  <2> SUFFICES ASSUME IInv PROVE OneOutcome
    OBVIOUS
  <2>1. OnePerformer
    BY DEF IInv, OneActive, OnePerformer, Active
  <2>2. \A w \in Workers : worker[w].pc \in {"failing", "prepared"} => result[worker[w].exe] = "none"
    BY DEF IInv, WorkersInv, Standing, Active, Producing
  <2>3. \A e \in Executions : Journaled(e) => result[e] = "success"
    BY DEF IInv, Recorded
  <2> QED
    BY <2>1, <2>2, <2>3 DEF OneOutcome
<1> QED
  BY <1>1, Invariance, PTL

\* A retried batch completes once: run_once under its request lock.
THEOREM BatchCompletedOnce == Spec => []CompletedOnce
<1>1. IInv => CompletedOnce
  <2> SUFFICES ASSUME IInv, NEW b \in Batches
               PROVE  Cardinality({e \in Attempts(b) : Journaled(e)}) <= 1
    BY DEF CompletedOnce
  <2>1. \A e, f \in {g \in Attempts(b) : Journaled(g)} : e = f
    BY DEF IInv, Recorded, Attempts
  <2> QED
    BY <2>1, AtMostOne
<1> QED
  BY <1>1, Invariance, PTL

\* The cumulative limit bounds the work of a run over every failure, death and resume.
THEOREM WorkWithinBudget == Spec => []WithinBudget
<1>1. IInv => WithinBudget
  BY DEF IInv
<1> QED
  BY <1>1, Invariance, PTL

\* A run that can be resumed has counted all of its work (_save_checkpoint).
THEOREM CheckpointCountsWork == Spec => []CheckpointExact
<1>1. IInv => CheckpointExact
  <2> SUFFICES ASSUME IInv, NEW r \in Documents, NEW e \in Attempts(r), Suspended(e)
               PROVE  progress[e][Len(progress[e])].state.work = spent[r]
    BY DEF CheckpointExact
  <2>1. e \in Executions /\ owner[e] = r /\ Status(e) = "checkpoint"
    BY DEF Attempts, Suspended, Status
  <2> QED
    BY <2>1 DEF IInv, Recorded
<1> QED
  BY <1>1, Invariance, PTL

-----------------------------------------------------------------------------
(* The head at the start                                                    *)

\* What a worker carries is the head of the start: what the driver of a document run
\* read, or what the caller of a batch named.
CarriedHead(t) ==
    /\ t.pc = "fresh" =>
         t.state.expected = IF t.req \in Documents THEN t.looked ELSE Base[t.req]
    /\ t.pc \in {"starting", "performing", "suspending", "prepared"} =>
         t.state.expected = Target(t.req)

HeadCarried == \A w \in Workers : CarriedHead(worker[w])

\* So is what a checkpoint saves,
HeadSaved ==
    \A e \in Executions : \A i \in 1 .. Len(progress[e]) :
        progress[e][i].kind = "checkpoint" => progress[e][i].state.expected = Target(owner[e])

\* and what a successful result was given; only those are retained.
HeadStaged ==
    /\ \A e \in Executions : result[e] = "success" => outcome[e].expected = Target(owner[e])
    /\ \A e \in retained : result[e] = "success"

StartFixed == HeadCarried /\ HeadSaved /\ HeadStaged

\* One worker moves, and no start unit is committed.
LEMMA CarriedStep ==
    ASSUME TypeOK, HeadCarried, NEW w \in Workers, NEW t \in WorkerType,
           worker' = [worker EXCEPT ![w] = t], UNCHANGED <<owner, began>>, CarriedHead(t)
    PROVE  HeadCarried'
<1>1. worker'[w] = t /\ \A v \in Workers : v # w => worker'[v] = worker[v]
  BY DEF TypeOK
<1>2. \A r : Target(r)' = Target(r)
  BY DEF Target
<1>3. ASSUME NEW v \in Workers PROVE CarriedHead(worker[v])'
  <2>1. PICK s : s = worker'[v]
    OBVIOUS
  <2>2. CarriedHead(s)
    BY <1>1, <2>1 DEF HeadCarried
  <2> QED
    BY <1>2, <2>1, <2>2 DEF CarriedHead
<1> QED
  BY <1>3 DEF HeadCarried

\* An entry is added that is no checkpoint, or one that saves the head of the start.
LEMMA SavedStep ==
    ASSUME TypeOK, HeadSaved, NEW e \in Executions, NEW state \in StateType,
           NEW kind \in {"started", "checkpoint", "failed", "publication", "interrupted"},
           Append1(e, kind, state), UNCHANGED <<owner, began>>,
           kind = "checkpoint" => state.expected = Target(owner[e])
    PROVE  HeadSaved'
<1>1. /\ \A f \in Executions : f # e => progress'[f] = progress[f]
      /\ Len(progress'[e]) = Len(progress[e]) + 1
      /\ \A i \in 1 .. Len(progress[e]) : progress'[e][i] = progress[e][i]
      /\ progress'[e][Len(progress[e]) + 1] = Entry(kind, state)
      /\ Len(progress[e]) \in Nat
  BY AppendEffect DEF TypeOK
<1>2. \A r : Target(r)' = Target(r)
  BY DEF Target
<1>3. ASSUME NEW f \in Executions, NEW i \in 1 .. Len(progress'[f]), progress'[f][i].kind = "checkpoint"
      PROVE  progress'[f][i].state.expected = Target(owner[f])'
  <2>1. CASE f # e \/ i \in 1 .. Len(progress[e])
    BY <1>1, <1>2, <1>3, <2>1 DEF HeadSaved
  <2>2. CASE f = e /\ i = Len(progress[e]) + 1
    BY <1>1, <1>2, <1>3, <2>2 DEF Entry
  <2> QED
    BY <1>1, <2>1, <2>2
<1> QED
  BY <1>3 DEF HeadSaved

\* A worker moves to a point where it needs no head any more, or keeps what it has.
LEMMA GotoCarried ==
    ASSUME IInv, HeadCarried, NEW w \in Workers, NEW pc \in PCs, Goto(w, pc),
           UNCHANGED <<owner, began>>,
           \/ pc \notin {"fresh", "starting", "performing", "suspending", "prepared"}
           \/ /\ pc \in {"performing", "suspending", "prepared"}
              /\ worker[w].pc \in {"starting", "performing"}
    PROVE  HeadCarried'
<1>1. PICK t \in WorkerType :
        /\ worker' = [worker EXCEPT ![w] = t]
        /\ t.pc = pc /\ t.req = worker[w].req /\ t.state = worker[w].state
  BY GotoEffect DEF IInv
<1>2. CarriedHead(t)
  BY <1>1 DEF HeadCarried, CarriedHead
<1> QED
  BY <1>1, <1>2, CarriedStep DEF IInv

LEMMA LeaveCarried ==
    ASSUME IInv, HeadCarried, NEW w \in Workers, Leave(w), UNCHANGED <<owner, began>>
    PROVE  HeadCarried'
<1>1. Resting \in WorkerType /\ worker' = [worker EXCEPT ![w] = Resting]
  BY LeaveEffect DEF IInv
<1>2. CarriedHead(Resting)
  BY DEF CarriedHead, Resting
<1> QED
  BY <1>1, <1>2, CarriedStep DEF IInv

\* Steps that leave results, or histories, alone.
LEMMA StagedSame ==
    ASSUME HeadStaged, UNCHANGED <<owner, began, result, outcome, retained>>
    PROVE  HeadStaged'
BY DEF HeadStaged, Target

LEMMA SavedSame ==
    ASSUME HeadSaved, UNCHANGED <<owner, began, progress>>
    PROVE  HeadSaved'
BY DEF HeadSaved, Target

\* A driver reads the head as it enters a fresh attempt.
LEMMA EnterStart ==
    ASSUME IInv, StartFixed, NEW w \in Workers,
           \/ \E b \in Batches : RunOnce(w, b)
           \/ \E r \in Documents : RunDocument(w, r)
    PROVE  StartFixed'
<1>1. UNCHANGED <<owner, began, progress, result, outcome, retained>>
  BY DEF RunOnce, RunDocument, ledger, records
<1>2. \A r \in Requests : NoState \in StateType /\ Fresh(r) \in StateType
  BY NameAssumption DEF NoState, Fresh, StateType, IInv, TypeOK, Requests
<1>4. PICK r \in Requests, e \in Executions \cup {None}, pc \in {"fresh", "recovering", "resuming"},
           state \in StateType :
        Enter(w, r, e, pc, state) /\ (pc = "fresh" => state = Fresh(r))
  <2>1. ASSUME NEW b \in Batches, RunOnce(w, b)
        PROVE  \E e \in Executions \cup {None}, pc \in {"fresh", "recovering"}, state \in StateType :
                 Enter(w, b, e, pc, state) /\ (pc = "fresh" => state = Fresh(b))
    BY <1>2, <2>1 DEF RunOnce, Attempts, Requests
  <2>2. ASSUME NEW d \in Documents, RunDocument(w, d)
        PROVE  \E e \in Executions \cup {None}, pc \in {"fresh", "recovering", "resuming"},
                  state \in StateType :
                 Enter(w, d, e, pc, state) /\ (pc = "fresh" => state = Fresh(d))
    BY <1>2, <2>2 DEF RunDocument, Attempts, Requests
  <2> QED
    BY <2>1, <2>2 DEF Requests
<1>3. PICK t : t = [pc |-> pc, req |-> r, exe |-> e, seen |-> 0, state |-> state,
                    looked |-> IF pc = "fresh" THEN head ELSE None]
  OBVIOUS
<1>5. t \in WorkerType
  BY <1>3, <1>4 DEF WorkerType, PCs, IInv, TypeOK
<1>6. worker' = [worker EXCEPT ![w] = t]
  BY <1>3, <1>4 DEF Enter
<1>7. CarriedHead(t)
  BY <1>3, <1>4 DEF CarriedHead, Fresh
<1> QED
  BY <1>1, <1>5, <1>6, <1>7, CarriedStep, StagedSame, SavedSame DEF IInv, StartFixed

\* The start unit commits the first attempt of a document run: nothing that names the
\* run's target was there before, and from now on it is what its driver found.
LEMMA StartStart ==
    ASSUME IInv, StartFixed, NEW w \in Workers, NEW e \in Executions, Start(w, e)
    PROVE  StartFixed'
<1>1. PICK r \in Requests : r = worker[w].req
  BY DEF IInv, WorkersInv, Placed, Start, At
<1>2. /\ worker[w].pc = "fresh" /\ owner[e] = None
      /\ r \in Documents => start[r] = None
      /\ owner' = [owner EXCEPT ![e] = r]
      /\ r \in Documents => began' = [began EXCEPT ![r] = worker[w].looked]
      /\ r \notin Documents => began' = began
      /\ worker' = [worker EXCEPT ![w].exe = e, ![w].pc = "starting"]
      /\ UNCHANGED <<progress, result, outcome, retained>>
  BY <1>1 DEF Start, At
<1>3. owner'[e] = r /\ \A f \in Executions : f # e => owner'[f] = owner[f]
  BY <1>2 DEF IInv, TypeOK
<1>4. Target(r)' = worker[w].state.expected
  <2>1. worker[w].state.expected = IF r \in Documents THEN worker[w].looked ELSE Base[r]
    BY <1>1, <1>2 DEF StartFixed, HeadCarried, CarriedHead
  <2> QED
    BY <1>2, <2>1 DEF Target, IInv, TypeOK
<1>5. \A q : q # r => Target(q)' = Target(q)
  BY <1>2 DEF Target, IInv, TypeOK
<1>6. r \in Documents => \A f \in Executions : owner[f] # r
  BY <1>2, NameAssumption DEF IInv, Controlled
<1>7. r \notin Documents => Target(r)' = Target(r)
  BY <1>2 DEF Target
<1>8. \A f \in Executions : f # e => Target(owner[f])' = Target(owner[f])
  BY <1>3, <1>5, <1>6, <1>7
<1>9. progress[e] = <<>> /\ result[e] = "none"
  <2>1. Status(e) = "none" /\ result[e] = "none"
    BY <1>2 DEF IInv, Controlled
  <2>2. progress[e] \in Seq(EntryType)
    BY DEF IInv, TypeOK
  <2>3. progress[e] # <<>> => progress[e][Len(progress[e])].kind # "none"
    <3>1. progress[e] # <<>> => progress[e][Len(progress[e])] \in EntryType
      BY <2>2
    <3> QED
      BY <3>1 DEF EntryType
  <2> QED
    BY <2>1, <2>3 DEF Status
<1>10. HeadSaved'
  <2>1. ASSUME NEW f \in Executions, NEW i \in 1 .. Len(progress'[f]), progress'[f][i].kind = "checkpoint"
        PROVE  progress'[f][i].state.expected = Target(owner[f])'
    <3>1. f # e
      BY <1>2, <1>9, <2>1
    <3> QED
      BY <1>2, <1>8, <2>1, <3>1 DEF StartFixed, HeadSaved
  <2> QED
    BY <2>1 DEF HeadSaved
<1>11. HeadStaged'
  BY <1>2, <1>8, <1>9 DEF StartFixed, HeadStaged
<1>12. HeadCarried'
  <2>1. ASSUME NEW v \in Workers PROVE CarriedHead(worker[v])'
    <3>1. PICK s : s = worker[v]
      OBVIOUS
    <3>2. CarriedHead(s) /\ Placed(v, s)
      BY <3>1 DEF StartFixed, HeadCarried, IInv, WorkersInv
    <3>3. CASE v = w
      <4>1. /\ worker'[v].pc = "starting" /\ worker'[v].req = r
            /\ worker'[v].state = worker[w].state
        BY <1>1, <1>2, <3>3 DEF IInv, TypeOK
      <4> QED
        BY <1>4, <4>1 DEF CarriedHead
    <3>4. CASE v # w
      <4>1. worker'[v] = s
        BY <1>2, <3>1, <3>4 DEF IInv, TypeOK
      <4>2. s.pc \in {"starting", "performing", "suspending", "prepared"} =>
              Target(s.req)' = Target(s.req)
        BY <1>5, <1>6, <1>7, <3>2 DEF Placed
      <4> QED
        BY <3>2, <4>1, <4>2 DEF CarriedHead
    <3> QED
      BY <3>3, <3>4
  <2> QED
    BY <2>1 DEF HeadCarried
<1> QED
  BY <1>10, <1>11, <1>12 DEF StartFixed

\* A claimed checkpoint is the one that was read, and it saved the head of the start.
LEMMA ResumeStart ==
    ASSUME IInv, StartFixed, NEW w \in Workers, ReadCheckpoint(w) \/ Claim(w)
    PROVE  StartFixed'
<1>1. UNCHANGED <<owner, began, result, outcome, retained>>
  BY DEF ReadCheckpoint, Claim, ledger, records
<1>2. CASE ReadCheckpoint(w)
  <2>1. PICK n, state : worker' = [worker EXCEPT ![w].seen = n, ![w].state = state, ![w].pc = "claiming"]
    BY <1>2 DEF ReadCheckpoint
  <2>2. UNCHANGED progress
    BY <1>2 DEF ReadCheckpoint, ledger
  <2>3. ASSUME NEW v \in Workers PROVE CarriedHead(worker[v])'
    <3>1. CASE v = w
      <4>1. worker'[v].pc = "claiming"
        BY <2>1, <3>1 DEF IInv, TypeOK
      <4> QED
        BY <4>1 DEF CarriedHead
    <3>2. CASE v # w
      <4>1. worker'[v] = worker[v]
        BY <2>1, <3>2 DEF IInv, TypeOK
      <4> QED
        BY <1>1, <4>1 DEF StartFixed, HeadCarried, CarriedHead, Target
    <3> QED
      BY <3>1, <3>2
  <2> QED
    BY <1>1, <2>2, <2>3, StagedSame, SavedSame DEF StartFixed, HeadCarried
<1>3. CASE Claim(w)
  <2>1. /\ worker[w].pc = "claiming"
        /\ Append1(worker[w].exe, "started", NoState)
        /\ Goto(w, "performing") /\ "performing" \in PCs
    BY <1>3 DEF Claim, At, PCs
  <2>2. PICK e \in Executions : e = worker[w].exe /\ owner[e] = worker[w].req
    BY <2>1 DEF IInv, WorkersInv, Placed
  <2>3. /\ worker[w].seen \in 1 .. Len(progress[e])
        /\ progress[e][worker[w].seen] = Entry("checkpoint", worker[w].state)
    BY <2>1, <2>2 DEF IInv, WorkersInv, Standing
  <2>4. worker[w].state.expected = Target(worker[w].req)
    BY <2>2, <2>3 DEF StartFixed, HeadSaved, Entry
  <2>5. PICK t \in WorkerType :
          /\ worker' = [worker EXCEPT ![w] = t]
          /\ t.pc = "performing" /\ t.req = worker[w].req /\ t.state = worker[w].state
    BY <2>1, GotoEffect DEF IInv
  <2>6. CarriedHead(t)
    BY <2>4, <2>5 DEF CarriedHead
  <2>7. HeadCarried'
    BY <1>1, <2>5, <2>6, CarriedStep DEF IInv, StartFixed
  <2>8. NoState \in StateType
    BY DEF NoState, StateType
  <2>9. HeadSaved'
    BY <1>1, <2>1, <2>2, <2>8, SavedStep DEF IInv, StartFixed
  <2> QED
    BY <1>1, <2>7, <2>9, StagedSame DEF StartFixed
<1> QED
  BY <1>2, <1>3

\* The other steps of a producer keep what the worker carries.
LEMMA PerformStart ==
    ASSUME IInv, StartFixed, NEW w \in Workers,
           Work(w) \/ ProducerError(w) \/ ProducerDone(w) \/ CheckpointError(w) \/ Recover(w)
    PROVE  StartFixed'
<1>1. UNCHANGED <<owner, began, progress, result, outcome, retained>>
  BY DEF Work, ProducerError, ProducerDone, CheckpointError, Recover, ledger, records
<1>2. HeadCarried'
  <2>1. CASE Work(w)
    <3>1. PICK total \in Nat : worker' = [worker EXCEPT ![w].state.work = total]
      <4>1. worker' = [worker EXCEPT ![w].state.work = worker[w].state.work + 1]
        BY <2>1 DEF Work
      <4>2. worker[w].state.work + 1 \in Nat
        BY DEF IInv, TypeOK, StateType
      <4> QED
        BY <4>1, <4>2
    <3>2. PICK t : t = [worker[w] EXCEPT !.state.work = total]
      OBVIOUS
    <3>3. worker[w] \in WorkerType
      BY DEF IInv, TypeOK, WorkerType
    <3>4. /\ t \in WorkerType /\ t.pc = worker[w].pc /\ t.req = worker[w].req
          /\ t.looked = worker[w].looked /\ t.state.expected = worker[w].state.expected
      BY <3>1, <3>2, <3>3 DEF WorkerType, StateType
    <3>5. worker' = [worker EXCEPT ![w] = t]
      BY <3>1, <3>2 DEF IInv, TypeOK
    <3>6. CarriedHead(t)
      BY <3>4 DEF StartFixed, HeadCarried, CarriedHead
    <3> QED
      BY <1>1, <3>4, <3>5, <3>6, CarriedStep DEF IInv, StartFixed
  <2>2. CASE ProducerError(w) \/ ProducerDone(w)
    <3>1. PICK pc \in {"suspending", "failing", "prepared"} : Goto(w, pc) /\ worker[w].pc = "performing"
      BY <2>2 DEF ProducerError, ProducerDone, At
    <3>2. pc \in PCs
      BY DEF PCs
    <3> QED
      BY <1>1, <3>1, <3>2, GotoCarried DEF StartFixed
  <2>3. CASE CheckpointError(w) \/ Recover(w)
    <3>1. PICK pc \in {"failing", "published", "journaled"} : Goto(w, pc)
      BY <2>3 DEF CheckpointError, Recover
    <3>2. pc \in PCs
      BY DEF PCs
    <3> QED
      BY <1>1, <3>1, <3>2, GotoCarried DEF StartFixed
  <2> QED
    BY <2>1, <2>2, <2>3
<1> QED
  BY <1>1, <1>2, StagedSame, SavedSame DEF StartFixed

\* Progress entries: a checkpoint saves what its worker carries.
LEMMA EntryStart ==
    ASSUME IInv, StartFixed, NEW w \in Workers,
           RecordStarted(w) \/ SaveCheckpoint(w) \/ RecordFailed(w) \/ Journal(w)
             \/ PublicationInterrupted(w)
    PROVE  StartFixed'
<1>1. UNCHANGED <<owner, began, result, outcome, retained>>
  BY DEF RecordStarted, SaveCheckpoint, RecordFailed, Journal, PublicationInterrupted, records
<1>2. PICK e \in Executions : e = worker[w].exe /\ owner[e] = worker[w].req
  BY DEF RecordStarted, SaveCheckpoint, RecordFailed, Journal, PublicationInterrupted, At,
     IInv, WorkersInv, Placed
<1>3. NoState \in StateType
  BY DEF NoState, StateType
<1>4. HeadSaved'
  <2>1. CASE SaveCheckpoint(w)
    <3>1. Append1(e, "checkpoint", worker[w].state) /\ worker[w].pc = "suspending"
      BY <1>2, <2>1 DEF SaveCheckpoint, At
    <3>2. worker[w].state \in StateType
      BY DEF IInv, TypeOK
    <3>3. worker[w].state.expected = Target(owner[e])
      BY <1>2, <3>1 DEF StartFixed, HeadCarried, CarriedHead
    <3> QED
      BY <1>1, <3>1, <3>2, <3>3, SavedStep DEF IInv, StartFixed
  <2>2. CASE ~SaveCheckpoint(w)
    <3>1. PICK kind \in {"started", "failed", "publication", "interrupted"} : Append1(e, kind, NoState)
      BY <1>2, <2>2 DEF RecordStarted, RecordFailed, Journal, PublicationInterrupted
    <3> QED
      BY <1>1, <1>3, <3>1, SavedStep DEF IInv, StartFixed
  <2> QED
    BY <2>1, <2>2
<1>5. HeadCarried'
  <2>1. CASE RecordStarted(w) \/ Journal(w)
    <3>1. PICK pc \in {"performing", "journaled"} :
            Goto(w, pc) /\ (pc = "performing" => worker[w].pc = "starting")
      BY <2>1 DEF RecordStarted, Journal, At
    <3>2. pc \in PCs
      BY DEF PCs
    <3> QED
      BY <1>1, <3>1, <3>2, GotoCarried DEF StartFixed
  <2>2. CASE SaveCheckpoint(w) \/ RecordFailed(w) \/ PublicationInterrupted(w)
    <3>1. Leave(w)
      BY <2>2 DEF SaveCheckpoint, RecordFailed, PublicationInterrupted
    <3> QED
      BY <1>1, <3>1, LeaveCarried DEF StartFixed
  <2> QED
    BY <2>1, <2>2
<1> QED
  BY <1>1, <1>4, <1>5, StagedSame DEF StartFixed

\* Results: a success is given what its worker carries, and only it is retained.
LEMMA ResultStart ==
    ASSUME IInv, StartFixed, NEW w \in Workers,
           StageFailure(w) \/ StageOutputs(w) \/ PublishJournal(w)
    PROVE  StartFixed'
<1>1. UNCHANGED <<owner, began, progress>>
  BY DEF StageFailure, StageOutputs, PublishJournal
<1>2. PICK pc \in {"failed", "staged", "published"} : Goto(w, pc)
  BY DEF StageFailure, StageOutputs, PublishJournal
<1>3. pc \in PCs
  BY DEF PCs
<1>4. HeadCarried'
  BY <1>1, <1>2, <1>3, GotoCarried DEF StartFixed
<1>5. PICK e \in Executions : e = worker[w].exe /\ owner[e] = worker[w].req
  BY DEF StageFailure, StageOutputs, PublishJournal, At, IInv, WorkersInv, Placed
<1>6. \A r : Target(r)' = Target(r)
  BY <1>1 DEF Target
<1>7. HeadStaged'
  <2>1. CASE StageFailure(w)
    <3>1. /\ result[e] # "success" /\ result' = [result EXCEPT ![e] = "failure"]
          /\ UNCHANGED <<outcome, retained>>
      BY <1>5, <2>1 DEF StageFailure
    <3> QED
      BY <1>1, <1>6, <3>1 DEF StartFixed, HeadStaged, IInv, TypeOK
  <2>2. CASE StageOutputs(w)
    <3>1. /\ result' = [result EXCEPT ![e] = "success"]
          /\ outcome' = [outcome EXCEPT ![e] = worker[w].state]
          /\ UNCHANGED retained /\ worker[w].pc = "prepared"
      BY <1>5, <2>2 DEF StageOutputs, At
    <3>2. worker[w].state.expected = Target(owner[e])
      BY <1>5, <3>1 DEF StartFixed, HeadCarried, CarriedHead
    <3> QED
      BY <1>1, <1>6, <3>1, <3>2 DEF StartFixed, HeadStaged, IInv, TypeOK
  <2>3. CASE PublishJournal(w)
    <3>1. /\ retained' = retained \cup {e} /\ UNCHANGED <<result, outcome>>
          /\ worker[w].pc = "journaled"
      BY <1>5, <2>3 DEF PublishJournal, At
    <3>2. result[e] = "success"
      BY <1>5, <3>1 DEF IInv, WorkersInv, Standing, Recorded
    <3> QED
      BY <1>1, <1>6, <3>1, <3>2 DEF StartFixed, HeadStaged
  <2> QED
    BY <2>1, <2>2, <2>3
<1> QED
  BY <1>1, <1>4, <1>7, SavedSame DEF StartFixed

\* Selections, deaths and removals end an attempt or touch none of it.
LEMMA EndStart ==
    ASSUME IInv, StartFixed,
           \/ \E w \in Workers : SelectCurrent(w) \/ Crash(w)
           \/ \E e \in Executions : RemoveResult(e)
           \/ UNCHANGED vars
    PROVE  StartFixed'
<1>1. UNCHANGED <<owner, began, progress, result, outcome, retained>>
  BY DEF SelectCurrent, Crash, RemoveResult, vars, ledger, records
<1>2. HeadCarried'
  <2>1. ASSUME NEW w \in Workers, Leave(w) PROVE HeadCarried'
    BY <1>1, <2>1, LeaveCarried DEF StartFixed
  <2>2. CASE UNCHANGED worker
    BY <1>1, <2>2 DEF StartFixed, HeadCarried, CarriedHead, Target
  <2> QED
    BY <2>1, <2>2 DEF SelectCurrent, Crash, RemoveResult, vars
<1> QED
  BY <1>1, <1>2, StagedSame, SavedSame DEF StartFixed

\* The head of the start is carried through every suspension, death and resumption.
LEMMA StartKept == Spec => [](IInv /\ StartFixed)
<1>1. Init => StartFixed
  BY DEF Init, StartFixed, HeadCarried, CarriedHead, HeadSaved, HeadStaged, Resting
<1>2. IInv /\ StartFixed /\ [Next]_vars => StartFixed'
  <2> SUFFICES ASSUME IInv, StartFixed, [Next]_vars PROVE StartFixed'
    OBVIOUS
  <2>1. ASSUME NEW w \in Workers, Attempt(w) PROVE StartFixed'
    BY <2>1, StartStart, ResumeStart, PerformStart, EntryStart, ResultStart, EndStart DEF Attempt
  <2>2. ASSUME NEW w \in Workers,
               (\E b \in Batches : RunOnce(w, b)) \/ (\E r \in Documents : RunDocument(w, r))
        PROVE  StartFixed'
    BY <2>2, EnterStart
  <2>3. ASSUME (\E w \in Workers : Crash(w)) \/ (\E e \in Executions : RemoveResult(e)) \/ UNCHANGED vars
        PROVE  StartFixed'
    BY <2>3, EndStart
  <2> QED
    BY <2>1, <2>2, <2>3 DEF Next
<1> QED
  BY <1>1, <1>2, InitInv, NextInv, PTL DEF Spec

\* A selection moves the head only from the target that the run's first attempt found,
\* or that the batch's caller named, however often the attempt was suspended, killed
\* and resumed between (expected_current in document_run.py, through checkpoints).
THEOREM HeadMovesFromStart == Spec => HeadFromStart
<1>1. ASSUME IInv, StartFixed, [Next]_vars
      PROVE  [head' # head => /\ head = Target(head')
                              /\ \E e \in retained : owner[e] = head']_vars
  <2> SUFFICES ASSUME Next, head' # head
               PROVE  head = Target(head') /\ \E e \in retained : owner[e] = head'
    BY <1>1
  <2>1. ASSUME NEW w \in Workers, SelectCurrent(w)
        PROVE  head = Target(head') /\ \E e \in retained : owner[e] = head'
    <3>1. PICK e : e = worker[w].exe
      OBVIOUS
    <3>2. e \in Executions /\ owner[e] = worker[w].req /\ e \in retained
      BY <1>1, <2>1, <3>1 DEF SelectCurrent, At, IInv, WorkersInv, Placed, Standing
    <3>3. head' = worker[w].req /\ head = outcome[e].expected
      BY <2>1, <3>1 DEF SelectCurrent
    <3>4. outcome[e].expected = Target(owner[e])
      BY <1>1, <3>2 DEF StartFixed, HeadStaged
    <3> QED
      BY <3>2, <3>3, <3>4
  <2>2. \E w \in Workers : SelectCurrent(w)
    <3>1. ASSUME NEW w \in Workers, Attempt(w), ~SelectCurrent(w) PROVE FALSE
      BY <3>1 DEF Attempt, Start, RecordStarted, ReadCheckpoint, Claim, Work, ProducerError,
         ProducerDone, SaveCheckpoint, CheckpointError, StageFailure, RecordFailed, StageOutputs,
         Journal, Recover, PublishJournal, PublicationInterrupted, ledger, records
    <3>2. ASSUME NEW w \in Workers,
                 Crash(w) \/ (\E b \in Batches : RunOnce(w, b)) \/ (\E r \in Documents : RunDocument(w, r))
          PROVE  FALSE
      BY <3>2 DEF Crash, RunOnce, RunDocument, ledger, records
    <3>3. ASSUME NEW e \in Executions, RemoveResult(e) PROVE FALSE
      BY <3>3 DEF RemoveResult
    <3> QED
      BY <3>1, <3>2, <3>3 DEF Next
  <2> QED
    BY <2>1, <2>2
<1> QED
  BY <1>1, StartKept, PTL DEF Spec, HeadFromStart
=============================================================================
