------------------------------ MODULE MCRecords ------------------------------
(***************************************************************************)
(* Layers, producer tables and table-shaped states, each from its own      *)
(* initial state.  Three generations of one table, published as one file   *)
(* or split: rows change, go and come back, and the last has other         *)
(* columns; and artifacts of the same shapes with one thing wrong.         *)
(***************************************************************************)
EXTENDS Records, Registration, Generation, TLC

CONSTANTS k1, k2, v1, v2, c1, c2

VARIABLE part   \* the component this behaviour is about

allvars == <<part, vars, rvars, gvars>>

MCBucketOf == (v1 :> 0) @@ (v2 :> 1)
Symmetry == Permutations({k1, k2}) \cup Permutations({c1, c2})

-----------------------------------------------------------------------------
TableRow(k, val, p) == [key |-> k, val |-> val, part |-> p]
Group(low, high) == [low |-> low, high |-> high, nulls |-> 0]
Bytes(columns, rows, groups) == [columns |-> columns, rows |-> rows, groups |-> groups]

Receipt(id, t, row) ==
    [id |-> id, table |-> t, key |-> row.key, version |-> row, outcome |-> "accepted", sound |-> TRUE]

One == TableRow(1, 1, 1)
Two == TableRow(2, 1, 2)
OneAgain == TableRow(1, 2, 1)
Three == TableRow(3, 1, 2)

MCGBytes ==
    ("both" :> Bytes(1, <<One, Two>>, <<>>))
    @@ ("left" :> Bytes(1, <<OneAgain>>, <<Group(1, 1)>>))
    @@ ("right" :> Bytes(1, <<Three>>, <<>>))
    @@ ("stray" :> Bytes(1, <<Two>>, <<Group(1, 2)>>))
    @@ ("wide" :> Bytes(2, <<One, Three>>, <<>>))
    @@ ("twice" :> Bytes(1, <<One, One>>, <<>>))
    @@ ("none" :> Bytes(1, <<>>, <<>>))
    @@ ("joined" :> Bytes(0, <<Receipt(1, "t", OneAgain), Receipt(2, "t", Three)>>, <<>>))
    @@ ("partly" :> Bytes(0, <<Receipt(1, "t", OneAgain)>>, <<>>))
    @@ ("stale" :> Bytes(0, <<Receipt(1, "t", [OneAgain EXCEPT !.val = 9]), Receipt(2, "t", Three)>>, <<>>))
    @@ ("spare" :> Bytes(0, <<Receipt(1, "t", OneAgain), Receipt(2, "t", Three), Receipt(3, "t", Two)>>, <<>>))
    @@ ("again" :> Bytes(0, <<Receipt(1, "t", OneAgain), Receipt(2, "t", Three), Receipt(3, "t", Three)>>, <<>>))
    @@ ("alike" :> Bytes(0, <<Receipt(1, "t", OneAgain), Receipt(1, "t", Three)>>, <<>>))
    @@ ("noted" :> Bytes(0, <<Receipt(1, "t", OneAgain), Receipt(2, "t", Three),
                              [Receipt(3, "t", Two) EXCEPT !.outcome = "refused", !.version = Blank]>>, <<>>))
    @@ ("forged" :> Bytes(0, <<Receipt(1, "t", OneAgain), [Receipt(2, "t", Three) EXCEPT !.sound = FALSE]>>, <<>>))
    @@ ("claimed" :> Bytes(0, <<Receipt(1, "t", OneAgain), Receipt(2, "t", Three),
                                [Receipt(3, "t", Two) EXCEPT !.outcome = "refused"]>>, <<>>))
    @@ ("covering" :> Bytes(0, <<Receipt(1, "t", One), Receipt(2, "t", Two)>>, <<>>))
    @@ ("single" :> Bytes(0, <<Receipt(1, "t", One)>>, <<>>))

Of(t, p, digest) ==
    [table |-> t, part |-> p, digest |-> digest, count |-> Len(MCGBytes[digest].rows),
     size |-> Len(MCGBytes[digest].rows)]

Listed(x) == [x EXCEPT !.index = IndexOf(x)]

Artifact(described, members, policies) ==
    Listed([complete |-> TRUE, tables |-> [t \in {"t"} |-> described], members |-> members,
            policies |-> policies, index |-> Blank])

Described(rows, columns, split) == [rows |-> rows, columns |-> columns, split |-> split, key |-> "value/1"]
Policies == [t \in {"t"} |-> [key |-> "native-tuple/1", receiptOnly |-> FALSE]]

Plain(digest, columns) == Artifact(Described(Len(MCGBytes[digest].rows), columns, FALSE), <<Of("t", Blank, digest)>>, Blank)
Split(left, right, receipts) ==
    Artifact(Described(2, 1, TRUE), <<Of(ReceiptKey, Blank, receipts), Of("t", 1, left), Of("t", 2, right)>>, Policies)
Receipted(digest, receipts) ==
    Artifact(Described(Len(MCGBytes[digest].rows), 1, FALSE), <<Of(ReceiptKey, Blank, receipts), Of("t", Blank, digest)>>, Policies)

Keyed(x) == Listed([x EXCEPT !.tables["t"].key = "native-tuple/1"])

MCGArtifact ==
    ("g1" :> Receipted("both", "covering"))
    @@ ("g2" :> Split("left", "right", "joined"))
    @@ ("g3" :> Keyed(Plain("wide", 2)))

Good == {Plain("both", 1), Plain("none", 1), Split("left", "right", "joined"), Split("left", "right", "noted"),
         Receipted("both", "covering")}

\* One thing changed; the publication is listed again or not.
Altered(x) ==
    {[x EXCEPT !.complete = FALSE],
     [x EXCEPT !.tables["t"].rows = @ + 1],
     [x EXCEPT !.tables["t"].columns = 2],
     [x EXCEPT !.tables["t"].split = ~ @],
     [x EXCEPT !.tables["t"].key = Blank],
     [x EXCEPT !.members = Append(@, x.members[Len(@)])],
     [x EXCEPT !.members = Tail(@)],
     [x EXCEPT !.members = Append(@, Of("u", Blank, "both"))],
     [x EXCEPT !.members[1].count = @ + 1],
     [x EXCEPT !.members[1].size = 9],
     [x EXCEPT !.members[Len(x.members)].digest = "stray"],
     [x EXCEPT !.members[Len(x.members)].digest = "wide"],
     [x EXCEPT !.members[1].part = 1],
     [x EXCEPT !.index = Blank]}

MCGTargets == [p \in Pins |-> IF p = "g2" THEN {"rules", Blank} ELSE {"rules"}]

MCGOffers ==
    Good
    \cup UNION {Altered(x) : x \in Good}
    \cup {Listed(y) : y \in {z \in UNION {Altered(x) : x \in Good} : ReceiptMemberOK(z)}}
    \cup {Split("left", "right", r) : r \in {"partly", "stale", "spare", "again", "alike", "forged", "claimed", "none"}}
    \cup {Split("left", "stray", "joined"), Split("stray", "right", "joined"), Split("left", "left", "joined")}
    \cup {Receipted("twice", "single"), Receipted("twice", "covering"), Plain("twice", 1)}
    \cup {Listed([Split("left", "right", "joined") EXCEPT !.policies = [t \in {"t"} |-> [@["t"] EXCEPT !.receiptOnly = TRUE]]]),
          Listed([Split("left", "right", "joined") EXCEPT !.policies = @ @@ ("u" :> [@["t"] EXCEPT !.receiptOnly = TRUE])]),
          Listed([Split("left", "right", "joined") EXCEPT !.policies = @ @@ ("u" :> @["t"])])}

Asked(base, rows, removals) ==
    [base |-> base, rows |-> rows, removals |-> removals, dataset |-> "rules", inputs |-> {}, columns |-> 3]

\* The same request for another dataset, or for none.
Elsewhere(q) == {q, [q EXCEPT !.dataset = "copy"], [q EXCEPT !.dataset = Blank]}

MCGRequests ==
    ("b1" :> Elsewhere(Asked(Blank, (<<1, 1>> :> 1) @@ (<<1, 2>> :> 1) @@ (<<2, 1>> :> 1), {})))
    @@ ("b2" :> Elsewhere(Asked("b1", (<<1, 1>> :> 1) @@ (<<1, 3>> :> 2), {2}))
                \cup {Asked("b1", (<<2, 1>> :> 2), {1})})
    @@ ("b3" :> {[Asked(Blank, (<<1, 2>> :> 1), {}) EXCEPT !.inputs = {"g1"}, !.dataset = Blank]})

-----------------------------------------------------------------------------
MCInit ==
    /\ Init /\ RegistrationInit /\ GenerationInit
    /\ \/ part \in {"layers", "registration", "generation"} /\ offered = Blank
       \/ part = "offer" /\ offered # Blank

MCNext ==
    \/ part = "layers" /\ Next /\ UNCHANGED <<part, rvars, gvars>>
    \/ part = "registration" /\ RegistrationNext /\ UNCHANGED <<part, vars, gvars>>
    \/ part = "generation" /\ GenerationNext /\ UNCHANGED <<part, vars, rvars>>

MCSpec == MCInit /\ [][MCNext]_allvars
=============================================================================
