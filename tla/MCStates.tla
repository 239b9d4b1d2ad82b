------------------------------- MODULE MCStates -------------------------------
(***************************************************************************)
(* Identities, keyed states, reuse of results and selections over states,  *)
(* each from its own initial state and at rest while another is running.   *)
(***************************************************************************)
EXTENDS MCIdentities, MCReuse

VARIABLE part   \* the component this behaviour is about

allvars == <<part, vars, svars, rvars, evars>>

Symmetry ==
    Permutations(Sessions) \cup Permutations({k1, k2}) \cup Permutations({o1, o2}) \cup Permutations(Workers)

MCInit ==
    /\ Init /\ StatesInit /\ ReuseInit
    /\ \/ part \in {"identities", "states", "reuse"} /\ NoSelections
       \/ part = "selections" /\ SelInit

MCNext ==
    \/ part = "identities" /\ Next /\ UNCHANGED <<part, svars, rvars, evars>>
    \/ part = "states" /\ StatesNext /\ UNCHANGED <<part, vars, rvars, evars>>
    \/ part = "reuse" /\ ReuseNext /\ UNCHANGED <<part, vars, svars, evars>>
    \/ part = "selections" /\ SelNext /\ UNCHANGED <<part, vars, svars, rvars>>

MCSpec == MCInit /\ [][MCNext]_allvars
=============================================================================
