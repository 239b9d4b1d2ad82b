------------------------------- MODULE MCReuse -------------------------------
(***************************************************************************)
(* Reuse: two calls that declare inputs of equal value, and results that   *)
(* turn out to depend on a third input, or on the other result's output.   *)
(* Selections: three states, each one edit from the one before, under four *)
(* definitions.                                                            *)
(***************************************************************************)
EXTENDS Reuse, Selections, TLC

CONSTANTS w1, w2

MCGroups == {<<1, 2>>}
MCOutputs == <<"p", "q">>
MCInputValue == [i \in Inputs |-> IF i \in {"a", "b"} THEN 1 ELSE 2]
MCRequest == [c \in Calls |-> [deps |-> [l \in {"x"} |-> IF c = 1 THEN "a" ELSE "b"], resource |-> 1]]
MCOmitted == {[scope |-> "dependency", label |-> "y"], [scope |-> "resource", label |-> "r"]}
MCFindings == {[scope |-> "dependency", label |-> "y", value |-> i] : i \in {"c", "p"}}
              \cup {[scope |-> "resource", label |-> "r", value |-> 1]}

MCField(occ) == (occ + 1) \div 2
MCDefinitions ==
    {[scope |-> Nil, material |-> FALSE, identity |-> FALSE, order |-> Nil],
     [scope |-> Nil, material |-> TRUE, identity |-> FALSE, order |-> "descending"],
     [scope |-> {1}, material |-> FALSE, identity |-> TRUE, order |-> Nil],
     [scope |-> {1, 2}, material |-> FALSE, identity |-> FALSE, order |-> "ascending"]}
MCBeginnings == {<<1, 3>>}

NoSelections ==
    /\ mem = <<>> /\ edited = <<>> /\ kept = [s \in Sel |-> Nil] /\ plans = <<>>
    /\ defn = CHOOSE d \in Definitions : TRUE
=============================================================================
