----------------------------- MODULE MCIdentities -----------------------------
(***************************************************************************)
(* Identities: two bulk states with a member in common, one of them with   *)
(* other bytes for it, and the second state's identity is a member of the  *)
(* first.  States: histories of three representations.                     *)
(***************************************************************************)
EXTENDS Identities, States

CONSTANTS id1, id2, id3, d1, d2, big, small, s1, s2, k1, k2, o1, o2

MCMembers == [c \in Bulks |-> IF c = big THEN {<<id1, d1>>, <<id2, d1>>} ELSE {<<id1, d2>>}]
MCStateOf == [c \in Bulks |-> IF c = big THEN id3 ELSE id2]
=============================================================================
