---------------------------- MODULE MCOwnership -----------------------------
(***************************************************************************)
(* Ownership with two trees of the shape root - leaf.                      *)
(***************************************************************************)
EXTENDS Ownership, TLC

CONSTANTS t1, t2, n1, n2, c1, c2, list1, s1, root, leaf

MCKids == [p \in {root, leaf} |-> IF p = root THEN {leaf} ELSE {}]
MCUnder == [p \in {root, leaf} |-> IF p = root THEN {root, leaf} ELSE {leaf}]

\* bounds: objects that are astray at a time, and objects of any kind; nothing
\* follows a fault
MaxAstray == 2
MaxLive == 7
Bounded == ~faulted /\ Cardinality(astray) <= MaxAstray /\ Cardinality(live) <= MaxLive

Symmetry == Permutations({t1, t2}) \cup Permutations({n1, n2}) \cup Permutations({c1, c2})
=============================================================================
