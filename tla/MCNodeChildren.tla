--------------------------- MODULE MCNodeChildren ---------------------------
(***************************************************************************)
(* NodeChildren over trees of three nodes and their children lists.        *)
(***************************************************************************)
EXTENDS NodeChildren, TLC

CONSTANTS root, n1, n2, n3

NoneHas == [n \in Nodes |-> <<>>]

(* A single node, a flat tree, and a child with children, first or alone.   *)
MCTrees ==
  { NoneHas,
    [NoneHas EXCEPT ![root] = <<n1, n2, n3>>],
    [NoneHas EXCEPT ![root] = <<n2, n1>>, ![n1] = <<n3>>],
    [NoneHas EXCEPT ![root] = <<n2>>, ![n2] = <<n1, n3>>] }

(* n2 is anonymous; n1 and n3 have the same field.                          *)
MCNamedNodes == {root, n1, n3}
MCFieldOf == [n \in Nodes |-> IF n \in {n1, n3} THEN 1 ELSE 0]
=============================================================================
