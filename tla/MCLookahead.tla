----------------------------- MODULE MCLookahead -----------------------------
(***************************************************************************)
(* Lookahead with two grammars the library accepts and one it does not.    *)
(***************************************************************************)
EXTENDS Lookahead, TLC

CONSTANTS g1, g2, gOld, a, b, l1, l2, i1

MCAbi == (g1 :> 15) @@ (g2 :> 14) @@ (gOld :> 12)

(* g1 has a state with two symbols and one with one, g2 a single state.     *)
MCValid == (g1 :> << <<a, b>>, <<b>> >>) @@ (g2 :> << <<b, a>> >>) @@ (gOld :> << >>)

Symmetry == Permutations({l1, l2})
=============================================================================
