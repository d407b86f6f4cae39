------------------------------ MODULE MCParser ------------------------------
(***************************************************************************)
(* Parser with small sets of model values.  The sets whose members are     *)
(* interchangeable are symmetric; Cells is not, since a freed cell may be  *)
(* handed out again.                                                       *)
(***************************************************************************)
EXTENDS Parser, TLC

CONSTANTS l1, l2, lOld, g1, g2, notCallable, ranges, badRanges,
          text, reader1, reader2, chunk1, chunk2, cell1, cell2

Symmetry == Permutations({l1, l2}) \cup Permutations({g1, g2})
            \cup Permutations({reader1, reader2}) \cup Permutations({chunk1, chunk2})
=============================================================================
