----------------------------- MODULE MCFrontier -----------------------------
(***************************************************************************)
(* Small instances of Frontier: two cells, three scores, rows with and     *)
(* without deviations.                                                     *)
(***************************************************************************)
EXTENDS Frontier, TLC

MCScores == 0 .. 2
MCShapes == {TRUE, FALSE}
CellSymmetry == Permutations(Cells)

=============================================================================
