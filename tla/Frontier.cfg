\* Rows with and without deviations in one frontier, under a constraint some
\* candidates meet.
CONSTANTS
  Cells = {c1, c2}
  Constrained = TRUE
  FullRate = 1
  Scores <- MCScores
  Deviations = {0, 1}
  Rates = {0, 1}
  Shapes <- MCShapes
  MaxNoise = 1
  MaxChildren = 2
SPECIFICATION Spec
INVARIANTS
  TypeOK
  PairwiseBeyondNoise
  GroundKept
  ParetoWhenOnce
PROPERTIES
  BestNeverRegresses
SYMMETRY CellSymmetry
CHECK_DEADLOCK FALSE
