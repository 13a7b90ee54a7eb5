SPECIFICATION Spec
CONSTANTS
  Saved <- MCSaved
  Points = {1, 2, 3}
  Causes = {3, 7}
  Top = 18
INVARIANTS Transparent ArgumentsRight
