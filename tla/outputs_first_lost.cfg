SPECIFICATION Spec
CONSTANTS
  Names = {"A", "B"}
  Geometries <- MCGeometries
  Losses = TRUE
  MaxChanges = 0
INVARIANT LossIsMeasured
