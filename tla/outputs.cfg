SPECIFICATION Spec
CONSTANTS
  Names = {"A", "B"}
  Geometries <- MCGeometries
  Losses = TRUE
  MaxChanges = 1
INVARIANTS TypeOK NoGhosts ReportedIsLayout
PROPERTY MeasuredWhenComplete
