\* As MCRecordDescTable.cfg, but the consumer compiles again after a
\* failed compilation.
CONSTANTS
  DDs = {d1, d2}
  NoDD = NoDD
  RecShapes <- MCRecShapes
  RecBase = 4
  MaxRecs = 2
  MaxAdds = 5
  ContinueAfterError = TRUE
SYMMETRY DDSymmetry
SPECIFICATION Spec
INVARIANT TableInBounds
