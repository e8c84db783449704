\* Two descriptor addresses, clauses of up to two records, five EPIDs
\* (tables of 2, 4 and 8 slots); a failed compile ends the compilation.
\* Aggregation ids 0, 1, 3 and 5: added in any order they grow the table
\* by zero to four doublings at a time (1, 2, 4, 8 slots).
CONSTANTS
  DDs = {d1, d2}
  NoDD = NoDD
  RecBase = 4
  MaxRecs = 2
  MaxAdds = 5
  ContinueAfterError = FALSE
  AggIds = {0, 1, 3, 5}
SYMMETRY DDSymmetry
SPECIFICATION Spec
INVARIANT TypeOK
INVARIANT RefcountExact
INVARIANT LookupFindsAdded
INVARIANT RecordsLaidOut
INVARIANT RecordsWithinVector
INVARIANT AggInBounds
INVARIANT AggLookupFindsAdded
