CONSTANTS
  Formats <- MCFormats
  ArgLists <- MCArgLists
  PtrWidth = 16
  MallocMayFail = TRUE
  IoMayFail = TRUE
  Trailers <- MCTrailers
SPECIFICATION Spec
INVARIANT TypeOK
INVARIANT PlanTilesFormat
INVARIANT ValidateVerdict
 
CHECK_DEADLOCK FALSE
