CONSTANTS
  Formats <- MCFormats
  ArgLists <- MCArgLists
  PtrWidth = 16
  MallocMayFail = FALSE
  IoMayFail = FALSE
  Trailers <- MCTrailers
SPECIFICATION Spec
INVARIANT PickleFits
CHECK_DEADLOCK FALSE
