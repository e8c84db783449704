CONSTANTS
  Formats <- MCFormatsNoWrap
  ArgLists <- MCArgLists
  PtrWidth = 16
  MallocMayFail = FALSE
  IoMayFail = FALSE
  Trailers <- MCTrailers
SPECIFICATION Spec
INVARIANT RoundTrip
CHECK_DEADLOCK FALSE
