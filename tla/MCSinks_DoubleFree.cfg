\* Two paths, five calls; every call may fail in each of its ways.
CONSTANTS
  p1 = p1
  p2 = p2
  Paths <- MCPaths
  Orig = Orig
  Closed = Closed
  None = None
  Restore = Restore
  Cmd = Cmd
  DevFd = DevFd
  MaxCalls = 5
  FormatMayFail = TRUE
SYMMETRY PathSymmetry
SPECIFICATION Spec
INVARIANT SprintfBufFreedOnce

CHECK_DEADLOCK FALSE
