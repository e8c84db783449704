\* The session controller under the dtrace command's call order.
CONSTANTS
  CPUs = {c1, c2}
  MaxFires = 2
  BufSize <- RoomyBufSize
  MaxRecLen <- MCMaxRecLen
SPECIFICATION Spec
INVARIANT TypeOK
 
PROPERTY SessionRefinement
PROPERTY ExitLeadsToEnd
