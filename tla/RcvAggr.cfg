\* Sequence numbers modulo 8, sessions that wrap them twice, the largest
\* reordering the filter is made for.
CONSTANTS
  Tids = {0, 1}
  MaxSeqNo = 7
  Reorder = 3
  MaxFrameNo = 17
SPECIFICATION Spec
INVARIANT FilterIsExact
