SPECIFICATION Spec
\* The kernel may fault and halt.
CHECK_DEADLOCK FALSE
CONSTANTS
  Hdr = 4
  Align = 2
  Page = 8
  MinExpand = 24
  Limit = 48
  Sizes = {1, 7, 22}
  Top = 64
INVARIANTS
  TypeOK
  ListTilesHeap
  AllocationsDisjoint
  FreedIsReusable
  BlocksMapped
