SPECIFICATION Spec
CONSTANTS
  n1 = n1
  n2 = n2
  Nodes <- MCNodes
  Works <- MCWorks
  Depths = {2}
  DefaultDepth = 1
  MaxHeight = 3
  MaxUpsets = 1
INVARIANTS
  TypeOK
  FinalizedStays
  NoDoubleSigning
PROPERTY
  TipNeverRegresses
CHECK_DEADLOCK FALSE
