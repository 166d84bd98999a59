SPECIFICATION Spec
CONSTANTS
  n1 = n1
  n2 = n2
  Nodes <- MCNodes
  Works <- MCEqualWorks
  Depths = {3}
  DefaultDepth = 1
  MaxHeight = 4
  MaxUpsets = 1
INVARIANT FinalizedIrreversible
CHECK_DEADLOCK FALSE
