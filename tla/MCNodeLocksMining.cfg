\* The node really stops here: the run shows a behaviour that ends in a deadlock.
SPECIFICATION LocksSpec
CONSTANTS
  Tasks = {t1, t2}
  Requests <- MCWithMining
CHECK_DEADLOCK FALSE
PROPERTY EveryRequestEnds
