SPECIFICATION LocksSpec
CONSTANTS
  Tasks = {t1, t2}
  Requests <- MCOrdered
INVARIANT NoCircularWait
PROPERTY EveryRequestEnds
