CONSTANTS
  MaxTime = 8
  Today = 5
  MaxFiles = 5
  Day = 3
  Step = 1
  Far = 9
  MaxFaults = 1
SPECIFICATION Spec
CHECK_DEADLOCK FALSE
INVARIANTS
  TypeOK
  ListIsOrdered
  SearchIsExact
  NothingIsForgotten
PROPERTIES
  CleaningEnds
