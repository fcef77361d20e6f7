CONSTANTS
  Workers = {recorder}
  MaxRequests = 2
  MaxMishaps = 1
  Capacity = 2
SPECIFICATION Spec
CHECK_DEADLOCK FALSE
INVARIANTS
  SleepersAreAnswered
  CardIsLeftAlone
PROPERTIES
  RequestEnds
  WorkersComeBack
