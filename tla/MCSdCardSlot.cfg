CONSTANTS
  Workers = {recorder}
  MaxRequests = 1
  MaxMishaps = 2
  Capacity = 2
SPECIFICATION Spec
CHECK_DEADLOCK FALSE
PROPERTIES
  StatusFollowsSlot
